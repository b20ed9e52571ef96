------------------------------ MODULE AuthProofs ------------------------------
(***************************************************************************)
(* Theorems about Auth, and that it implements SessionAuthority, for every *)
(* value of the constants.                                                 *)
(*                                                                         *)
(* The inductive invariant says of the history what the properties leave   *)
(* out: the tables are parts of what was ever committed, a token anybody   *)
(* carries was granted, ids of accounts are not used again.                *)
(***************************************************************************)
EXTENDS AuthRefinement, TLAPS

Enrolled(id) == \E u \in enrolled : u.id = id
Granted(t)   == \E s \in granted : s.token = t

\* What request r holds where a later statement of it relies on it.
LocalOK(r) ==
  /\ pc[r] \in {"IsFirstRun", "CheckExisting", "CreateUser"} =>
       /\ input[r].name \in Names
       /\ input[r].email \in Emails
       /\ input[r].pw \in Passwords
  /\ pc[r] = "CreateSession" => Enrolled(usr[r])
  /\ pc[r] = "TouchLogin" => input[r].token # None
  /\ input[r].token # None => Granted(input[r].token)

LocalsOK == \A r \in Requests : LocalOK(r)

\* The tables and what clients hold come out of the history.
HistoryOK ==
  /\ users \subseteq enrolled
  /\ sessions \subseteq granted
  /\ \A t \in revoked \cup known : Granted(t)
  /\ \A s \in granted : Enrolled(s.user)

AllAdmin == \A u \in users : u.admin

\* A session that was granted is still there unless its token was revoked, it
\* has expired or its account is gone.
SessionsAccounted ==
  \A s \in granted :
    \/ s \in sessions
    \/ s.token \in revoked
    \/ ~Live(s)
    \/ s.user \notin {u.id : u \in users}

Inv ==
  /\ TypeOK /\ LocalsOK /\ HistoryOK
  /\ UniqueAccounts /\ AllAdmin
  /\ RevokedTokensStayDead /\ SessionsAccounted
----------------------------------------------------------------------------
(***************************************************************************)
(* The types and the locals.                                               *)
(***************************************************************************)
\* The steps that move a request keep the shape of its locals.
LEMMA GotoType ==
  ASSUME TypeOK, NEW r \in Requests, NEW s \in Statements, Goto(r, s)
  PROVE  /\ pc' \in [Requests -> Statements \cup {"idle"}]
         /\ input' = input /\ usr' = usr /\ answer' = answer
BY DEF TypeOK, Goto

\* So do the steps that also store a user id.
LEMMA GotoWithType ==
  ASSUME TypeOK, NEW r \in Requests, NEW s \in Statements,
         NEW u \in UserIds \cup {None}, GotoWith(r, s, u)
  PROVE  /\ pc' \in [Requests -> Statements \cup {"idle"}]
         /\ usr' \in [Requests -> UserIds \cup {None}]
         /\ input' = input /\ answer' = answer
BY DEF TypeOK, GotoWith

\* The locals of an idle slot are well-formed.
LEMMA BlankType == Blank \in Input
BY DEF Blank, Input

\* Answering a request leaves a well-formed idle slot.
LEMMA ReplyType ==
  ASSUME TypeOK, NEW r \in Requests, NEW a \in Answers, Reply(r, a)
  PROVE  /\ pc' \in [Requests -> Statements \cup {"idle"}]
         /\ input' \in [Requests -> Input]
         /\ usr' \in [Requests -> UserIds \cup {None}]
         /\ answer' \in [Requests -> Answers]
BY BlankType DEF TypeOK, Reply

\* A request whose contents are well-formed enters at its handler's first
\* statement.
LEMMA ArriveType ==
  ASSUME TypeOK, NEW r \in Requests, NEW i \in Input, i.kind \in Kinds, Arrive(r, i)
  PROVE  TypeOK'
<1>1. Entry[i.kind] \in Statements
  BY DEF Entry, Kinds, Statements
<1>2. /\ pc' \in [Requests -> Statements \cup {"idle"}]
      /\ input' \in [Requests -> Input]
      /\ usr' \in [Requests -> UserIds \cup {None}]
      /\ answer' \in [Requests -> Answers]
  BY <1>1 DEF TypeOK, Arrive, Answers
<1> QED
  BY <1>2 DEF TypeOK, Arrive, ReadOnly, db, history, world

\* The row CreateUser inserts is a user, since the request brought a name, an
\* address and a password.
LEMMA SetupTypes ==
  ASSUME TypeOK, LocalsOK, NEW r \in Requests, pc[r] = "CreateUser",
         NEW id \in UserIds
  PROVE  NewUser(id, input[r]) \in User
BY DEF LocalsOK, LocalOK, NewUser, User

\* A failed login is answered with one of the answers.
LEMMA LoginFailedType ==
  ASSUME NEW r \in Requests PROVE LoginFailed(r) \in Answers
BY DEF LoginFailed, Answers

\* So is a request without a live session.
LEMMA RefusedType ==
  ASSUME NEW r \in Requests PROVE Refused(r) \in Answers
BY DEF Refused, Answers

\* Requests that arrive are well-formed.
LEMMA ArrivalType ==
  ASSUME TypeOK, NEW r \in Requests, Arrivals(r)
  PROVE  TypeOK'
<1>1. CASE ArriveSetup(r)
  <2>1. PICK n \in Names, e \in Emails, p \in Passwords :
          Arrive(r, [Blank EXCEPT !.kind = "setup", !.name = n, !.email = e, !.pw = p])
    BY <1>1 DEF ArriveSetup
  <2> DEFINE i == [Blank EXCEPT !.kind = "setup", !.name = n, !.email = e, !.pw = p]
  <2>2. i \in Input /\ i.kind \in Kinds
    BY DEF Blank, Input, Kinds
  <2> HIDE DEF i
  <2> QED
    BY <2>1, <2>2, ArriveType DEF i
<1>2. CASE ArriveLogin(r)
  <2>1. PICK n \in Names, p \in Passwords :
          Arrive(r, [Blank EXCEPT !.kind = "login", !.name = n, !.pw = p])
    BY <1>2 DEF ArriveLogin
  <2> DEFINE i == [Blank EXCEPT !.kind = "login", !.name = n, !.pw = p]
  <2>2. i \in Input /\ i.kind \in Kinds
    BY DEF Blank, Input, Kinds
  <2> HIDE DEF i
  <2> QED
    BY <2>1, <2>2, ArriveType DEF i
<1>3. CASE ArriveWithCookie(r)
  <2>1. PICK k \in {"logout", "api", "me"}, t \in known \cup {None} :
          Arrive(r, [Blank EXCEPT !.kind = k, !.token = t])
    BY <1>3 DEF ArriveWithCookie
  <2> DEFINE i == [Blank EXCEPT !.kind = k, !.token = t]
  <2>2. i \in Input /\ i.kind \in Kinds
    BY DEF Blank, Input, Kinds, TypeOK
  <2> HIDE DEF i
  <2> QED
    BY <2>1, <2>2, ArriveType DEF i
<1>4. CASE ArriveState(r)
  <2> DEFINE i == [Blank EXCEPT !.kind = "state"]
  <2>1. i \in Input /\ i.kind \in Kinds
    BY DEF Blank, Input, Kinds
  <2>2. Arrive(r, i)
    BY <1>4 DEF ArriveState
  <2> HIDE DEF i
  <2> QED
    BY <2>1, <2>2, ArriveType
<1>5. CASE LoginUndecodable(r)
  <2>1. "bad request" \in Answers
    BY DEF Answers
  <2> QED
    BY <1>5, <2>1, ReplyType DEF LoginUndecodable, TypeOK, ReadOnly, db, history, world
<1> QED
  BY <1>1, <1>2, <1>3, <1>4, <1>5 DEF Arrivals

\* A handler's statement that changes nothing durable keeps the types, whether
\* it moves the request on or answers it.
LEMMA ReadOnlyType ==
  ASSUME TypeOK, ReadOnly, NEW r \in Requests,
         \/ \E s \in Statements : Goto(r, s)
         \/ \E s \in Statements, u \in UserIds \cup {None} : GotoWith(r, s, u)
         \/ \E a \in Answers : Reply(r, a)
  PROVE  TypeOK'
<1>1. CASE \E s \in Statements : Goto(r, s)
  BY <1>1, GotoType DEF TypeOK, ReadOnly, db, history, world
<1>2. CASE \E s \in Statements, u \in UserIds \cup {None} : GotoWith(r, s, u)
  BY <1>2, GotoWithType DEF TypeOK, ReadOnly, db, history, world
<1>3. CASE \E a \in Answers : Reply(r, a)
  BY <1>3, ReplyType DEF TypeOK, ReadOnly, db, history, world
<1> QED
  BY <1>1, <1>2, <1>3

\* Every statement of every handler keeps the types.
LEMMA HandleType ==
  ASSUME TypeOK, LocalsOK, HistoryOK, NEW r \in Requests, Handle(r)
  PROVE  TypeOK'
<1>1. CASE CheckFirstRun(r)
  <2>1. "CheckExisting" \in Statements /\ {"db error", "already complete", "bad request"} \subseteq Answers
    BY DEF Statements, Answers
  <2> QED
    BY <1>1, <2>1, ReadOnlyType DEF CheckFirstRun
<1>2. CASE CheckExisting(r)
  <2>1. "CreateUser" \in Statements /\ "create failed" \in Answers
    BY DEF Statements, Answers
  <2> QED
    BY <1>2, <2>1, ReadOnlyType DEF CheckExisting
<1>3. CASE CreateUser(r)
  <2>1. PICK id \in UserIds \ {u.id : u \in enrolled} :
          \/ /\ users' = users \cup {NewUser(id, input[r])}
             /\ enrolled' = enrolled \cup {NewUser(id, input[r])}
             /\ GotoWith(r, "ReadBack", id)
             /\ UNCHANGED <<sessions, granted, revoked, known, world>>
          \/ Reply(r, "create failed") /\ ReadOnly
    BY <1>3 DEF CreateUser
  <2>2. "ReadBack" \in Statements /\ "create failed" \in Answers
    BY DEF Statements, Answers
  <2>3. NewUser(id, input[r]) \in User
    BY <1>3, SetupTypes DEF CreateUser
  <2>4. CASE Reply(r, "create failed") /\ ReadOnly
    BY <2>2, <2>4, ReadOnlyType
  <2>5. CASE /\ users' = users \cup {NewUser(id, input[r])}
             /\ enrolled' = enrolled \cup {NewUser(id, input[r])}
             /\ GotoWith(r, "ReadBack", id)
             /\ UNCHANGED <<sessions, granted, revoked, known, world>>
    BY <2>2, <2>3, <2>5, GotoWithType DEF TypeOK, world
  <2> QED
    BY <2>1, <2>4, <2>5
<1>4. CASE ReadBack(r)
  <2>1. "GetUser" \in Statements /\ "create failed" \in Answers
    BY DEF Statements, Answers
  <2> QED
    BY <1>4, <2>1, ReadOnlyType DEF ReadBack
<1>5. CASE GetUser(r)
  <2>1. "CreateSession" \in Statements
    BY DEF Statements
  <2>2. \A u \in users : u.id \in UserIds
    BY DEF TypeOK, User
  <2> QED
    BY <1>5, <2>1, <2>2, ReadOnlyType, LoginFailedType DEF GetUser
<1>6. CASE CreateSession(r)
  <2>1. PICK t \in Tokens :
          \/ /\ sessions' = sessions \cup {[token |-> t, user |-> usr[r], expires |-> clock + Duration]}
             /\ granted' = granted \cup {[token |-> t, user |-> usr[r], expires |-> clock + Duration]}
             /\ pc' = [pc EXCEPT ![r] = "TouchLogin"]
             /\ input' = [input EXCEPT ![r].token = t]
             /\ UNCHANGED <<usr, answer, users, world, enrolled, revoked, known>>
          \/ Reply(r, LoginFailed(r)) /\ ReadOnly
    BY <1>6 DEF CreateSession
  <2>2. CASE Reply(r, LoginFailed(r)) /\ ReadOnly
    BY <2>2, ReadOnlyType, LoginFailedType
  <2>3. CASE /\ sessions' = sessions \cup {[token |-> t, user |-> usr[r], expires |-> clock + Duration]}
             /\ granted' = granted \cup {[token |-> t, user |-> usr[r], expires |-> clock + Duration]}
             /\ pc' = [pc EXCEPT ![r] = "TouchLogin"]
             /\ input' = [input EXCEPT ![r].token = t]
             /\ UNCHANGED <<usr, answer, users, world, enrolled, revoked, known>>
    <3>1. usr[r] \in UserIds
      BY <1>6 DEF CreateSession, LocalsOK, LocalOK, Enrolled, TypeOK, User
    <3>2. [token |-> t, user |-> usr[r], expires |-> clock + Duration] \in Session
      BY <3>1, AuthAssumption DEF Session, TypeOK
    <3>3. pc' \in [Requests -> Statements \cup {"idle"}]
      BY <2>3 DEF TypeOK, Statements
    <3>4. input' \in [Requests -> Input]
      BY <2>3 DEF TypeOK, Input
    <3> QED
      BY <2>3, <3>2, <3>3, <3>4 DEF TypeOK, world
  <2> QED
    BY <2>1, <2>2, <2>3
<1>7. CASE TouchLogin(r)
  <2>1. "ok" \in Answers
    BY DEF Answers
  <2>2. input[r].token \in Tokens
    BY <1>7 DEF TouchLogin, LocalsOK, LocalOK, TypeOK, Input
  <2> QED
    BY <1>7, <2>1, <2>2, ReplyType DEF TouchLogin, TypeOK, db, world
<1>8. CASE DeleteSession(r)
  <2>1. "ok" \in Answers
    BY DEF Answers
  <2>2. input[r].token \in Tokens \cup {None}
    BY DEF TypeOK, Input
  <2> QED
    BY <1>8, <2>1, <2>2, ReplyType DEF DeleteSession, TypeOK, world
<1>9. CASE Guard(r)
  <2>1. "GetSession" \in Statements /\ "setup required" \in Answers
    BY DEF Statements, Answers
  <2> QED
    BY <1>9, <2>1, ReadOnlyType DEF Guard
<1>10. CASE GetSession(r)
  <2>1. "GetUserByID" \in Statements
    BY DEF Statements
  <2>2. \A s \in sessions : s.user \in UserIds
    BY DEF TypeOK, Session
  <2> QED
    BY <1>10, <2>1, <2>2, ReadOnlyType, RefusedType DEF GetSession
<1>11. CASE GetUserByID(r)
  <2>1. "TouchSession" \in Statements
    BY DEF Statements
  <2> QED
    BY <1>11, <2>1, ReadOnlyType, RefusedType DEF GetUserByID
<1>12. CASE TouchSession(r)
  <2>1. "ok" \in Answers
    BY DEF Answers
  <2> QED
    BY <1>12, <2>1, ReadOnlyType DEF TouchSession
<1>13. ASSUME NEW a \in Answers, NEW t \in Statements, Note(r, a, t) PROVE TypeOK'
  <2>1. /\ pc' \in [Requests -> Statements \cup {"idle"}]
        /\ answer' \in [Requests -> Answers]
    BY <1>13 DEF Note, TypeOK
  <2> QED
    BY <1>13, <2>1 DEF Note, TypeOK, ReadOnly, db, history, world
<1>14. CASE StateComplete(r)
  <2>1. {"complete", "incomplete"} \subseteq Answers /\ "CountUsers" \in Statements
    BY DEF Answers, Statements
  <2> QED
    BY <1>13, <1>14, <2>1 DEF StateComplete
<1>15. CASE StateAdmin(r)
  <2>1. \A c, a : AdminSet(c, a) \in Answers
    BY DEF Answers, AdminSet
  <2>2. "CountHosts" \in Statements
    BY DEF Statements
  <2> QED
    BY <1>13, <1>15, <2>1, <2>2 DEF StateAdmin
<1>16. CASE StateHosts(r)
  <2>1. answer[r] \in Answers
    BY DEF TypeOK
  <2> QED
    BY <1>16, <2>1, ReadOnlyType DEF StateHosts
<1> QED
  BY <1>1, <1>2, <1>3, <1>4, <1>5, <1>6, <1>7, <1>8, <1>9, <1>10, <1>11,
     <1>12, <1>14, <1>15, <1>16 DEF Handle

\* Every step keeps the types.
LEMMA TypeStep ==
  ASSUME TypeOK, LocalsOK, HistoryOK, [Next]_vars
  PROVE  TypeOK'
<1>1. CASE \E r \in Requests : Arrivals(r) \/ Handle(r)
  BY <1>1, ArrivalType, HandleType
<1>2. CASE DeleteUser
  BY <1>2 DEF DeleteUser, Cascaded, TypeOK, world, locals, history
<1>3. CASE DeleteExpiredSessions
  BY <1>3 DEF DeleteExpiredSessions, TypeOK, world, locals, history
<1>4. CASE Tick
  BY <1>4 DEF Tick, TypeOK, db, locals, history
<1>5. CASE Break
  BY <1>5 DEF Break, TypeOK, db, locals, history
<1>6. CASE Crash
  <2>1. "none" \in Answers
    BY DEF Answers
  <2> QED
    BY <1>6, <2>1, BlankType DEF Crash, TypeOK, db, world, history
<1>7. CASE UNCHANGED vars
  BY <1>7 DEF vars, TypeOK
<1> QED
  BY <1>1, <1>2, <1>3, <1>4, <1>5, <1>6, <1>7 DEF Next
----------------------------------------------------------------------------
(***************************************************************************)
(* What a step may do to the tables, the clock and the history.            *)
(***************************************************************************)
Keeps == UNCHANGED <<users, sessions, clock, enrolled, granted, revoked>>

Informs ==
  /\ Keeps
  /\ \A t \in known' : t \in known \/ Granted(t)

Enrols ==
  \E id \in UserIds, i \in Input :
    /\ ~Enrolled(id)
    /\ UniqueUser(NewUser(id, i))
    /\ users' = users \cup {NewUser(id, i)}
    /\ enrolled' = enrolled \cup {NewUser(id, i)}
    /\ UNCHANGED <<sessions, clock, granted, revoked, known>>

Row(t, id) == [token |-> t, user |-> id, expires |-> clock + Duration]

Grants ==
  \E t \in Tokens, id \in UserIds :
    /\ ~Granted(t)
    /\ Enrolled(id)
    /\ ForeignKeys => id \in {u.id : u \in users}
    /\ sessions' = sessions \cup {Row(t, id)}
    /\ granted' = granted \cup {Row(t, id)}
    /\ UNCHANGED <<users, clock, enrolled, revoked, known>>

Revokes ==
  \E t \in Tokens :
    /\ Granted(t)
    /\ sessions' = sessions \ Deleted(t)
    /\ revoked' = revoked \cup {t}
    /\ UNCHANGED <<users, clock, enrolled, granted, known>>

Closes ==
  \E u \in users :
    /\ users' = users \ {u}
    /\ sessions' = Cascaded(u)
    /\ UNCHANGED <<clock, enrolled, granted, revoked, known>>

Purges ==
  /\ sessions' = sessions \ Purged
  /\ UNCHANGED <<users, clock, enrolled, granted, revoked, known>>

Ages ==
  /\ clock' = clock + 1
  /\ UNCHANGED <<users, sessions, enrolled, granted, revoked, known>>

DurableStep ==
  Informs \/ Enrols \/ Grants \/ Revokes \/ Closes \/ Purges \/ Ages

\* Every step of the system is one of these seven.
LEMMA Durable ==
  ASSUME TypeOK, LocalsOK, [Next]_vars
  PROVE  DurableStep
<1>1. ASSUME ReadOnly PROVE Informs
  BY <1>1 DEF ReadOnly, Informs, Keeps, db, history, world
<1>2. ASSUME NEW r \in Requests, Arrivals(r) PROVE DurableStep
  BY <1>1, <1>2 DEF Arrivals, ArriveSetup, ArriveLogin, LoginUndecodable, ArriveWithCookie,
                    ArriveState, Arrive, DurableStep
<1>3. ASSUME NEW r \in Requests, Handle(r) PROVE DurableStep
  <2>1. CASE CreateUser(r)
    <3>1. PICK id \in UserIds \ {u.id : u \in enrolled} :
            \/ /\ UniqueUser(NewUser(id, input[r]))
               /\ users' = users \cup {NewUser(id, input[r])}
               /\ enrolled' = enrolled \cup {NewUser(id, input[r])}
               /\ UNCHANGED <<sessions, granted, revoked, known, world>>
            \/ ReadOnly
      BY <2>1 DEF CreateUser
    <3>2. ~Enrolled(id)
      BY DEF Enrolled
    <3>3. input[r] \in Input
      BY DEF TypeOK
    <3> QED
      BY <1>1, <3>1, <3>2, <3>3 DEF Enrols, DurableStep, world
  <2>2. CASE CreateSession(r)
    <3>1. PICK t \in Tokens \ {s.token : s \in granted} :
            \/ /\ ForeignKeys => usr[r] \in {u.id : u \in users}
               /\ sessions' = sessions \cup {Row(t, usr[r])}
               /\ granted' = granted \cup {Row(t, usr[r])}
               /\ UNCHANGED <<users, world, enrolled, revoked, known>>
            \/ ReadOnly
      BY <2>2 DEF CreateSession, Row
    <3>2. ~Granted(t)
      BY DEF Granted
    <3>3. Enrolled(usr[r]) /\ usr[r] \in UserIds
      BY <2>2 DEF CreateSession, LocalsOK, LocalOK, Enrolled, TypeOK, User
    <3> QED
      BY <1>1, <3>1, <3>2, <3>3 DEF Grants, DurableStep, world
  <2>3. CASE TouchLogin(r)
    BY <2>3 DEF TouchLogin, LocalsOK, LocalOK, Informs, Keeps, DurableStep, db, world
  <2>4. CASE DeleteSession(r)
    <3>1. \/ /\ input[r].token # None
             /\ sessions' = sessions \ Deleted(input[r].token)
             /\ revoked' = revoked \cup {input[r].token}
             /\ UNCHANGED <<users, world, enrolled, granted, known>>
          \/ UNCHANGED <<sessions, revoked, users, world, enrolled, granted, known>>
      BY <2>4 DEF DeleteSession
    <3>2. input[r].token # None => input[r].token \in Tokens /\ Granted(input[r].token)
      BY DEF LocalsOK, LocalOK, TypeOK, Input
    <3> QED
      BY <3>1, <3>2 DEF Revokes, Informs, Keeps, DurableStep, world
  <2>5. CASE ReadOnly
    BY <1>1, <2>5 DEF DurableStep
  <2> QED
    BY <1>3, <2>1, <2>2, <2>3, <2>4, <2>5
    DEF Handle, CheckFirstRun, CheckExisting, ReadBack, GetUser, Guard,
        GetSession, GetUserByID, TouchSession, StateComplete, StateAdmin, StateHosts, Note
<1>4. CASE DeleteUser
  BY <1>4 DEF DeleteUser, Closes, DurableStep, world, history
<1>5. CASE DeleteExpiredSessions
  BY <1>5 DEF DeleteExpiredSessions, Purges, DurableStep, world, history
<1>6. CASE Tick
  BY <1>6 DEF Tick, Ages, DurableStep, db, history
<1>7. CASE Break \/ Crash \/ UNCHANGED vars
  BY <1>7 DEF Break, Crash, vars, Informs, Keeps, DurableStep, db, world, history
<1> QED
  BY <1>2, <1>3, <1>4, <1>5, <1>6, <1>7 DEF Next
----------------------------------------------------------------------------
(***************************************************************************)
(* The invariants of the tables and the history.                           *)
(***************************************************************************)
\* The history only grows, the tables stay within it, and every token in it was
\* granted to an account that was enrolled.
LEMMA HistoryStep ==
  ASSUME TypeOK, HistoryOK, DurableStep
  PROVE  HistoryOK' /\ enrolled \subseteq enrolled' /\ granted \subseteq granted'
<1>1. CASE Informs
  BY <1>1 DEF Informs, Keeps, HistoryOK, Granted, Enrolled
<1>2. CASE Enrols
  BY <1>2 DEF Enrols, HistoryOK, Granted, Enrolled
<1>3. CASE Grants
  BY <1>3 DEF Grants, Row, HistoryOK, Granted, Enrolled
<1>4. CASE Revokes
  BY <1>4 DEF Revokes, Deleted, HistoryOK, Granted, Enrolled
<1>5. CASE Closes
  BY <1>5 DEF Closes, Cascaded, HistoryOK, Granted, Enrolled
<1>6. CASE Purges \/ Ages
  BY <1>6 DEF Purges, Ages, HistoryOK, Granted, Enrolled
<1> QED
  BY <1>1, <1>2, <1>3, <1>4, <1>5, <1>6 DEF DurableStep

\* Only CreateUser adds an account, and the UNIQUE constraints and the fresh id
\* keep it apart from the others.
LEMMA UniqueStep ==
  ASSUME UniqueAccounts, AllAdmin, DurableStep
  PROVE  UniqueAccounts' /\ AllAdmin'
<1>1. CASE Enrols
  <2>1. PICK id \in UserIds, i \in Input :
          /\ UniqueUser(NewUser(id, i))
          /\ users' = users \cup {NewUser(id, i)}
    BY <1>1 DEF Enrols
  <2> DEFINE row == NewUser(id, i)
  <2>2. row.admin
    BY DEF NewUser
  <2>3. \A v \in users : row.id # v.id /\ row.name # v.name /\ row.email # v.email
    BY <2>1 DEF UniqueUser
  <2> HIDE DEF row
  <2>4. users' = users \cup {row}
    BY <2>1 DEF row
  <2>5. UniqueAccounts'
    BY <2>3, <2>4 DEF UniqueAccounts
  <2>6. AllAdmin'
    BY <2>2, <2>4 DEF AllAdmin
  <2> QED
    BY <2>5, <2>6
<1>2. CASE Closes
  BY <1>2 DEF Closes, UniqueAccounts, AllAdmin
<1>3. CASE UNCHANGED users
  BY <1>3 DEF UniqueAccounts, AllAdmin
<1> QED
  BY <1>1, <1>2, <1>3
  DEF DurableStep, Informs, Keeps, Grants, Revokes, Purges, Ages

\* A token is granted once, so a revoked one is not granted again, and the
\* logout that revokes it deletes its session in the same statement.
LEMMA RevokedStep ==
  ASSUME HistoryOK, RevokedTokensStayDead, DurableStep
  PROVE  RevokedTokensStayDead'
<1>1. CASE Grants
  <2>1. PICK t \in Tokens, id \in UserIds :
          /\ ~Granted(t)
          /\ sessions' = sessions \cup {Row(t, id)}
          /\ UNCHANGED revoked
    BY <1>1 DEF Grants
  <2>2. t \notin revoked /\ Row(t, id).token = t
    BY <2>1 DEF HistoryOK, Row
  <2> QED
    BY <2>1, <2>2 DEF RevokedTokensStayDead
<1>2. CASE Revokes
  BY <1>2 DEF Revokes, Deleted, RevokedTokensStayDead
<1>3. CASE UNCHANGED revoked /\ sessions' \subseteq sessions
  BY <1>3 DEF RevokedTokensStayDead
<1> QED
  BY <1>1, <1>2, <1>3
  DEF DurableStep, Informs, Keeps, Enrols, Closes, Cascaded, Purges, Ages

\* A granted session leaves the table in three ways only: its token is revoked,
\* it expires, or its account is deleted.  The account does not come back, since
\* ids are fresh, and the clock does not go back.
LEMMA AccountedStep ==
  ASSUME TypeOK, HistoryOK, UniqueAccounts, SessionsAccounted, DurableStep
  PROVE  SessionsAccounted'
<1>1. CASE Informs
  BY <1>1 DEF Informs, Keeps, SessionsAccounted, Live
<1>2. CASE Enrols
  BY <1>2 DEF Enrols, NewUser, HistoryOK, Enrolled, SessionsAccounted, Live
<1>3. CASE Grants
  BY <1>3 DEF Grants, SessionsAccounted, Live
<1>4. CASE Revokes
  BY <1>4 DEF Revokes, Deleted, SessionsAccounted, Live
<1>5. CASE Closes
  <2>1. PICK u \in users :
          /\ users' = users \ {u}
          /\ sessions' = Cascaded(u)
          /\ UNCHANGED <<clock, granted, revoked>>
    BY <1>5 DEF Closes
  <2>2. u.id \notin {v.id : v \in users'}
    BY <2>1 DEF UniqueAccounts
  <2>3. ASSUME NEW s \in granted, s \in sessions, s \notin sessions'
        PROVE  s.user = u.id
    BY <2>1, <2>3 DEF Cascaded
  <2> QED
    BY <2>1, <2>2, <2>3 DEF SessionsAccounted, Live
<1>6. CASE Purges
  BY <1>6 DEF Purges, Purged, SessionsAccounted, Live
<1>7. CASE Ages
  <2>1. \A s \in granted : s.expires \in Nat
    BY DEF TypeOK, Session
  <2> QED
    BY <1>7, <2>1 DEF Ages, SessionsAccounted, Live, TypeOK
<1> QED
  BY <1>1, <1>2, <1>3, <1>4, <1>5, <1>6, <1>7 DEF DurableStep
----------------------------------------------------------------------------
(***************************************************************************)
(* The locals.                                                             *)
(***************************************************************************)
\* A request that does not move keeps what it relies on.
LEMMA StillLocal ==
  ASSUME NEW q \in Requests, LocalOK(q),
         enrolled \subseteq enrolled', granted \subseteq granted',
         pc'[q] = pc[q], input'[q] = input[q], usr'[q] = usr[q]
  PROVE  LocalOK(q)'
BY DEF LocalOK, Enrolled, Granted

\* A request that goes to a statement which relies on its token only.
LEMMA PassLocal ==
  ASSUME NEW q \in Requests, LocalOK(q), granted \subseteq granted',
         input'[q] = input[q],
         pc'[q] \in {"ReadBack", "GetUser", "GetSession", "GetUserByID",
                     "TouchSession", "CountUsers", "CountHosts"}
  PROVE  LocalOK(q)'
BY DEF LocalOK, Granted

\* A request that was answered relies on nothing.
LEMMA ReplyLocal ==
  ASSUME TypeOK, NEW q \in Requests, NEW a, Reply(q, a)
  PROVE  LocalOK(q)'
BY DEF Reply, Blank, LocalOK, TypeOK

\* A request that arrives carries what its first statement needs, and a token
\* only if a client was given it.
LEMMA ArriveLocal ==
  ASSUME TypeOK, HistoryOK, NEW r \in Requests, Arrivals(r)
  PROVE  LocalOK(r)'
<1>1. CASE ArriveSetup(r)
  BY <1>1 DEF ArriveSetup, Arrive, Blank, Entry, LocalOK, TypeOK
<1>2. CASE ArriveLogin(r)
  BY <1>2 DEF ArriveLogin, Arrive, Blank, Entry, LocalOK, TypeOK
<1>3. CASE ArriveWithCookie(r)
  BY <1>3 DEF ArriveWithCookie, Arrive, Blank, Entry, LocalOK, TypeOK,
              HistoryOK, Granted, ReadOnly, history
<1>4. CASE ArriveState(r)
  BY <1>4 DEF ArriveState, Arrive, Blank, Entry, LocalOK, TypeOK
<1>5. CASE LoginUndecodable(r)
  BY <1>5, ReplyLocal DEF LoginUndecodable
<1> QED
  BY <1>1, <1>2, <1>3, <1>4, <1>5 DEF Arrivals

\* A statement leaves its request with what the next one relies on.
LEMMA HandleLocal ==
  ASSUME TypeOK, LocalsOK, HistoryOK, NEW r \in Requests, Handle(r),
         enrolled \subseteq enrolled', granted \subseteq granted'
  PROVE  LocalOK(r)'
<1>0. LocalOK(r)
  BY DEF LocalsOK
<1>1. ASSUME NEW a, Reply(r, a) PROVE LocalOK(r)'
  BY <1>1, ReplyLocal
<1>2. CASE CheckFirstRun(r) \/ CheckExisting(r)
  BY <1>0, <1>1, <1>2
  DEF CheckFirstRun, CheckExisting, Goto, LocalOK, TypeOK, Granted
<1>3. CASE CreateUser(r) \/ ReadBack(r)
  BY <1>0, <1>1, <1>3, PassLocal DEF CreateUser, ReadBack, GotoWith, TypeOK
<1>4. CASE GetUser(r)
  <2>1. ASSUME NEW u \in users, GotoWith(r, "CreateSession", u.id)
        PROVE  LocalOK(r)'
    <3>1. pc'[r] = "CreateSession" /\ usr'[r] = u.id /\ input'[r] = input[r]
      BY <2>1 DEF GotoWith, TypeOK
    <3>2. Enrolled(u.id)'
      BY DEF Enrolled, HistoryOK
    <3> QED
      BY <1>0, <3>1, <3>2 DEF LocalOK, Granted, Enrolled
  <2> QED
    BY <1>1, <1>4, <2>1 DEF GetUser
<1>5. CASE CreateSession(r)
  <2>1. PICK t \in Tokens :
          \/ /\ granted' = granted \cup {Row(t, usr[r])}
             /\ pc' = [pc EXCEPT ![r] = "TouchLogin"]
             /\ input' = [input EXCEPT ![r].token = t]
          \/ Reply(r, LoginFailed(r))
    BY <1>5 DEF CreateSession, Row
  <2>2. CASE Reply(r, LoginFailed(r))
    BY <1>1, <2>2
  <2>3. CASE /\ granted' = granted \cup {Row(t, usr[r])}
             /\ pc' = [pc EXCEPT ![r] = "TouchLogin"]
             /\ input' = [input EXCEPT ![r].token = t]
    <3>1. Row(t, usr[r]) \in granted' /\ Row(t, usr[r]).token = t
      BY <2>3 DEF Row
    <3>2. pc'[r] = "TouchLogin" /\ input'[r].token = t
      BY <2>3 DEF TypeOK, Input
    <3>3. t # None
      BY AuthAssumption
    <3>4. \E s \in granted' : s.token = input'[r].token
      BY <3>1, <3>2
    <3> QED
      BY <3>2, <3>3, <3>4 DEF LocalOK, Granted
  <2> QED
    BY <2>1, <2>2, <2>3
<1>6. CASE TouchLogin(r) \/ DeleteSession(r) \/ TouchSession(r)
  BY <1>1, <1>6 DEF TouchLogin, DeleteSession, TouchSession
<1>7. CASE Guard(r) \/ GetSession(r) \/ GetUserByID(r)
  BY <1>0, <1>1, <1>7, PassLocal
  DEF Guard, GetSession, GetUserByID, Goto, GotoWith, TypeOK
<1>8. CASE StateComplete(r) \/ StateAdmin(r) \/ StateHosts(r)
  BY <1>0, <1>1, <1>8, PassLocal DEF StateComplete, StateAdmin, StateHosts, Note, TypeOK
<1> QED
  BY <1>2, <1>3, <1>4, <1>5, <1>6, <1>7, <1>8 DEF Handle

\* A step of one request leaves the locals of the others alone.
LEMMA OthersStay ==
  ASSUME TypeOK, NEW r \in Requests, Arrivals(r) \/ Handle(r),
         NEW q \in Requests, q # r
  PROVE  pc'[q] = pc[q] /\ input'[q] = input[q] /\ usr'[q] = usr[q]
<1>1. CASE Arrivals(r)
  BY <1>1 DEF Arrivals, ArriveSetup, ArriveLogin, LoginUndecodable, ArriveWithCookie,
              ArriveState, Arrive, Reply, TypeOK
<1>2. CASE CreateSession(r) \/ StateComplete(r) \/ StateAdmin(r)
  BY <1>2 DEF CreateSession, StateComplete, StateAdmin, Note, Reply, TypeOK
<1>3. ASSUME \/ \E s : Goto(r, s)
             \/ \E s, u : GotoWith(r, s, u)
             \/ \E a : Reply(r, a)
      PROVE  pc'[q] = pc[q] /\ input'[q] = input[q] /\ usr'[q] = usr[q]
  BY <1>3 DEF Goto, GotoWith, Reply, TypeOK
<1> QED
  BY <1>1, <1>2, <1>3
  DEF Handle, CheckFirstRun, CheckExisting, CreateUser, ReadBack, GetUser,
      TouchLogin, DeleteSession, Guard, GetSession, GetUserByID, TouchSession,
      StateHosts

\* Every step keeps what the requests rely on.
LEMMA LocalsStep ==
  ASSUME TypeOK, LocalsOK, HistoryOK, [Next]_vars
  PROVE  LocalsOK'
<1>0. enrolled \subseteq enrolled' /\ granted \subseteq granted'
  BY Durable, HistoryStep
<1> SUFFICES ASSUME NEW q \in Requests
             PROVE  LocalOK(q)'
  BY DEF LocalsOK
<1>1. LocalOK(q)
  BY DEF LocalsOK
<1>2. CASE \E r \in Requests : Arrivals(r) \/ Handle(r)
  <2>1. PICK r \in Requests : Arrivals(r) \/ Handle(r)
    BY <1>2
  <2>2. CASE q = r
    BY <1>0, <2>1, <2>2, ArriveLocal, HandleLocal
  <2>3. CASE q # r
    BY <1>0, <1>1, <2>1, <2>3, OthersStay, StillLocal
  <2> QED
    BY <2>2, <2>3
<1>3. CASE Crash
  BY <1>3 DEF Crash, Blank, LocalOK
<1>4. CASE UNCHANGED locals
  BY <1>0, <1>1, <1>4, StillLocal DEF locals
<1> QED
  BY <1>2, <1>3, <1>4
  DEF Next, DeleteUser, DeleteExpiredSessions, Tick, Break, vars, locals
----------------------------------------------------------------------------
(***************************************************************************)
(* The invariant and what follows from it.                                 *)
(***************************************************************************)
\* The invariant holds of the empty database.
LEMMA InitInv == Init => Inv
<1> SUFFICES ASSUME Init PROVE Inv
  OBVIOUS
<1>1. TypeOK
  BY BlankType DEF Init, TypeOK, Answers
<1>2. LocalsOK
  BY DEF Init, LocalsOK, LocalOK, Blank
<1> QED
  BY <1>1, <1>2
  DEF Inv, Init, HistoryOK, UniqueAccounts, AllAdmin, RevokedTokensStayDead,
      SessionsAccounted

\* The invariant is inductive.
LEMMA StepInv == Inv /\ [Next]_vars => Inv'
<1> SUFFICES ASSUME Inv, [Next]_vars PROVE Inv'
  OBVIOUS
<1>1. TypeOK /\ LocalsOK /\ HistoryOK
  BY DEF Inv
<1>2. DurableStep
  BY <1>1, Durable
<1>3. TypeOK' /\ LocalsOK'
  BY <1>1, TypeStep, LocalsStep
<1>4. HistoryOK' /\ UniqueAccounts' /\ AllAdmin' /\ RevokedTokensStayDead'
  BY <1>2, HistoryStep, UniqueStep, RevokedStep DEF Inv
<1>5. SessionsAccounted'
  BY <1>2, AccountedStep DEF Inv
<1> QED
  BY <1>3, <1>4, <1>5 DEF Inv

\* The invariant holds in every state of every run.
LEMMA Invariance == Spec => []Inv
<1> QED
  BY InitInv, StepInv, PTL DEF Spec

\* For every database, clock and interleaving of requests the tables, the
\* locals and the history have the shape the code gives them.
THEOREM TypeCorrect == Spec => []TypeOK
<1>1. Inv => TypeOK
  BY DEF Inv
<1> QED
  BY <1>1, Invariance, PTL

\* No two accounts ever share an id, a name or an address.
THEOREM AccountsAreUnique == Spec => []UniqueAccounts
<1>1. Inv => UniqueAccounts
  BY DEF Inv
<1> QED
  BY <1>1, Invariance, PTL

\* Once a logout has deleted a token's session no later step of any request
\* brings that session back.
THEOREM LogoutIsFinal == Spec => []RevokedTokensStayDead
<1>1. Inv => RevokedTokensStayDead
  BY DEF Inv
<1> QED
  BY <1>1, Invariance, PTL

\* The two tests of "is it set up" agree in every state: every account the code
\* creates is an administrator.
THEOREM SetupTestsAgree == Spec => []NoSetupLimbo
<1>1. Inv => NoSetupLimbo
  BY DEF Inv, AllAdmin, NoSetupLimbo, IsFirstRun, IsSetupComplete
<1> QED
  BY <1>1, Invariance, PTL

\* A token a client holds names a session that was committed and is only lost
\* by its own logout, by its age or with its account.
THEOREM ClientsKeepTheirSessions == Spec => []KnownTokensAccounted
<1>1. Inv => KnownTokensAccounted
  <2> SUFFICES ASSUME Inv, NEW t \in known
               PROVE  \E s \in granted :
                        /\ s.token = t
                        /\ \/ s \in sessions
                           \/ t \in revoked
                           \/ ~Live(s)
                           \/ s.user \notin {u.id : u \in users}
    BY DEF KnownTokensAccounted
  <2>1. PICK s \in granted : s.token = t
    BY DEF Inv, HistoryOK, Granted
  <2> QED
    BY <2>1 DEF Inv, SessionsAccounted
<1> QED
  BY <1>1, Invariance, PTL
----------------------------------------------------------------------------
(***************************************************************************)
(* The answer of /api/setup/state.                                         *)
(***************************************************************************)
\* What handleSetupState has found when it comes to its second query.
FirstAnswersOK ==
  \A r \in Requests : pc[r] = "CountUsers" => answer[r] \in {"complete", "incomplete"}

\* A client is told of a finished setup only if there is an account.
ToldOK == \A r \in Requests : answer[r] \in SaysComplete => users # {}

\* What a step does to the answer of request q.
Answered(q, a) == answer'[q] = a /\ pc'[q] # "CountUsers"
Kept(q) == answer'[q] = answer[q] /\ pc'[q] = pc[q]
Unsaid == {"none", "ok", "forbidden", "anonymous", "bad request", "db error",
           "setup required", "create failed", "auto-login failed"}
AnswerStep(q) ==
  \/ Kept(q)
  \/ Answered(q, answer[q])
  \/ \E a \in Unsaid : Answered(q, a)
  \/ Answered(q, "already complete") /\ ~IsFirstRun
  \/ /\ pc[q] = "IsSetupComplete" /\ pc'[q] = "CountUsers"
     /\ \/ answer'[q] = "complete" /\ IsSetupComplete
        \/ answer'[q] = "incomplete"
  \/ /\ pc[q] = "CountUsers"
     /\ \E a \in {~IsFirstRun} \cup (IF broken THEN {FALSE} ELSE {}) :
          Answered(q, AdminSet(answer[q], a))

\* Whatever a step does to an answer is one of these.
LEMMA AnswerSteps ==
  ASSUME TypeOK, [Next]_vars, NEW q \in Requests
  PROVE  AnswerStep(q)
<1>1. ASSUME NEW r \in Requests, Arrivals(r) \/ Handle(r), q # r
      PROVE  Kept(q)
  BY <1>1 DEF Arrivals, ArriveSetup, ArriveLogin, LoginUndecodable, ArriveWithCookie,
    ArriveState, Arrive, Handle, CheckFirstRun, CheckExisting, CreateUser, ReadBack,
    GetUser, CreateSession, TouchLogin, DeleteSession, Guard, GetSession, GetUserByID,
    TouchSession, StateComplete, StateAdmin, StateHosts, Note, Goto, GotoWith, Reply,
    TypeOK, Kept
<1>2. ASSUME NEW a \in Unsaid, Reply(q, a)
      PROVE  AnswerStep(q)
  BY <1>2 DEF Reply, TypeOK, Answered, AnswerStep
<1>3. CASE Arrivals(q)
  <2>1. CASE LoginUndecodable(q)
    BY <1>2, <2>1 DEF LoginUndecodable, Unsaid
  <2>2. CASE ~LoginUndecodable(q)
    <3>1. CASE ArriveSetup(q)
      <4>1. answer'[q] = "none" /\ pc'[q] = "IsFirstRun"
        BY <3>1 DEF ArriveSetup, Arrive, Entry, TypeOK
      <4> QED
        BY <4>1 DEF AnswerStep, Answered, Unsaid
    <3>2. CASE ArriveLogin(q)
      <4>1. answer'[q] = "none" /\ pc'[q] = "GetUser"
        BY <3>2 DEF ArriveLogin, Arrive, Entry, TypeOK
      <4> QED
        BY <4>1 DEF AnswerStep, Answered, Unsaid
    <3>3. CASE ArriveWithCookie(q)
      <4>1. answer'[q] = "none" /\ pc'[q] \in {"Guard", "GetSession", "DeleteSession"}
        BY <3>3 DEF ArriveWithCookie, Arrive, Entry, TypeOK
      <4> QED
        BY <4>1 DEF AnswerStep, Answered, Unsaid
    <3>4. CASE ArriveState(q)
      <4>1. answer'[q] = "none" /\ pc'[q] = "IsSetupComplete"
        BY <3>4 DEF ArriveState, Arrive, Entry, TypeOK
      <4> QED
        BY <4>1 DEF AnswerStep, Answered, Unsaid
    <3> QED
      BY <1>3, <2>2, <3>1, <3>2, <3>3, <3>4 DEF Arrivals
  <2> QED
    BY <2>1, <2>2
<1>4. ASSUME NEW t \in Statements \ {"CountUsers"}, NEW u,
             Goto(q, t) \/ GotoWith(q, t, u)
      PROVE  AnswerStep(q)
  BY <1>4 DEF Goto, GotoWith, TypeOK, AnswerStep, Answered
<1>5. CASE CheckFirstRun(q)
  <2>1. CASE Reply(q, "already complete") /\ ~IsFirstRun
    BY <2>1 DEF Reply, TypeOK, AnswerStep, Answered
  <2>2. CASE Reply(q, "db error") \/ Reply(q, "bad request")
    BY <1>2, <2>2 DEF Unsaid
  <2>3. CASE Goto(q, "CheckExisting")
    BY <1>4, <2>3 DEF Statements
  <2> QED
    BY <1>5, <2>1, <2>2, <2>3 DEF CheckFirstRun
<1>6. CASE CheckExisting(q) \/ CreateUser(q) \/ ReadBack(q)
  BY <1>2, <1>4, <1>6 DEF CheckExisting, CreateUser, ReadBack, Statements, Unsaid
<1>7. LoginFailed(q) \in Unsaid /\ Refused(q) \in Unsaid
  BY DEF LoginFailed, Refused, Unsaid
<1>8. CASE GetUser(q)
  BY <1>2, <1>4, <1>7, <1>8 DEF GetUser, Statements
<1>9. CASE CreateSession(q)
  <2>1. CASE Reply(q, LoginFailed(q))
    BY <1>2, <1>7, <2>1
  <2>2. CASE answer' = answer /\ pc' = [pc EXCEPT ![q] = "TouchLogin"]
    BY <2>2 DEF TypeOK, AnswerStep, Answered
  <2> QED
    BY <1>9, <2>1, <2>2 DEF CreateSession
<1>10. CASE TouchLogin(q) \/ DeleteSession(q) \/ TouchSession(q)
  BY <1>2, <1>10 DEF TouchLogin, DeleteSession, TouchSession, Unsaid
<1>11. CASE Guard(q) \/ GetSession(q) \/ GetUserByID(q)
  BY <1>2, <1>4, <1>7, <1>11 DEF Guard, GetSession, GetUserByID, Statements, Unsaid
<1>12. CASE StateComplete(q)
  <2>1. PICK c \in {IsSetupComplete} \cup {FALSE} :
          Note(q, IF c THEN "complete" ELSE "incomplete", "CountUsers")
    BY <1>12 DEF StateComplete
  <2>2. answer'[q] = (IF c THEN "complete" ELSE "incomplete") /\ pc'[q] = "CountUsers"
    BY <2>1 DEF Note, TypeOK
  <2>3. c => IsSetupComplete
    BY Zenon
  <2> QED
    BY <1>12, <2>2, <2>3 DEF StateComplete, AnswerStep
<1>13. CASE StateAdmin(q)
  <2>1. PICK a \in {~IsFirstRun} \cup (IF broken THEN {FALSE} ELSE {}) :
          Note(q, AdminSet(answer[q], a), "CountHosts")
    BY <1>13 DEF StateAdmin
  <2>2. Answered(q, AdminSet(answer[q], a))
    BY <2>1 DEF Note, TypeOK, Answered
  <2> QED
    BY <1>13, <2>2 DEF StateAdmin, AnswerStep
<1>14. CASE StateHosts(q)
  BY <1>14 DEF StateHosts, Reply, TypeOK, AnswerStep, Answered
<1>15. CASE Handle(q)
  BY <1>5, <1>6, <1>8, <1>9, <1>10, <1>11, <1>12, <1>13, <1>14, <1>15 DEF Handle
<1>16. CASE Crash
  BY <1>16 DEF Crash, AnswerStep, Answered, Unsaid
<1>17. CASE UNCHANGED locals
  BY <1>17 DEF locals, AnswerStep, Kept
<1> QED
  BY <1>1, <1>3, <1>15, <1>16, <1>17
  DEF Next, DeleteUser, DeleteExpiredSessions, Tick, Break, vars, locals, AnswerStep

\* Without DeleteUser no account goes.
LEMMA AccountsStay ==
  ASSUME ~StoreApi, [Next]_vars
  PROVE  users \subseteq users'
<1>1. ASSUME NEW r \in Requests, Arrivals(r) \/ Handle(r)
      PROVE  users \subseteq users'
  BY <1>1 DEF Arrivals, ArriveSetup, ArriveLogin, LoginUndecodable, ArriveWithCookie,
    ArriveState, Arrive, Handle, CheckFirstRun, CheckExisting, CreateUser, ReadBack,
    GetUser, CreateSession, TouchLogin, DeleteSession, Guard, GetSession, GetUserByID,
    TouchSession, StateComplete, StateAdmin, StateHosts, Note, ReadOnly, db
<1> QED
  BY <1>1 DEF Next, DeleteUser, DeleteExpiredSessions, Tick, Break, Crash, vars, db

\* Between the queries other requests may add accounts and none takes one.
LEMMA ToldStep ==
  ASSUME ~StoreApi, TypeOK, FirstAnswersOK, ToldOK, [Next]_vars
  PROVE  FirstAnswersOK' /\ ToldOK'
<1>1. users \subseteq users'
  BY AccountsStay
<1> SUFFICES ASSUME NEW q \in Requests
             PROVE  /\ pc'[q] = "CountUsers" => answer'[q] \in {"complete", "incomplete"}
                    /\ answer'[q] \in SaysComplete => users' # {}
  BY DEF FirstAnswersOK, ToldOK
<1>2. /\ pc[q] = "CountUsers" => answer[q] \in {"complete", "incomplete"}
      /\ answer[q] \in SaysComplete => users # {}
  BY DEF FirstAnswersOK, ToldOK
<1>3. AnswerStep(q)
  BY AnswerSteps
<1>4. CASE Kept(q) \/ Answered(q, answer[q])
  BY <1>1, <1>2, <1>4 DEF Kept, Answered
<1>5. CASE \E a \in Unsaid : Answered(q, a)
  BY <1>5 DEF Answered, Unsaid, SaysComplete
<1>6. CASE Answered(q, "already complete") /\ ~IsFirstRun
  BY <1>1, <1>6 DEF Answered, IsFirstRun
<1>7. CASE /\ pc'[q] = "CountUsers"
           /\ \/ answer'[q] = "complete" /\ IsSetupComplete
              \/ answer'[q] = "incomplete"
  BY <1>1, <1>7 DEF IsSetupComplete, SaysComplete
<1>8. CASE /\ pc[q] = "CountUsers"
           /\ \E a : Answered(q, AdminSet(answer[q], a))
  <2>1. PICK a : Answered(q, AdminSet(answer[q], a))
    BY <1>8
  <2>2. answer[q] \in {"complete", "incomplete"}
    BY <1>2, <1>8
  <2>3. CASE answer[q] = "complete"
    BY <1>1, <1>2, <2>1, <2>3 DEF Answered, SaysComplete
  <2>4. CASE answer[q] = "incomplete"
    BY <2>1, <2>4 DEF Answered, AdminSet, SaysComplete
  <2> QED
    BY <2>2, <2>3, <2>4
<1> QED
  BY <1>3, <1>4, <1>5, <1>6, <1>7, <1>8 DEF AnswerStep

\* While no account is deleted, a client that was told of a finished setup was
\* told what is so from then on, whatever requests run at the same time, and
\* /api/setup/state does not say complete without an administrator.
THEOREM SetupAnswersLast ==
  ASSUME ~StoreApi
  PROVE  Spec => SetupAnswersHold
<1> DEFINE Told == \A r \in Requests : answer[r] \in SaysComplete => IsSetupComplete /\ ~IsFirstRun
           Careful == \A r \in Requests : ~broken /\ pc[r] = "CountUsers"
                                           => answer'[r] # "complete, no admin"
<1>1. Init => FirstAnswersOK /\ ToldOK
  BY DEF Init, FirstAnswersOK, ToldOK, SaysComplete
<1>2. Inv /\ FirstAnswersOK /\ ToldOK /\ [Next]_vars => FirstAnswersOK' /\ ToldOK'
  BY ToldStep DEF Inv, vars, FirstAnswersOK, ToldOK, SaysComplete
<1>3. Inv /\ ToldOK => Told
  BY DEF Inv, AllAdmin, ToldOK, IsSetupComplete, IsFirstRun
<1>4. Inv /\ FirstAnswersOK /\ ToldOK /\ [Next]_vars => [Careful]_vars
  <2> SUFFICES ASSUME Inv, FirstAnswersOK, ToldOK, [Next]_vars,
                      NEW q \in Requests, ~broken, pc[q] = "CountUsers"
               PROVE  answer'[q] # "complete, no admin"
    OBVIOUS
  <2>1. /\ answer[q] \in {"complete", "incomplete"}
        /\ answer[q] = "complete" => ~IsFirstRun
    BY DEF FirstAnswersOK, ToldOK, SaysComplete, IsFirstRun
  <2>2. AnswerStep(q)
    BY AnswerSteps DEF Inv
  <2>3. CASE \E a \in {~IsFirstRun} : Answered(q, AdminSet(answer[q], a))
    BY <2>1, <2>3 DEF Answered, AdminSet
  <2>4. CASE answer'[q] = answer[q]
    BY <2>1, <2>4
  <2>5. CASE answer'[q] \in Unsaid \cup {"already complete"}
    BY <2>5 DEF Unsaid
  <2> QED
    BY <2>1, <2>2, <2>3, <2>4, <2>5 DEF AnswerStep, Kept, Answered
<1>5. Spec => [](Inv /\ FirstAnswersOK /\ ToldOK)
  BY <1>1, <1>2, Invariance, PTL DEF Spec
<1>6. Spec => []Told /\ [][Careful]_vars
  BY <1>3, <1>4, <1>5, PTL DEF Spec
<1> QED
  BY <1>6 DEF SetupAnswersHold
-----------------------------------------------------------------------------
(***************************************************************************)
(* The tables and handlers implement SessionAuthority.  Two facts are      *)
(* needed beyond the invariant: a token is granted in one session only, so *)
(* that it has one holder, and a request that has not yet found a session  *)
(* carries no account.                                                     *)
(***************************************************************************)
UniqueGrants == \A s, o \in granted : s.token = o.token => s = o

Anonymous(r) == pc[r] \in {"idle", "Guard", "GetSession"} => usr[r] = None

NobodyYet == \A r \in Requests : Anonymous(r)

MapInv == Inv /\ UniqueGrants /\ NobodyYet
----------------------------------------------------------------------------
(***************************************************************************)
(* The invariant of the mapping.                                           *)
(***************************************************************************)
\* CreateSession draws a token no session ever had.
LEMMA GrantsStep ==
  ASSUME UniqueGrants, DurableStep
  PROVE  UniqueGrants'
<1>1. CASE Grants
  <2>1. PICK t \in Tokens, id \in UserIds :
          ~Granted(t) /\ granted' = granted \cup {Row(t, id)}
    BY <1>1 DEF Grants
  <2>2. Row(t, id).token = t
    BY DEF Row
  <2> HIDE DEF Row
  <2> QED
    BY <2>1, <2>2 DEF UniqueGrants, Granted
<1>2. CASE granted' = granted
  BY <1>2 DEF UniqueGrants
<1> QED
  BY <1>1, <1>2
  DEF DurableStep, Informs, Keeps, Enrols, Revokes, Closes, Purges, Ages

\* A request comes in without an account, a handler forgets its account when it
\* answers, and the guard does not look for one.
LEMMA NobodyStep ==
  ASSUME TypeOK, NobodyYet, [Next]_vars
  PROVE  NobodyYet'
<1> SUFFICES ASSUME NEW q \in Requests
             PROVE  Anonymous(q)'
  BY DEF NobodyYet
<1>0. Anonymous(q)
  BY DEF NobodyYet
<1>1. ASSUME NEW r \in Requests, Arrivals(r) \/ Handle(r), q # r
      PROVE  Anonymous(q)'
  BY <1>0, <1>1, OthersStay DEF Anonymous
<1>2. CASE Arrivals(q)
  BY <1>0, <1>2 DEF Arrivals, ArriveSetup, ArriveLogin, LoginUndecodable, ArriveWithCookie,
                    ArriveState, Arrive, Reply, Anonymous, TypeOK
<1>3. CASE Handle(q)
  <2>1. ASSUME NEW a, Reply(q, a) PROVE Anonymous(q)'
    BY <2>1 DEF Reply, Anonymous, TypeOK
  <2>2. CASE Guard(q)
    BY <1>0, <2>1, <2>2 DEF Guard, Goto, Anonymous, TypeOK
  <2>3. ASSUME pc'[q] \notin {"idle", "Guard", "GetSession"}
        PROVE  Anonymous(q)'
    BY <2>3 DEF Anonymous
  <2>4. CASE CheckFirstRun(q) \/ CheckExisting(q) \/ CreateUser(q) \/ ReadBack(q)
    BY <2>1, <2>3, <2>4
    DEF CheckFirstRun, CheckExisting, CreateUser, ReadBack, Goto, GotoWith, TypeOK
  <2>5. CASE GetUser(q) \/ CreateSession(q)
    BY <2>1, <2>3, <2>5 DEF GetUser, CreateSession, GotoWith, TypeOK
  <2>6. CASE TouchLogin(q) \/ DeleteSession(q) \/ TouchSession(q) \/ StateHosts(q)
    BY <2>1, <2>6 DEF TouchLogin, DeleteSession, TouchSession, StateHosts
  <2>7. CASE GetSession(q) \/ GetUserByID(q)
    BY <2>1, <2>3, <2>7 DEF GetSession, GetUserByID, Goto, GotoWith, TypeOK
  <2>8. CASE StateComplete(q) \/ StateAdmin(q)
    BY <2>3, <2>8 DEF StateComplete, StateAdmin, Note, TypeOK
  <2> QED
    BY <1>3, <2>2, <2>4, <2>5, <2>6, <2>7, <2>8 DEF Handle
<1>4. CASE Crash
  BY <1>4 DEF Crash, Anonymous
<1>5. CASE UNCHANGED locals
  BY <1>0, <1>5 DEF locals, Anonymous
<1> QED
  BY <1>1, <1>2, <1>3, <1>4, <1>5
  DEF Next, DeleteUser, DeleteExpiredSessions, Tick, Break, vars, locals

\* The invariant of the mapping holds in every state of every run.
LEMMA MapInvariance == Spec => []MapInv
<1>1. Init => MapInv
  BY InitInv DEF Init, MapInv, UniqueGrants, NobodyYet, Anonymous
<1>2. MapInv /\ [Next]_vars => MapInv'
  <2> SUFFICES ASSUME MapInv, [Next]_vars PROVE MapInv'
    OBVIOUS
  <2>1. TypeOK /\ LocalsOK
    BY DEF MapInv, Inv
  <2> QED
    BY <2>1, StepInv, Durable, GrantsStep, NobodyStep DEF MapInv
<1> QED
  BY <1>1, <1>2, PTL DEF Spec
----------------------------------------------------------------------------
(***************************************************************************)
(* What the steps of the tables are to the tokens, their holders and the   *)
(* accounts of the abstract authority.                                     *)
(***************************************************************************)
AbsToken    == [t \in Tokens |-> TokenState(t)]
AbsHolder   == [t \in Tokens |-> HolderOf(t)]
AbsAccounts == {u.id : u \in users}
AbsClaim    == [r \in Requests |-> ClaimOf(r)]

TokensStay == UNCHANGED <<AbsToken, AbsHolder, AbsAccounts>>

\* The holder of a token is the account of the one session granted for it.
LEMMA HolderIs ==
  ASSUME UniqueGrants, NEW s \in granted
  PROVE  HolderOf(s.token) = s.user
<1>1. \A o \in granted : o.token = s.token => o = s
  BY DEF UniqueGrants
<1>2. (CHOOSE o \in granted : o.token = s.token) = s
  BY <1>1
<1> QED
  BY <1>2 DEF HolderOf

\* A token keeps its holder for as long as anybody remembers.
LEMMA HoldersStay ==
  ASSUME UniqueGrants, UniqueGrants', granted \subseteq granted',
         NEW t \in Tokens, Granted(t) \/ ~Granted(t)'
  PROVE  HolderOf(t)' = HolderOf(t)
<1>1. CASE Granted(t)
  <2>1. PICK s \in granted : s.token = t
    BY <1>1 DEF Granted
  <2>2. HolderOf(t) = s.user
    BY <2>1, HolderIs
  <2>3. s \in granted' /\ \A o \in granted' : o.token = t => o = s
    BY <2>1 DEF UniqueGrants
  <2>4. (CHOOSE o \in granted' : o.token = t) = s
    BY <2>1, <2>3
  <2>5. HolderOf(t)' = s.user
    BY <2>1, <2>3, <2>4 DEF HolderOf
  <2> QED
    BY <2>2, <2>5
<1>2. CASE ~Granted(t) /\ ~Granted(t)'
  BY <1>2 DEF HolderOf, Granted
<1> QED
  BY <1>1, <1>2 DEF Granted

\* While the sessions, the clock and the grants stay, so do the tokens.
LEMMA SameTokens ==
  ASSUME UNCHANGED <<sessions, clock, granted>>
  PROVE  AbsToken' = AbsToken /\ AbsHolder' = AbsHolder
<1>1. \A t \in Tokens : TokenState(t)' = TokenState(t) /\ HolderOf(t)' = HolderOf(t)
  BY DEF TokenState, HolderOf
<1> QED
  BY <1>1 DEF AbsToken, AbsHolder

\* CreateUser enrols an account the authority did not know.
LEMMA EnrolsMaps ==
  ASSUME MapInv, Enrols, AbsClaim' = AbsClaim
  PROVE  Authority!Next
<1>1. PICK id \in UserIds, i \in Input :
        /\ ~Enrolled(id)
        /\ users' = users \cup {NewUser(id, i)}
        /\ UNCHANGED <<sessions, clock, granted>>
  BY DEF Enrols
<1>2. id \notin AbsAccounts
  BY <1>1 DEF AbsAccounts, Enrolled, MapInv, Inv, HistoryOK
<1>3. NewUser(id, i).id = id
  BY DEF NewUser
<1>4. AbsAccounts' = AbsAccounts \cup {id}
  BY <1>1, <1>3 DEF AbsAccounts
<1>5. AbsToken' = AbsToken /\ AbsHolder' = AbsHolder
  BY <1>1, SameTokens
<1>6. Authority!Enrol(id)
  BY <1>2, <1>4, <1>5
  DEF Authority!Enrol, AbsToken, AbsHolder, AbsAccounts, AbsClaim
<1> QED
  BY <1>6 DEF Authority!Next

\* CreateSession issues a fresh token: Duration is positive, so it is live.
LEMMA GrantsMaps ==
  ASSUME MapInv, MapInv', Grants, AbsClaim' = AbsClaim
  PROVE  Authority!Next
<1>1. PICK t \in Tokens, id \in UserIds :
        /\ ~Granted(t)
        /\ sessions' = sessions \cup {Row(t, id)}
        /\ granted' = granted \cup {Row(t, id)}
        /\ UNCHANGED <<users, clock>>
  BY DEF Grants
<1>2. /\ Row(t, id).token = t /\ Row(t, id).user = id
      /\ Row(t, id).expires > clock
  BY AuthAssumption DEF Row, MapInv, Inv, TypeOK
<1>3. sessions \subseteq granted
  BY DEF MapInv, Inv, HistoryOK
<1> DEFINE row == Row(t, id)
<1> HIDE DEF row
<1>4. /\ sessions' = sessions \cup {row} /\ granted' = granted \cup {row}
      /\ row.token = t /\ row.user = id /\ row.expires > clock
  BY <1>1, <1>2 DEF row
<1>5. TokenState(t) = "fresh"
  BY <1>1, <1>3 DEF TokenState, Granted
<1>6. TokenState(t)' = "live"
  BY <1>1, <1>4 DEF TokenState
<1>7. \A q \in Tokens \ {t} : TokenState(q)' = TokenState(q)
  BY <1>1, <1>4 DEF TokenState
<1>8. AbsToken' = [AbsToken EXCEPT ![t] = "live"] /\ AbsToken[t] = "fresh"
  BY <1>5, <1>6, <1>7 DEF AbsToken
<1>9. HolderOf(t)' = id
  <2>1. row \in granted' /\ \A o \in granted' : o.token = t => o = row
    BY <1>1, <1>4 DEF Granted
  <2>2. (CHOOSE o \in granted' : o.token = t) = row
    BY <1>4, <2>1
  <2> QED
    BY <1>4, <2>1, <2>2 DEF HolderOf
<1>10. \A q \in Tokens \ {t} : HolderOf(q)' = HolderOf(q)
  <2> SUFFICES ASSUME NEW q \in Tokens \ {t}
               PROVE  HolderOf(q)' = HolderOf(q)
    OBVIOUS
  <2>1. Granted(q) \/ ~Granted(q)'
    BY <1>4 DEF Granted
  <2> QED
    BY <1>4, <2>1, HoldersStay DEF MapInv
<1>11. AbsHolder' = [AbsHolder EXCEPT ![t] = id]
  BY <1>9, <1>10 DEF AbsHolder
<1>12. AbsAccounts' = AbsAccounts
  BY <1>1 DEF AbsAccounts
<1>13. Authority!Issue(t, id)
  BY <1>8, <1>11, <1>12
  DEF Authority!Issue, AbsToken, AbsHolder, AbsAccounts, AbsClaim
<1> QED
  BY <1>13 DEF Authority!Next

OnlyRetires ==
  \A t \in Tokens : \/ TokenState(t)' = TokenState(t)
                    \/ TokenState(t) = "live" /\ TokenState(t)' = "dead"

\* What retires tokens and touches nothing else is a step of the authority.
LEMMA RetiresMaps ==
  ASSUME OnlyRetires,
         AbsHolder' = AbsHolder, AbsAccounts' = AbsAccounts, AbsClaim' = AbsClaim
  PROVE  Authority!Next
<1> DEFINE S == {t \in Tokens : TokenState(t)' # TokenState(t)}
<1>1. \A t \in S : AbsToken[t] = "live"
  BY DEF AbsToken, OnlyRetires
<1>2. AbsToken' = [t \in Tokens |-> IF t \in S THEN "dead" ELSE AbsToken[t]]
  BY DEF AbsToken, OnlyRetires
<1>3. S \in SUBSET Tokens
  OBVIOUS
<1> HIDE DEF S
<1>4. Authority!Retire(S)
  BY <1>1, <1>2 DEF Authority!Retire, Authority!Retired, AbsToken, AbsHolder,
                    AbsAccounts, AbsClaim
<1> QED
  BY <1>3, <1>4 DEF Authority!Next

\* A logout retires its token if the token is still live.
LEMMA RevokesMaps ==
  ASSUME MapInv, Revokes, AbsClaim' = AbsClaim
  PROVE  Authority!Next
<1>1. PICK t \in Tokens :
        /\ Granted(t)
        /\ sessions' = sessions \ Deleted(t)
        /\ UNCHANGED <<users, clock, granted>>
  BY DEF Revokes
<1>2. TokenState(t) \in {"live", "dead"} /\ TokenState(t)' = "dead"
  BY <1>1 DEF TokenState, Granted, Deleted
<1>3. \A q \in Tokens \ {t} : TokenState(q)' = TokenState(q)
  BY <1>1 DEF TokenState, Deleted
<1>4. AbsHolder' = AbsHolder /\ AbsAccounts' = AbsAccounts
  BY <1>1 DEF AbsHolder, AbsAccounts, HolderOf
<1>5. OnlyRetires
  BY <1>2, <1>3 DEF OnlyRetires
<1> QED
  BY <1>4, <1>5, RetiresMaps

\* Time retires the tokens that expire at this tick, and revives none.
LEMMA AgesMaps ==
  ASSUME MapInv, Ages, AbsClaim' = AbsClaim
  PROVE  Authority!Next
<1>1. AbsHolder' = AbsHolder /\ AbsAccounts' = AbsAccounts
  BY DEF Ages, AbsHolder, AbsAccounts, HolderOf
<1>2. ASSUME NEW t \in Tokens, TokenState(t)' # TokenState(t)
      PROVE  TokenState(t) = "live" /\ TokenState(t)' = "dead"
  <2>1. clock \in Nat /\ \A s \in sessions : s.expires \in Nat /\ s \in granted
    BY DEF MapInv, Inv, TypeOK, Session, HistoryOK
  <2>2. clock' = clock + 1 /\ sessions' = sessions /\ granted' = granted
    BY DEF Ages
  <2>3. \A s \in sessions : s.expires > clock' => s.expires > clock
    BY <2>1, <2>2
  <2> QED
    BY <1>2, <2>1, <2>2, <2>3 DEF TokenState
<1>3. OnlyRetires
  BY <1>2 DEF OnlyRetires
<1> QED
  BY <1>1, <1>3, RetiresMaps

\* A purge takes sessions that had expired: their tokens were dead before.
LEMMA PurgesMap ==
  ASSUME MapInv, Purges
  PROVE  TokensStay
<1>1. \A s \in sessions : s \in sessions' <=> s.expires > clock
  BY DEF Purges, Purged, Live
<1>2. UNCHANGED <<users, clock, granted>> /\ sessions' \subseteq sessions
  BY DEF Purges
<1>3. \A t \in Tokens : TokenState(t)' = TokenState(t) /\ HolderOf(t)' = HolderOf(t)
  BY <1>1, <1>2 DEF TokenState, HolderOf
<1> QED
  BY <1>2, <1>3 DEF TokensStay, AbsToken, AbsHolder, AbsAccounts

\* Deleting an account takes it off the authority's list, and with foreign keys
\* enforced it retires exactly the live tokens the account holds.
LEMMA ClosesMaps ==
  ASSUME MapInv, Closes, AbsClaim' = AbsClaim
  PROVE  Authority!Next
<1>1. PICK u \in users : /\ users' = users \ {u}
                         /\ sessions' = Cascaded(u)
                         /\ UNCHANGED <<clock, granted>>
  BY DEF Closes
<1>2. u.id \in UserIds /\ u.id \in AbsAccounts
  BY DEF MapInv, Inv, TypeOK, User, AbsAccounts
<1>3. AbsAccounts' = AbsAccounts \ {u.id}
  BY <1>1 DEF AbsAccounts, MapInv, Inv, UniqueAccounts
<1>4. AbsHolder' = AbsHolder
  BY <1>1 DEF AbsHolder, HolderOf
<1> DEFINE S == {t \in Tokens : AbsToken[t] = "live" /\ AbsHolder[t] = u.id}
<1> HIDE DEF S
<1>5. CASE ForeignKeys
  <2>1. \A s \in sessions : s \in sessions' <=> s.user # u.id
    BY <1>1, <1>5 DEF Cascaded
  <2>2. \A s \in sessions : HolderOf(s.token) = s.user
    BY HolderIs DEF MapInv, Inv, HistoryOK
  <2>3. sessions' \subseteq sessions
    BY <1>1 DEF Cascaded
  <2>4. ASSUME NEW t \in Tokens
        PROVE  TokenState(t)' = IF t \in S THEN "dead" ELSE TokenState(t)
    <3>1. CASE t \in S
      <4>1. TokenState(t) = "live" /\ HolderOf(t) = u.id
        BY <3>1 DEF S, AbsToken, AbsHolder
      <4>2. \E s \in granted : s.token = t
        BY <4>1 DEF TokenState, MapInv, Inv, HistoryOK
      <4>3. \A s \in sessions' : s.token # t
        BY <2>1, <2>2, <2>3, <4>1
      <4> QED
        BY <1>1, <3>1, <4>2, <4>3 DEF TokenState
    <3>2. CASE t \notin S
      <4>1. TokenState(t) # "live" \/ HolderOf(t) # u.id
        BY <3>2 DEF S, AbsToken, AbsHolder
      <4>2. CASE TokenState(t) = "live"
        <5>1. PICK s \in sessions : s.token = t /\ s.expires > clock
          BY <4>2 DEF TokenState
        <5>2. s \in sessions'
          BY <2>1, <2>2, <4>1, <4>2, <5>1
        <5>3. TokenState(t)' = "live"
          BY <1>1, <5>1, <5>2 DEF TokenState
        <5> QED
          BY <3>2, <4>2, <5>3
      <4>3. CASE TokenState(t) # "live"
        <5>1. ~\E s \in sessions : s.token = t /\ s.expires > clock
          BY <4>3 DEF TokenState
        <5>2. ~\E s \in sessions' : s.token = t /\ s.expires > clock'
          BY <1>1, <2>3, <5>1
        <5> QED
          BY <1>1, <3>2, <5>1, <5>2 DEF TokenState
      <4> QED
        BY <4>2, <4>3
    <3> QED
      BY <3>1, <3>2
  <2>5. AbsToken' = [t \in Tokens |-> IF t \in S THEN "dead" ELSE AbsToken[t]]
    BY <2>4 DEF AbsToken
  <2>6. Authority!Remove(u.id)
    BY <1>2, <1>3, <1>4, <2>5
    DEF Authority!Remove, Authority!Retired, S, AbsToken, AbsHolder,
        AbsAccounts, AbsClaim
  <2> QED
    BY <1>2, <2>6 DEF Authority!Next
<1>6. CASE ~ForeignKeys
  <2>1. AbsToken' = AbsToken
    BY <1>1, <1>6, SameTokens DEF Cascaded
  <2>2. AbsToken' = [t \in Tokens |-> IF t \in {} THEN "dead" ELSE AbsToken[t]]
    BY <2>1 DEF AbsToken
  <2>3. Authority!Remove(u.id)
    BY <1>2, <1>3, <1>4, <2>2
    DEF Authority!Remove, Authority!Retired, AbsToken, AbsHolder,
        AbsAccounts, AbsClaim
  <2> QED
    BY <1>2, <2>3 DEF Authority!Next
<1> QED
  BY <1>5, <1>6

\* A step of the tables that moves no claim is a step of the authority or
\* leaves it alone.
LEMMA DurableMaps ==
  ASSUME MapInv, MapInv', DurableStep, AbsClaim' = AbsClaim
  PROVE  Authority!Next \/ TokensStay
<1>1. CASE Informs
  BY <1>1, SameTokens DEF Informs, Keeps, TokensStay, AbsAccounts
<1> QED
  BY <1>1, EnrolsMaps, GrantsMaps, RevokesMaps, ClosesMaps, PurgesMap, AgesMaps
  DEF DurableStep
----------------------------------------------------------------------------
(***************************************************************************)
(* What the steps of a request are to its claim.                           *)
(***************************************************************************)
Checking == {"Guard", "GetSession", "GetUserByID", "TouchSession"}

\* Only the statements of an authentication make a claim.
LEMMA Unclaimed ==
  ASSUME NEW r \in Requests
  PROVE  /\ pc[r] \notin Checking => ClaimOf(r) = Authority!NoClaim
         /\ pc'[r] \notin Checking => ClaimOf(r)' = Authority!NoClaim
BY DEF Checking, ClaimOf, Stage, Authority!NoClaim, Authority!Claim

OthersKeepClaims(r) == \A q \in Requests \ {r} : ClaimOf(q)' = ClaimOf(q)

\* A request moves its own claim and nobody else's.
LEMMA ClaimsElsewhere ==
  ASSUME TypeOK, NEW r \in Requests, Arrivals(r) \/ Handle(r)
  PROVE  OthersKeepClaims(r)
<1> SUFFICES ASSUME NEW q \in Requests, q # r
             PROVE  ClaimOf(q)' = ClaimOf(q)
  BY DEF OthersKeepClaims
<1>1. pc'[q] = pc[q] /\ input'[q] = input[q] /\ usr'[q] = usr[q]
  BY OthersStay
<1> QED
  BY <1>1 DEF ClaimOf, Stage

\* A request outside an authentication, before and after a step, moves no claim.
LEMMA ClaimStays ==
  ASSUME TypeOK, NEW r \in Requests, Arrivals(r) \/ Handle(r),
         \/ pc[r] \notin Checking /\ pc'[r] \notin Checking
         \/ ClaimOf(r)' = ClaimOf(r)
  PROVE  AbsClaim' = AbsClaim
<1>1. ClaimOf(r)' = ClaimOf(r)
  BY Unclaimed
<1>2. \A q \in Requests : ClaimOf(q)' = ClaimOf(q)
  BY <1>1, ClaimsElsewhere DEF OthersKeepClaims
<1> QED
  BY <1>2 DEF AbsClaim

\* A request that is answered drops its claim, if it had one.
LEMMA AnswerMaps ==
  ASSUME TypeOK, TokensStay, NEW r \in Requests, Arrivals(r) \/ Handle(r),
         NEW a, Reply(r, a)
  PROVE  Authority!Next
<1>1. pc'[r] \notin Checking
  BY DEF Reply, TypeOK, Checking
<1>2. AbsClaim' = [q \in Requests |-> IF q \in {r} THEN Authority!NoClaim
                                                  ELSE AbsClaim[q]]
  BY <1>1, Unclaimed, ClaimsElsewhere DEF OthersKeepClaims, AbsClaim
<1>3. Authority!Drop({r})
  BY <1>2 DEF Authority!Drop, TokensStay, AbsToken, AbsHolder, AbsAccounts, AbsClaim
<1> QED
  BY <1>3 DEF Authority!Next

\* A request for a protected route or for /api/auth/me asks with its token;
\* the others make no claim.
LEMMA ArrivalMaps ==
  ASSUME MapInv, TokensStay, NEW r \in Requests, Arrivals(r)
  PROVE  Authority!Next \/ AbsClaim' = AbsClaim
<1>0. TypeOK /\ pc[r] = "idle"
  BY DEF MapInv, Inv, Arrivals, ArriveSetup, ArriveLogin, LoginUndecodable, ArriveWithCookie,
         ArriveState, Arrive
<1>1. pc[r] \notin Checking
  BY <1>0 DEF Checking
<1>2. CASE pc'[r] \notin Checking
  BY <1>0, <1>1, <1>2, ClaimStays
<1>3. CASE pc'[r] \in Checking
  <2>1. ArriveWithCookie(r)
    BY <1>0, <1>3 DEF Arrivals, ArriveSetup, ArriveLogin, LoginUndecodable, ArriveState, Arrive,
                      Reply, Blank, Entry, Checking, TypeOK
  <2>2. PICK k \in {"logout", "api", "me"}, t \in known \cup {None} :
          Arrive(r, [Blank EXCEPT !.kind = k, !.token = t])
    BY <2>1 DEF ArriveWithCookie
  <2>3. t \in Tokens \cup {None}
    BY <1>0 DEF TypeOK
  <2>4. /\ input'[r].token = t
        /\ pc'[r] \in {"Guard", "GetSession"}
        /\ usr'[r] = None
    BY <1>0, <1>3, <2>2 DEF Arrive, Blank, Entry, Checking, TypeOK, MapInv,
                            NobodyYet, Anonymous
  <2>5. ClaimOf(r)' = Authority!Claim("asked", t, None)
    BY <2>4 DEF ClaimOf, Stage, Authority!Claim
  <2>6. AbsClaim[r].stage = "none"
    BY <1>1, Unclaimed DEF AbsClaim, Authority!NoClaim, Authority!Claim
  <2>7. AbsClaim' = [AbsClaim EXCEPT
                       ![r] = Authority!Claim("asked", t, None)]
    BY <1>0, <2>5, ClaimsElsewhere DEF AbsClaim, OthersKeepClaims, Authority!Claim
  <2>8. Authority!Ask(r, t)
    BY <2>6, <2>7 DEF Authority!Ask, TokensStay, AbsToken, AbsHolder,
                      AbsAccounts, AbsClaim
  <2> QED
    BY <2>3, <2>8 DEF Authority!Next
<1> QED
  BY <1>2, <1>3

\* GetSession observes a session of the token that is live at that statement,
\* and the account it takes from the row is the one the token was issued to.
LEMMA ObserveMaps ==
  ASSUME MapInv, TokensStay, NEW r \in Requests, GetSession(r)
  PROVE  Authority!Next
<1>0. TypeOK /\ Handle(r)
  BY DEF MapInv, Inv, Handle
<1>1. CASE Reply(r, Refused(r))
  BY <1>0, <1>1, AnswerMaps
<1>2. CASE \E s \in {o \in sessions : o.token = input[r].token /\ Live(o)} :
             GotoWith(r, "GetUserByID", s.user)
  <2>1. PICK s \in sessions : /\ s.token = input[r].token /\ Live(s)
                              /\ GotoWith(r, "GetUserByID", s.user)
    BY <1>2
  <2>2. s.token \in Tokens
    BY <1>0 DEF TypeOK, Session
  <2>3. AbsToken[s.token] = "live"
    BY <2>1, <2>2 DEF AbsToken, TokenState, Live
  <2>4. AbsHolder[s.token] = s.user
    BY <2>2, HolderIs DEF AbsHolder, MapInv, Inv, HistoryOK
  <2>5. ClaimOf(r) = Authority!Claim("asked", s.token, None)
    BY <2>1 DEF GetSession, ClaimOf, Stage, Authority!Claim, MapInv, NobodyYet, Anonymous
  <2>6. ClaimOf(r)' = Authority!Claim("seen", s.token, s.user)
    BY <1>0, <2>1 DEF GotoWith, ClaimOf, Stage, Authority!Claim, TypeOK
  <2>7. /\ AbsClaim[r].stage = "asked" /\ AbsClaim[r].token = s.token
        /\ AbsClaim' = [AbsClaim EXCEPT
                         ![r] = Authority!Claim("seen", s.token, s.user)]
    <3>1. AbsClaim[r].stage = "asked" /\ AbsClaim[r].token = s.token
      BY <2>5 DEF AbsClaim, Authority!Claim
    <3>2. OthersKeepClaims(r)
      BY <1>0, ClaimsElsewhere
    <3> QED
      BY <2>6, <3>1, <3>2 DEF AbsClaim, OthersKeepClaims
  <2>8. Authority!Observe(r)
    BY <2>2, <2>3, <2>4, <2>7 DEF Authority!Observe, TokensStay, AbsToken,
                                  AbsHolder, AbsAccounts, AbsClaim
  <2> QED
    BY <2>8 DEF Authority!Next
<1> QED
  BY <1>1, <1>2 DEF GetSession

\* GetUserByID allows the request if the account still exists.
LEMMA AllowMaps ==
  ASSUME MapInv, TokensStay, NEW r \in Requests, GetUserByID(r)
  PROVE  Authority!Next
<1>0. TypeOK /\ Handle(r)
  BY DEF MapInv, Inv, Handle
<1>1. CASE Reply(r, Refused(r))
  BY <1>0, <1>1, AnswerMaps
<1>2. CASE usr[r] \in AbsAccounts /\ Goto(r, "TouchSession")
  <2>1. ClaimOf(r) = Authority!Claim("seen", input[r].token, usr[r])
    BY DEF GetUserByID, ClaimOf, Stage, Authority!Claim
  <2>2. ClaimOf(r)' = Authority!Claim("allowed", input[r].token, usr[r])
    BY <1>0, <1>2 DEF Goto, ClaimOf, Stage, Authority!Claim, TypeOK
  <2>3. /\ AbsClaim[r].stage = "seen" /\ AbsClaim[r].user \in AbsAccounts
        /\ AbsClaim' = [AbsClaim EXCEPT
                         ![r] = Authority!Claim("allowed", input[r].token, usr[r])]
        /\ AbsClaim[r].token = input[r].token /\ AbsClaim[r].user = usr[r]
    <3>1. /\ AbsClaim[r].stage = "seen"
          /\ AbsClaim[r].token = input[r].token /\ AbsClaim[r].user = usr[r]
      BY <2>1 DEF AbsClaim, Authority!Claim
    <3>2. OthersKeepClaims(r)
      BY <1>0, ClaimsElsewhere
    <3> QED
      BY <1>2, <2>2, <3>1, <3>2 DEF AbsClaim, OthersKeepClaims
  <2>4. Authority!Allow(r)
    BY <2>3 DEF Authority!Allow, TokensStay, AbsToken, AbsHolder, AbsAccounts,
                AbsClaim
  <2> QED
    BY <2>4 DEF Authority!Next
<1> QED
  BY <1>1, <1>2 DEF GetUserByID, AbsAccounts

\* A statement that changes no table changes nothing of the tokens.
LEMMA ReadOnlyStays ==
  ASSUME ReadOnly
  PROVE  TokensStay
BY SameTokens DEF ReadOnly, db, history, world, TokensStay, AbsAccounts

\* Every statement of a handler is a step of the authority or leaves it alone.
LEMMA HandleMaps ==
  ASSUME MapInv, MapInv', DurableStep, NEW r \in Requests, Handle(r)
  PROVE  Authority!Next \/ (TokensStay /\ AbsClaim' = AbsClaim)
<1>0. TypeOK
  BY DEF MapInv, Inv
<1>1. ASSUME AbsClaim' = AbsClaim
      PROVE  Authority!Next \/ (TokensStay /\ AbsClaim' = AbsClaim)
  BY <1>1, DurableMaps
<1>2. ASSUME pc[r] \notin Checking, pc'[r] \notin Checking
      PROVE  AbsClaim' = AbsClaim
  BY <1>0, <1>2, ClaimStays
<1>3. ASSUME NEW a, Reply(r, a)
      PROVE  pc'[r] \notin Checking
  BY <1>0, <1>3 DEF Reply, Checking, TypeOK
<1>4. CASE CheckFirstRun(r) \/ CheckExisting(r) \/ CreateUser(r) \/ ReadBack(r)
  <2>1. pc[r] \notin Checking /\ pc'[r] \notin Checking
    BY <1>0, <1>3, <1>4 DEF CheckFirstRun, CheckExisting, CreateUser, ReadBack,
                            Goto, GotoWith, Checking, TypeOK
  <2> QED
    BY <1>1, <1>2, <2>1
<1>5. CASE GetUser(r) \/ CreateSession(r)
  <2>1. pc[r] \notin Checking /\ pc'[r] \notin Checking
    BY <1>0, <1>3, <1>5 DEF GetUser, CreateSession, GotoWith, Checking, TypeOK
  <2> QED
    BY <1>1, <1>2, <2>1
<1>6. CASE TouchLogin(r) \/ DeleteSession(r)
  <2>1. pc[r] \notin Checking /\ pc'[r] \notin Checking
    BY <1>3, <1>6 DEF TouchLogin, DeleteSession, Checking
  <2> QED
    BY <1>1, <1>2, <2>1
<1>7. CASE StateComplete(r) \/ StateAdmin(r) \/ StateHosts(r)
  <2>1. pc[r] \notin Checking
    BY <1>7 DEF StateComplete, StateAdmin, StateHosts, Checking
  <2>2. pc'[r] \notin Checking
    BY <1>0, <1>3, <1>7 DEF StateComplete, StateAdmin, StateHosts, Note, Checking, TypeOK
  <2> QED
    BY <1>1, <1>2, <2>1, <2>2
<1>8. CASE Guard(r)
  <2>1. CASE Reply(r, "setup required")
    BY <1>0, <1>8, <2>1, AnswerMaps, ReadOnlyStays DEF Guard
  <2>2. CASE Goto(r, "GetSession")
    <3>1. ClaimOf(r)' = ClaimOf(r)
      BY <1>0, <1>8, <2>2 DEF Guard, Goto, ClaimOf, Stage, TypeOK
    <3> QED
      BY <1>0, <1>1, <3>1, ClaimStays
  <2> QED
    BY <1>8, <2>1, <2>2 DEF Guard
<1>9. CASE GetSession(r)
  BY <1>9, ObserveMaps, ReadOnlyStays DEF GetSession
<1>10. CASE GetUserByID(r)
  BY <1>10, AllowMaps, ReadOnlyStays DEF GetUserByID
<1>11. CASE TouchSession(r)
  BY <1>0, <1>11, AnswerMaps, ReadOnlyStays DEF TouchSession
<1> QED
  BY <1>4, <1>5, <1>6, <1>7, <1>8, <1>9, <1>10, <1>11 DEF Handle

\* Every step of the system is a step of the authority or leaves it alone.
LEMMA StepMaps ==
  ASSUME MapInv, MapInv', [Next]_vars
  PROVE  [Authority!Next]_Authority!vars
<1>0. TypeOK /\ LocalsOK
  BY DEF MapInv, Inv
<1>1. DurableStep
  BY <1>0, Durable
<1>2. ASSUME TokensStay, AbsClaim' = AbsClaim
      PROVE  UNCHANGED Authority!vars
  BY <1>2 DEF TokensStay, Authority!vars, AbsToken, AbsHolder, AbsAccounts, AbsClaim
<1>3. ASSUME NEW r \in Requests, Arrivals(r)
      PROVE  [Authority!Next]_Authority!vars
  <2>1. TokensStay
    BY <1>3, ReadOnlyStays DEF Arrivals, ArriveSetup, ArriveLogin, LoginUndecodable,
                               ArriveWithCookie, ArriveState, Arrive
  <2> QED
    BY <1>2, <1>3, <2>1, ArrivalMaps
<1>4. ASSUME NEW r \in Requests, Handle(r)
      PROVE  [Authority!Next]_Authority!vars
  BY <1>1, <1>2, <1>4, HandleMaps
<1>5. CASE Crash
  <2>1. TokensStay
    BY <1>5, SameTokens DEF Crash, db, world, history, TokensStay, AbsAccounts
  <2>2. \A q \in Requests : pc'[q] \notin Checking
    BY <1>5 DEF Crash, Checking
  <2>3. AbsClaim' = [q \in Requests |-> IF q \in Requests THEN Authority!NoClaim
                                                         ELSE AbsClaim[q]]
    BY <2>2, Unclaimed DEF AbsClaim
  <2>4. Authority!Drop(Requests)
    BY <2>1, <2>3 DEF Authority!Drop, TokensStay, AbsToken, AbsHolder,
                      AbsAccounts, AbsClaim
  <2> QED
    BY <2>4 DEF Authority!Next
<1>6. CASE UNCHANGED locals
  <2>1. AbsClaim' = AbsClaim
    BY <1>6 DEF locals, AbsClaim, ClaimOf, Stage
  <2> QED
    BY <1>1, <1>2, <2>1, DurableMaps
<1> QED
  BY <1>3, <1>4, <1>5, <1>6
  DEF Next, DeleteUser, DeleteExpiredSessions, Tick, Break, vars, locals

\* The empty database is the authority before anybody is known to it.
LEMMA InitMaps == Init => Authority!Init
<1> SUFFICES ASSUME Init PROVE Authority!Init
  OBVIOUS
<1>1. \A t \in Tokens : TokenState(t) = "fresh" /\ HolderOf(t) = None
  BY DEF Init, TokenState, HolderOf
<1>2. \A r \in Requests : ClaimOf(r) = Authority!NoClaim
  BY DEF Init, ClaimOf, Stage, Authority!NoClaim, Authority!Claim
<1> QED
  BY <1>1, <1>2 DEF Init, Authority!Init

\* The handlers, the statements they execute, the clock, the crashes and the
\* failures of the database implement the authority: a request acts for an
\* account only after an instant at which its token was live and held by that
\* account, and no token is live again once it is dead.
THEOREM AuthImplementsAuthority == Spec => ImplementsAuthority
<1>1. MapInv /\ MapInv' /\ [Next]_vars => [Authority!Next]_Authority!vars
  BY StepMaps
<1> QED
  BY <1>1, InitMaps, MapInvariance, PTL
  DEF Spec, ImplementsAuthority, Authority!Spec
=============================================================================
