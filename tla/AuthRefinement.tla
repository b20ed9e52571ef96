---------------------------- MODULE AuthRefinement ----------------------------
(***************************************************************************)
(* The tables and handlers of Auth implement SessionAuthority.  A token is *)
(* live while a session row holds it and has not expired; the claim of a   *)
(* request is the position of its goroutine in ValidateSession.            *)
(***************************************************************************)
EXTENDS Auth

TokenState(t) ==
  IF \E s \in sessions : s.token = t /\ s.expires > clock THEN "live"
  ELSE IF \E s \in granted : s.token = t THEN "dead"
  ELSE "fresh"

HolderOf(t) ==
  IF \E s \in granted : s.token = t
  THEN (CHOOSE s \in granted : s.token = t).user
  ELSE None

Stage(r) ==
  CASE pc[r] \in {"Guard", "GetSession"} -> "asked"
    [] pc[r] = "GetUserByID" -> "seen"
    [] pc[r] = "TouchSession" -> "allowed"
    [] OTHER -> "none"

ClaimOf(r) ==
  IF Stage(r) = "none"
  THEN [stage |-> "none", token |-> None, user |-> None]
  ELSE [stage |-> Stage(r), token |-> input[r].token, user |-> usr[r]]

Authority == INSTANCE SessionAuthority WITH
  token    <- [t \in Tokens |-> TokenState(t)],
  holder   <- [t \in Tokens |-> HolderOf(t)],
  accounts <- {u.id : u \in users},
  claim    <- [r \in Requests |-> ClaimOf(r)]

\* Auth implements SessionAuthority: every step of a handler, of the store and
\* of the clock is a step of the abstract authority or leaves it unchanged.
\* The hazard is ValidateSession (auth.go:71-85), which reads the session and
\* the user in two statements, with logouts, logins and deletions in between.
ImplementsAuthority == Authority!Spec
=============================================================================
