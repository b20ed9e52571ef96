--------------------------- MODULE SessionAuthority ---------------------------
(***************************************************************************)
(* What the accounts and sessions of ZFSdash promise, without tables,      *)
(* statements or handlers.  A token is fresh, then live, then dead, and    *)
(* never anything else.  A request acts for an account only if its token   *)
(* was live at some instant after the request came in, and the account it  *)
(* acts for is the one the token was issued to and existed when the        *)
(* request was allowed.                                                    *)
(***************************************************************************)
CONSTANTS Requests, Tokens, UserIds, None

VARIABLES
  token,     \* token[t]: "fresh", "live" or "dead"
  holder,    \* holder[t]: the account t was issued to
  accounts,  \* the accounts that exist
  claim      \* claim[r]: how far the check of request r has come

vars == <<token, holder, accounts, claim>>

Claim(s, t, u) == [stage |-> s, token |-> t, user |-> u]

NoClaim == Claim("none", None, None)

Claims == [stage : {"none", "asked", "seen", "allowed"},
           token : Tokens \cup {None}, user : UserIds \cup {None}]

TypeOK ==
  /\ token \in [Tokens -> {"fresh", "live", "dead"}]
  /\ holder \in [Tokens -> UserIds \cup {None}]
  /\ accounts \subseteq UserIds
  /\ claim \in [Requests -> Claims]

Init ==
  /\ token = [t \in Tokens |-> "fresh"]
  /\ holder = [t \in Tokens |-> None]
  /\ accounts = {}
  /\ claim = [r \in Requests |-> NoClaim]

Enrol(u) ==
  /\ u \notin accounts
  /\ accounts' = accounts \cup {u}
  /\ UNCHANGED <<token, holder, claim>>

Retired(S) == [t \in Tokens |-> IF t \in S THEN "dead" ELSE token[t]]

\* An account goes, with all of its tokens or with none.
Remove(u) ==
  /\ u \in accounts
  /\ accounts' = accounts \ {u}
  /\ \E S \in {{}, {t \in Tokens : token[t] = "live" /\ holder[t] = u}} :
       token' = Retired(S)
  /\ UNCHANGED <<holder, claim>>

Issue(t, u) ==
  /\ token[t] = "fresh"
  /\ token' = [token EXCEPT ![t] = "live"]
  /\ holder' = [holder EXCEPT ![t] = u]
  /\ UNCHANGED <<accounts, claim>>

\* Logging out retires one token; time may retire several at once.
Retire(S) ==
  /\ \A t \in S : token[t] = "live"
  /\ token' = Retired(S)
  /\ UNCHANGED <<holder, accounts, claim>>

Ask(r, t) ==
  /\ claim[r].stage = "none"
  /\ claim' = [claim EXCEPT ![r] = Claim("asked", t, None)]
  /\ UNCHANGED <<token, holder, accounts>>

Observe(r) ==
  /\ claim[r].stage = "asked"
  /\ claim[r].token \in Tokens
  /\ token[claim[r].token] = "live"
  /\ claim' = [claim EXCEPT
                  ![r] = Claim("seen", claim[r].token, holder[claim[r].token])]
  /\ UNCHANGED <<token, holder, accounts>>

Allow(r) ==
  /\ claim[r].stage = "seen"
  /\ claim[r].user \in accounts
  /\ claim' = [claim EXCEPT ![r] = Claim("allowed", claim[r].token, claim[r].user)]
  /\ UNCHANGED <<token, holder, accounts>>

\* Requests end, allowed or not, one at a time or all together in a crash.
Drop(R) ==
  /\ claim' = [r \in Requests |-> IF r \in R THEN NoClaim ELSE claim[r]]
  /\ UNCHANGED <<token, holder, accounts>>

Next ==
  \/ \E u \in UserIds : Enrol(u) \/ Remove(u)
  \/ \E t \in Tokens, u \in UserIds : Issue(t, u)
  \/ \E S \in SUBSET Tokens : Retire(S)
  \/ \E r \in Requests, t \in Tokens \cup {None} : Ask(r, t)
  \/ \E r \in Requests : Observe(r) \/ Allow(r)
  \/ \E R \in SUBSET Requests : Drop(R)

Spec == Init /\ [][Next]_vars
=============================================================================
