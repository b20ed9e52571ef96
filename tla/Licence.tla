------------------------------- MODULE Licence -------------------------------
(***************************************************************************)
(* The licence check of internal/license/license.go.  Validate answers     *)
(* from a cache file that is younger than a day, whichever key it was      *)
(* written for, and asks the licence server otherwise; the file is         *)
(* truncated, then written.  The key that is configured changes at any     *)
(* time, and the server, which is external, may answer anything: only an   *)
(* answer 401 and one that is no licence count as a refusal.               *)
(***************************************************************************)
EXTENDS Naturals

CONSTANTS
  Keys,       \* the keys that are configured at some time
  Day,        \* the age at which the cache is stale: 24 hours
  MaxTime     \* bound on the clock

LicenceAssumption == Day \in Nat \ {0} /\ MaxTime \in Nat

Tiers == {"free", "paid"}

VARIABLES
  time,
  key,       \* the configured key, "none" without one
  cache,     \* the file: Broken, or the tier and the time of its validation
  check,     \* Validate: "idle", or "asking" the server
  answer,    \* the tier of the latest answer, and when it was given
  lastPaid   \* history: when the server last answered with a paid tier, plus one

licenceVars == <<time, key, cache, check, answer, lastPaid>>

\* A missing or truncated file decodes into nothing.
Broken == [tier |-> "broken", at |-> 0]
Says(tier) == answer' = [tier |-> tier, at |-> time]

Environment ==
  /\ \/ time < MaxTime /\ time' = time + 1 /\ UNCHANGED key
     \/ key' \in Keys \cup {"none"} /\ UNCHANGED time
  /\ UNCHANGED <<cache, check, answer, lastPaid>>

\* Mutant: a licence does not age.
FreshForEver == cache.tier # "broken"
Fresh == cache.tier # "broken" /\ time - cache.at < Day

\* The key is read, then the cache.
Validate ==
  /\ check = "idle"
  /\ \/ key = "none" /\ Says("free") /\ UNCHANGED check
     \/ key # "none" /\ Fresh /\ Says(cache.tier) /\ UNCHANGED check
     \/ key # "none" /\ ~Fresh /\ check' = "asking" /\ UNCHANGED answer
  /\ UNCHANGED <<time, key, cache, lastPaid>>

\* No answer within ten seconds, less than a tick of the clock; the status 401;
\* a body that does not decode.  The cache is left alone.
Refused ==
  /\ check = "asking"
  /\ Says("free") /\ check' = "idle"
  /\ UNCHANGED <<time, key, cache, lastPaid>>

\* Every other answer is a licence, whatever its status, its tier and its valid
\* field.  ValidatedAt is stamped and the licence written, unless the file cannot
\* be created.  The process may die when the file is truncated and not written.
Accepted ==
  /\ check = "asking" /\ check' = "idle"
  /\ \E tier \in Tiers :
       /\ lastPaid' = IF tier = "paid" THEN time + 1 ELSE lastPaid
       /\ \/ cache' = [tier |-> tier, at |-> time] /\ Says(tier)
          \/ UNCHANGED cache /\ Says(tier)
          \/ cache' = Broken /\ UNCHANGED answer
  /\ UNCHANGED <<time, key>>

Init ==
  /\ time = 0 /\ key \in Keys \cup {"none"}
  /\ cache = Broken /\ check = "idle"
  /\ answer = [tier |-> "free", at |-> 0] /\ lastPaid = 0

Next == Environment \/ Validate \/ Refused \/ Accepted
----------------------------------------------------------------------------
Typed ==
  /\ time \in 0..MaxTime /\ key \in Keys \cup {"none"}
  /\ cache \in [tier : {"broken"} \cup Tiers, at : 0..time]
  /\ check \in {"idle", "asking"}
  /\ answer \in [tier : Tiers, at : 0..time]
  /\ lastPaid \in 0..(time + 1)

\* However the keys, the cache and the server's answers change, with crashes in
\* between: what is answered as a paid tier stood in an answer of the server that
\* is less than a day old (license.go:50-73).  Nothing more is true: that answer
\* may have been an error in JSON, and it may have been for another key.
PaidWasAnswered ==
  answer.tier = "paid" => lastPaid > 0 /\ answer.at - (lastPaid - 1) < Day
=============================================================================
