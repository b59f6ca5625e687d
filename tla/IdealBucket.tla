---------------------------- MODULE IdealBucket ----------------------------
(***************************************************************************)
(* What the rate limiter promises: every (client, route class) owns a      *)
(* bucket that fills continuously up to its capacity, is never forgotten,  *)
(* and answers a check with "allowed" exactly when it holds a token.       *)
(* There is no Redis, no stored timestamp and no key that expires here.    *)
(***************************************************************************)
EXTENDS Integers

CONSTANTS
    Keys,      \* the buckets
    Requests,  \* the checks that may be in flight
    KeyOf,     \* KeyOf[r]: the bucket check r draws from
    Token,     \* shares that make one token
    Full,      \* Full[k]: shares in a full bucket k
    Rate       \* Rate[k]: shares bucket k earns in a millisecond

VARIABLES
    level,     \* level[k]: shares now in bucket k
    verdict    \* verdict[r]: where check r stands, and its answer

vars == <<level, verdict>>

Init ==
    /\ level = Full
    /\ verdict = [r \in Requests |-> "idle"]

Refill ==
    /\ level' = [k \in Keys |->
                   IF level[k] + Rate[k] <= Full[k]
                   THEN level[k] + Rate[k] ELSE Full[k]]
    /\ UNCHANGED verdict

Ask(r) ==
    /\ verdict[r] = "idle"
    /\ verdict' = [verdict EXCEPT ![r] = "awaiting"]
    /\ UNCHANGED level

Allow(r) ==
    /\ verdict[r] = "awaiting"
    /\ level[KeyOf[r]] >= Token
    /\ level' = [level EXCEPT ![KeyOf[r]] = @ - Token]
    /\ verdict' = [verdict EXCEPT ![r] = "allowed"]

Reject(r) ==
    /\ verdict[r] = "awaiting"
    /\ level[KeyOf[r]] < Token
    /\ verdict' = [verdict EXCEPT ![r] = "rejected"]
    /\ UNCHANGED level

\* The store could not be reached or its answer was lost: the check fails
\* open, and at most the token it was entitled to has been taken.
FailOpen(r) ==
    /\ verdict[r] = "awaiting"
    /\ verdict' = [verdict EXCEPT ![r] = "open"]
    /\ \/ UNCHANGED level
       \/ /\ level[KeyOf[r]] >= Token
          /\ level' = [level EXCEPT ![KeyOf[r]] = @ - Token]

Finish(r) ==
    /\ verdict[r] \in {"allowed", "rejected", "open"}
    /\ verdict' = [verdict EXCEPT ![r] = "idle"]
    /\ UNCHANGED level

Next ==
    \/ Refill
    \/ \E r \in Requests :
         Ask(r) \/ Allow(r) \/ Reject(r) \/ FailOpen(r) \/ Finish(r)

Spec == Init /\ [][Next]_vars
=============================================================================
