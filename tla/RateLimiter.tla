---------------------------- MODULE RateLimiter ----------------------------
(***************************************************************************)
(* RateLimiter.check (app/core/rate_limiter.py) and the rate_limit         *)
(* dependency around it (app/api/dependencies.py), with Redis as the one   *)
(* place where buckets live.                                               *)
(*                                                                         *)
(* A check reads its process's clock BEFORE the await that sends the       *)
(* script, and Redis runs whole scripts one at a time in the order they    *)
(* arrive.  So the timestamp a script works with may be older than the     *)
(* moment it runs (MaxLag: scheduling, the network, a full connection      *)
(* pool), or newer, when the process's clock is ahead (MaxAhead); and two  *)
(* scripts may run in the opposite order of their timestamps.              *)
(***************************************************************************)
EXTENDS TokenBucket

CONSTANTS
    Clients,         \* client identifiers (get_client_identifier)
    Requests,        \* requests that may be in flight
    KeyOf,           \* KeyOf[r]: the bucket request r draws from
    Capacity,        \* Capacity[class]: rate_limit_<class>_capacity
    RefillPerMinute, \* RefillPerMinute[class]: rate_limit_<class>_refill_per_minute
    MaxLag,          \* milliseconds from reading the clock to running the script
    MaxAhead,        \* milliseconds a process's clock may be ahead of Redis's
    MaxTime,         \* bound: the clock stops here
    MaxRegress       \* bound: no new check on a key whose ts went back further

RouteClass == {"redirect", "create"}

Keys == [client : Clients, class : RouteClass]

ASSUME Limits ==
    /\ KeyOf \in [Requests -> Keys]
    /\ Capacity \in [RouteClass -> Nat \ {0}]
    /\ RefillPerMinute \in [RouteClass -> Nat \ {0}]
    /\ MaxLag \in Nat /\ MaxAhead \in Nat
    /\ MaxTime \in Nat /\ MaxRegress \in Nat

\* _limits_for, and the full bucket in shares of a token.
CapacityOf(k) == Capacity[k.class]
RefillOf(k) == RefillPerMinute[k.class]
FullOf(k) == CapacityOf(k) * Token

VARIABLES
    clock,     \* Redis's clock, in milliseconds
    redis_up,  \* FALSE while Redis refuses connections
    bucket,    \* bucket[k]: the hash Redis keeps under key k
    verdict,   \* verdict[r]: where check r stands, and its answer
    now_ms,    \* now_ms[r]: the clock check r read before its await
    (* History, read by properties only. *)
    credit,    \* credit[k]: the bucket an ideal limiter would keep for the same grants
    regress,   \* regress[k]: milliseconds by which ts of k has been moved back
    late,      \* late[k]: the longest after its time that a script on k has run
    early,     \* early[k]: the longest before its time that one has run
    promise    \* promise[k]: earliest moment a 429 on k told its client to retry at

store == <<clock, redis_up, bucket>>
calls == <<verdict, now_ms>>
history == <<credit, regress, late, early, promise>>
vars == <<clock, redis_up, bucket, verdict, now_ms, credit, regress, late, early, promise>>

NoPromise == -1

Init ==
    /\ clock = 0
    /\ redis_up = TRUE
    /\ bucket = [k \in Keys |-> Cold]
    /\ verdict = [r \in Requests |-> "idle"]
    /\ now_ms = [r \in Requests |-> 0]
    /\ credit = [k \in Keys |-> FullOf(k)]
    /\ regress = [k \in Keys |-> 0]
    /\ late = [k \in Keys |-> 0]
    /\ early = [k \in Keys |-> 0]
    /\ promise = [k \in Keys |-> NoPromise]

\* The request reaches the limiter, which reads the clock and awaits Redis.
Check(r) ==
    /\ verdict[r] = "idle"
    /\ regress[KeyOf[r]] <= MaxRegress
    /\ verdict' = [verdict EXCEPT ![r] = "awaiting"]
    /\ \E ahead \in 0 .. MaxAhead : now_ms' = [now_ms EXCEPT ![r] = clock + ahead]
    /\ UNCHANGED <<store, history>>

\* What the script finds in the bucket of r once it has refilled it.
TokensFor(r) ==
    Refilled(bucket[KeyOf[r]], CapacityOf(KeyOf[r]), RefillOf(KeyOf[r]), now_ms[r])

Granted(r) == TokensFor(r) >= Token

\* Seeded fault: a rejection writes the refilled tokens but not their timestamp.
HashAfterStaleTs(r) ==
    LET k == KeyOf[r] IN
    [live    |-> TRUE,
     tokens  |-> IF Granted(r) THEN TokensFor(r) - Token ELSE TokensFor(r),
     ts      |-> IF Granted(r) \/ ~bucket[k].live THEN now_ms[r] ELSE bucket[k].ts,
     expires |-> clock + TtlMs(CapacityOf(k), RefillOf(k))]

\* HSET and PEXPIRE: the timestamp is written even when it is earlier than the
\* one it replaces.
HashAfter(r) ==
    LET k == KeyOf[r] IN
    [live    |-> TRUE,
     tokens  |-> IF Granted(r) THEN TokensFor(r) - Token ELSE TokensFor(r),
     ts      |-> now_ms[r],
     expires |-> clock + TtlMs(CapacityOf(k), RefillOf(k))]

\* One execution of the script for r: atomic, since Redis runs one at a time.
RunScript(r) ==
    LET k == KeyOf[r] IN
    /\ verdict[r] = "awaiting"
    /\ redis_up
    /\ bucket' = [bucket EXCEPT ![k] = HashAfter(r)]
    /\ credit' = [credit EXCEPT ![k] = @ - (IF Granted(r) THEN Token ELSE 0)]
    /\ regress' = [regress EXCEPT ![k] =
                     @ + (IF bucket[k].live THEN Larger(0, bucket[k].ts - now_ms[r]) ELSE 0)]
    /\ late' = [late EXCEPT ![k] = Larger(@, clock - now_ms[r])]
    /\ early' = [early EXCEPT ![k] = Larger(@, now_ms[r] - clock)]
    /\ now_ms' = [now_ms EXCEPT ![r] = 0]
    /\ UNCHANGED <<clock, redis_up>>

\* The moment the 429 answer to r tells its client to come back at.
RetryAt(r) ==
    clock + Second * RetryAfterHeader(RetryAfterMs(TokensFor(r), RefillOf(KeyOf[r])))

Sooner(old, new) == IF old = NoPromise THEN new ELSE Smaller(old, new)

\* The script grants a token: the request goes on to its handler.
Allow(r) ==
    /\ RunScript(r)
    /\ Granted(r)
    /\ verdict' = [verdict EXCEPT ![r] = "allowed"]
    /\ promise' = [promise EXCEPT ![KeyOf[r]] = NoPromise]

\* The script finds too few tokens: 429 with a Retry-After header.
Reject(r) ==
    /\ RunScript(r)
    /\ ~Granted(r)
    /\ verdict' = [verdict EXCEPT ![r] = "rejected"]
    /\ promise' = [promise EXCEPT ![KeyOf[r]] = Sooner(@, RetryAt(r))]

\* The script ran but its reply never arrived: RedisError, fail open.
LoseReply(r) ==
    /\ RunScript(r)
    /\ verdict' = [verdict EXCEPT ![r] = "open"]
    /\ promise' = [promise EXCEPT ![KeyOf[r]] = IF Granted(r) THEN NoPromise ELSE @]

\* The script could not be sent: RedisError, fail open.
FailOpen(r) ==
    /\ verdict[r] = "awaiting"
    /\ ~redis_up
    /\ verdict' = [verdict EXCEPT ![r] = "open"]
    /\ now_ms' = [now_ms EXCEPT ![r] = 0]
    /\ UNCHANGED <<store, history>>

\* The answer has been used; the same connection may ask again.
Finish(r) ==
    /\ verdict[r] \in {"allowed", "rejected", "open"}
    /\ verdict' = [verdict EXCEPT ![r] = "idle"]
    /\ UNCHANGED <<store, now_ms, history>>

\* A millisecond passes; Redis drops the keys whose time to live has run out.
Tick ==
    /\ clock < MaxTime
    /\ \A r \in Requests : verdict[r] = "awaiting" => clock < now_ms[r] + MaxLag
    /\ clock' = clock + 1
    /\ bucket' = [k \in Keys |->
                    IF bucket[k].live /\ bucket[k].expires <= clock + 1
                    THEN Cold ELSE bucket[k]]
    /\ credit' = [k \in Keys |-> Smaller(FullOf(k), credit[k] + RefillOf(k))]
    /\ UNCHANGED <<redis_up, calls, regress, late, early, promise>>

RedisStop ==
    /\ redis_up
    /\ redis_up' = FALSE
    /\ UNCHANGED <<clock, bucket, calls, history>>

RedisStart ==
    /\ ~redis_up
    /\ redis_up' = TRUE
    /\ UNCHANGED <<clock, bucket, calls, history>>

Next ==
    \/ Tick \/ RedisStop \/ RedisStart
    \/ \E r \in Requests :
         \/ Check(r) \/ Allow(r) \/ Reject(r)
         \/ LoseReply(r) \/ FailOpen(r) \/ Finish(r)

Spec == Init /\ [][Next]_vars
-----------------------------------------------------------------------------
\* What is in bucket k now, were it read with Redis's own clock.
Level(k) ==
    IF bucket[k].live
    THEN Smaller(FullOf(k), bucket[k].tokens + RefillOf(k) * (clock - bucket[k].ts))
    ELSE FullOf(k)

(***************************************************************************)
(* Type invariant: a stored bucket holds between nothing and a full        *)
(* bucket, and no timestamp is further ahead than one a process has read.  *)
(***************************************************************************)
TypeOK ==
    /\ clock \in 0 .. MaxTime
    /\ redis_up \in BOOLEAN
    /\ bucket \in [Keys -> Hash]
    /\ \A k \in Keys : bucket[k].live =>
         /\ bucket[k].tokens \in 0 .. FullOf(k)
         /\ bucket[k].ts <= clock + early[k]
         /\ bucket[k].expires > clock
    /\ verdict \in [Requests -> {"idle", "awaiting", "allowed", "rejected", "open"}]
    /\ now_ms \in [Requests -> Nat]
    /\ \A r \in Requests : verdict[r] = "awaiting" =>
         now_ms[r] \in (clock - MaxLag) .. (clock + MaxAhead)
    /\ credit \in [Keys -> Int]
    /\ regress \in [Keys -> Nat]
    /\ late \in [Keys -> 0 .. MaxLag] /\ early \in [Keys -> 0 .. MaxAhead]
    /\ promise \in [Keys -> Nat \cup {NoPromise}]

\* Every script on k has run in the millisecond in which its clock was read, by a
\* clock that agrees with Redis's.
Punctual(k) == late[k] = 0 /\ early[k] = 0

(***************************************************************************)
(* A client is never granted more than its burst plus the sustained rate:  *)
(* the bucket an ideal limiter would keep for the tokens the script        *)
(* granted is never overdrawn (Settings: capacity is the burst size,       *)
(* refill_per_minute the sustained rate).  The code keeps this for a       *)
(* bucket until a script on it runs late or early.                         *)
(***************************************************************************)
AdmissionBound == \A k \in Keys : Punctual(k) => credit[k] >= 0

(***************************************************************************)
(* How far the grants of the script can exceed the configured rate when    *)
(* scripts run late, out of order or with clocks that disagree: by what    *)
(* accrues in the time the stored timestamp was ever moved back, plus the  *)
(* worst delay and the worst lead once.  HSET writes ts even when it is    *)
(* earlier, so the first part grows without limit.                         *)
(***************************************************************************)
BoundedOverAdmission ==
    \A k \in Keys : late[k] + early[k] <= Slack =>
        credit[k] + RefillOf(k) * (regress[k] + late[k] + early[k]) >= 0

(***************************************************************************)
(* What the guard against a clock that went backwards should buy: scripts  *)
(* that run late or out of order cost the limit the disagreement of the    *)
(* clocks once, however long the traffic lasts.  The code does not keep    *)
(* this: every ts that HSET moves back is time that is refilled twice.     *)
(***************************************************************************)
SkewCostsOnce ==
    \A k \in Keys : credit[k] + RefillOf(k) * (MaxLag + MaxAhead) >= 0

(***************************************************************************)
(* "an absent key is treated as a full bucket, so this loses no state":    *)
(* when PEXPIRE lets Redis drop a key, the bucket would have been full by  *)
(* then whatever timestamp the next script carries.                        *)
(***************************************************************************)
ExpiryLosesNothing ==
    [][\A k \in Keys : bucket[k].live /\ ~bucket'[k].live =>
          bucket[k].tokens + RefillOf(k) * (clock' - MaxLag - bucket[k].ts) >= FullOf(k)]_vars

(***************************************************************************)
(* "we never tell the client to retry before a token is available": once   *)
(* the Retry-After of a 429 has passed, and unless a token of that bucket  *)
(* was granted since, the bucket holds a token.                            *)
(***************************************************************************)
RetryAfterHonoured ==
    \A k \in Keys :
        promise[k] # NoPromise /\ clock >= promise[k] => Level(k) >= Token

(***************************************************************************)
(* The stored hash, its expiry and its timestamps implement a bucket that  *)
(* fills continuously and is never forgotten, for as long as no script     *)
(* runs late or early: the first step in which one does is the first that  *)
(* the ideal bucket may not take.                                          *)
(***************************************************************************)
Ideal == INSTANCE IdealBucket
         WITH level <- [k \in Keys |-> Level(k)],
              Full  <- [k \in Keys |-> FullOf(k)],
              Rate  <- [k \in Keys |-> RefillOf(k)]

AllPunctual == \A k \in Keys : Punctual(k)

RefinesIdealBucket ==
    Ideal!Init /\ [][AllPunctual' => [Ideal!Next]_Ideal!vars]_vars
=============================================================================
