------------------------- MODULE RateLimiterProofs -------------------------
(***************************************************************************)
(* Proofs about RateLimiter, for every set of clients and requests, every  *)
(* capacity and refill rate, and every choice of the time units.           *)
(***************************************************************************)
EXTENDS RateLimiter, TLAPS

-----------------------------------------------------------------------------
(* Arithmetic of the script.                                               *)

\* A product of natural numbers is one, and grows with its second factor.
LEMMA Product ==
    ASSUME NEW a \in Nat, NEW x \in Int, NEW y \in Int, x <= y
    PROVE  /\ a * x \in Int
           /\ a * x <= a * y
           /\ x >= 0 => a * x \in Nat
BY SMT

\* A product distributes over a sum and a difference.
LEMMA Distribute ==
    ASSUME NEW a \in Nat, NEW x \in Int, NEW y \in Int
    PROVE  /\ a * x \in Int /\ a * y \in Int
           /\ a * (x + y) = a * x + a * y
           /\ a * (x - y) = a * x - a * y
BY SMT

\* Rounding a quotient up yields enough: the TTL and the Retry-After of the
\* script (math.ceil) are never too short.
LEMMA CeilDivCovers ==
    ASSUME NEW a \in Nat, NEW b \in Nat \ {0}
    PROVE  /\ CeilDiv(a, b) \in Nat
           /\ b * CeilDiv(a, b) >= a
<1> DEFINE q == (a + b - 1) \div b
           m == (a + b - 1) % b
<1>1. /\ q \in Int
      /\ m \in 0 .. (b - 1)
      /\ a + b - 1 = b * q + m
  BY SMT
<1>2. q >= 0
  BY SMT
<1> QED
  BY <1>1, <1>2, SMT DEF CeilDiv

-----------------------------------------------------------------------------
(* Types.                                                                  *)

\* Every key has limits the script can work with.
LEMMA KeyLimits ==
    ASSUME NEW k \in Keys
    PROVE  /\ CapacityOf(k) \in Nat \ {0}
           /\ RefillOf(k) \in Nat \ {0}
           /\ FullOf(k) = CapacityOf(k) * Token
           /\ FullOf(k) \in Nat
           /\ Token \in Nat \ {0}
           /\ Token <= FullOf(k)
           /\ TtlMs(CapacityOf(k), RefillOf(k)) \in Nat
           /\ TtlMs(CapacityOf(k), RefillOf(k)) > Slack
           /\ RefillOf(k) * (TtlMs(CapacityOf(k), RefillOf(k)) - Slack) >= FullOf(k)
<1>1. k.class \in RouteClass
  BY DEF Keys
<1>2. /\ CapacityOf(k) \in Nat \ {0}
      /\ RefillOf(k) \in Nat \ {0}
      /\ Token \in Nat \ {0}
      /\ Slack \in Nat
  BY <1>1, Limits, TimeUnits DEF CapacityOf, RefillOf, Token
<1>3. /\ FullOf(k) = CapacityOf(k) * Token
      /\ FullOf(k) \in Nat
      /\ Token <= FullOf(k)
  <2>1. Token * 1 <= Token * CapacityOf(k) /\ Token * CapacityOf(k) \in Nat
    BY <1>2, Product
  <2> QED
    BY <1>2, <2>1, SMT DEF FullOf
<1>4. TtlMs(CapacityOf(k), RefillOf(k)) = CeilDiv(FullOf(k), RefillOf(k)) + Slack
  BY DEF TtlMs, FullOf
<1>5. /\ CeilDiv(FullOf(k), RefillOf(k)) \in Nat
      /\ RefillOf(k) * CeilDiv(FullOf(k), RefillOf(k)) >= FullOf(k)
  BY <1>2, <1>3, CeilDivCovers
<1>7. CeilDiv(FullOf(k), RefillOf(k)) > 0
  BY <1>2, <1>3, <1>5, SMT
<1>6. TtlMs(CapacityOf(k), RefillOf(k)) - Slack = CeilDiv(FullOf(k), RefillOf(k))
  BY <1>2, <1>4, <1>5, SMT
<1> QED
  BY <1>2, <1>3, <1>4, <1>5, <1>6, <1>7, SMT

\* The script never finds less than nothing or more than a full bucket.
LEMMA TokensForType ==
    ASSUME TypeOK, NEW r \in Requests
    PROVE  /\ KeyOf[r] \in Keys
           /\ TokensFor(r) \in 0 .. FullOf(KeyOf[r])
           /\ Granted(r) \in BOOLEAN
<1> DEFINE k == KeyOf[r]
           h == bucket[k]
<1>1. k \in Keys
  BY Limits
<1>2. /\ FullOf(k) \in Nat /\ RefillOf(k) \in Nat
      /\ FullOf(k) = CapacityOf(k) * Token
  BY <1>1, KeyLimits
<1>3. CASE ~h.live
  <2>1. TokensFor(r) = FullOf(k)
    BY <1>2, <1>3 DEF TokensFor, Refilled
  <2> QED
    BY <1>1, <1>2, <2>1, SMT DEF Granted
<1>4. CASE h.live
  <2>1. h \in Hash /\ h.tokens \in 0 .. FullOf(k) /\ now_ms[r] \in Nat
    BY <1>1, <1>4 DEF TypeOK
  <2>2. Elapsed(h, now_ms[r]) \in Nat
    BY <2>1, SMT DEF Elapsed, Larger, Hash
  <2>3. Elapsed(h, now_ms[r]) * RefillOf(k) \in Nat
    BY <1>2, <2>2, SMT
  <2> HIDE DEF h
  <2>4. TokensFor(r) = Smaller(FullOf(k), h.tokens + Elapsed(h, now_ms[r]) * RefillOf(k))
    BY <1>2, <1>4 DEF TokensFor, Refilled, h
  <2> QED
    BY <1>1, <1>2, <2>1, <2>3, <2>4, SMT DEF Smaller, Granted
<1> QED
  BY <1>1, <1>3, <1>4 DEF Granted

\* Waiting for the Retry-After of a rejection earns the missing shares.
LEMMA RetryCovers ==
    ASSUME TypeOK, NEW r \in Requests, ~Granted(r)
    PROVE  LET rate == RefillOf(KeyOf[r])
               wait == Second * RetryAfterHeader(RetryAfterMs(TokensFor(r), rate))
           IN  /\ RetryAfterHeader(RetryAfterMs(TokensFor(r), rate)) \in Nat
               /\ wait \in Nat
               /\ TokensFor(r) + rate * wait >= Token
<1> DEFINE rate == RefillOf(KeyOf[r])
           deficit == Token - TokensFor(r)
           ms == RetryAfterMs(TokensFor(r), rate)
           header == RetryAfterHeader(ms)
           wait == Second * header
<1>1. /\ rate \in Nat \ {0} /\ deficit \in Nat /\ deficit > 0
      /\ TokensFor(r) \in Nat /\ Token \in Nat
  BY TokensForType, KeyLimits, SMT DEF Granted
<1>2. ms \in Nat /\ rate * ms >= deficit
  BY <1>1, CeilDivCovers DEF RetryAfterMs
<1>3. header \in Nat /\ wait \in Nat /\ wait >= ms
  <2> DEFINE seconds == CeilDiv(ms, Second)
  <2>1. Second \in Nat \ {0} /\ seconds \in Nat /\ Second * seconds >= ms
    BY <1>2, TimeUnits, CeilDivCovers
  <2>2. header = Larger(1, seconds)
    BY <1>2, SMT DEF RetryAfterHeader, Larger
  <2>3. header \in Nat /\ seconds <= header
    BY <2>1, <2>2, SMT DEF Larger
  <2> HIDE DEF seconds, header
  <2>4. Second * seconds <= Second * header /\ Second * header \in Nat
    BY <2>1, <2>3, Product
  <2> QED
    BY <1>2, <2>1, <2>3, <2>4, SMT
<1> HIDE DEF ms, wait
<1>4. rate * ms <= rate * wait /\ rate * wait \in Nat
  BY <1>1, <1>2, <1>3, Product
<1>5. TokensFor(r) + rate * wait >= Token
  BY <1>1, <1>2, <1>4, SMT
<1> QED
  BY <1>3, <1>5 DEF wait, ms

\* The initial state is well typed.
LEMMA TypeInit == Init => TypeOK
<1> SUFFICES ASSUME Init PROVE TypeOK
  OBVIOUS
<1>1. Cold \in Hash /\ ~Cold.live
  BY DEF Cold, Hash
<1>2. \A k \in Keys : FullOf(k) \in Int
  BY KeyLimits
<1> QED
  BY <1>1, <1>2, Limits, SMT DEF Init, TypeOK, NoPromise

\* One execution of the script keeps what Redis and the history hold typed.
LEMMA ScriptTypes ==
    ASSUME TypeOK, NEW r \in Requests, RunScript(r)
    PROVE  /\ clock' \in 0 .. MaxTime
           /\ redis_up' \in BOOLEAN
           /\ bucket' \in [Keys -> Hash]
           /\ \A k \in Keys : bucket'[k].live =>
                /\ bucket'[k].tokens \in 0 .. FullOf(k)
                /\ bucket'[k].ts <= clock' + early'[k]
                /\ bucket'[k].expires > clock'
           /\ now_ms' \in [Requests -> Nat]
           /\ credit' \in [Keys -> Int]
           /\ regress' \in [Keys -> Nat]
           /\ late' \in [Keys -> 0 .. MaxLag] /\ early' \in [Keys -> 0 .. MaxAhead]
<1> DEFINE key == KeyOf[r]
<1>1. /\ key \in Keys
      /\ TokensFor(r) \in 0 .. FullOf(key)
  BY TokensForType
<1>2. /\ FullOf(key) \in Nat /\ Token \in Nat
      /\ TtlMs(CapacityOf(key), RefillOf(key)) \in Nat
      /\ TtlMs(CapacityOf(key), RefillOf(key)) > 0
  BY <1>1, KeyLimits, TimeUnits, SMT
<1>3. /\ clock \in Nat /\ now_ms[r] \in Nat /\ MaxLag \in Nat /\ MaxAhead \in Nat
      /\ now_ms[r] <= clock + MaxAhead /\ clock - now_ms[r] <= MaxLag
  BY Limits, SMT DEF TypeOK, RunScript
<1>4. /\ late' \in [Keys -> 0 .. MaxLag] /\ early' \in [Keys -> 0 .. MaxAhead]
      /\ early'[key] >= now_ms[r] - clock
      /\ \A k \in Keys \ {key} : early'[k] = early[k]
  BY <1>1, <1>3, SMT DEF RunScript, TypeOK, Larger
<1>5. /\ HashAfter(r) \in Hash
      /\ HashAfter(r).tokens \in 0 .. FullOf(key)
      /\ HashAfter(r).ts <= clock + early'[key]
      /\ HashAfter(r).expires > clock
  BY <1>1, <1>2, <1>3, <1>4, SMT DEF HashAfter, Hash, Granted
<1>6. bucket' = [bucket EXCEPT ![key] = HashAfter(r)] /\ clock' = clock
  BY DEF RunScript
<1>7. bucket[key] \in Hash /\ bucket[key].ts \in Int
  BY <1>1 DEF TypeOK, Hash
<1>8. bucket' \in [Keys -> Hash]
  BY <1>5, <1>6 DEF TypeOK
<1>9. ASSUME NEW k \in Keys, bucket'[k].live
      PROVE  /\ bucket'[k].tokens \in 0 .. FullOf(k)
             /\ bucket'[k].ts <= clock' + early'[k]
             /\ bucket'[k].expires > clock'
  BY <1>1, <1>4, <1>5, <1>6, <1>9 DEF TypeOK
<1>10. /\ now_ms' \in [Requests -> Nat]
       /\ credit' \in [Keys -> Int]
       /\ regress' \in [Keys -> Nat]
  BY <1>1, <1>2, <1>3, <1>7, SMT DEF RunScript, TypeOK, Larger
<1> QED
  BY <1>4, <1>6, <1>8, <1>9, <1>10 DEF RunScript, TypeOK

\* Every step keeps the types.
LEMMA TypeStep == TypeOK /\ [Next]_vars => TypeOK'
<1> SUFFICES ASSUME TypeOK, [Next]_vars PROVE TypeOK'
  OBVIOUS
<1> USE Limits
<1>1. CASE Tick
  <2>1. \A k \in Keys : /\ FullOf(k) \in Nat
                        /\ RefillOf(k) \in Nat
    BY KeyLimits
  <2>2. Cold \in Hash /\ ~Cold.live
    BY DEF Cold, Hash
  <2>3. clock' = clock + 1 /\ clock' \in 0 .. MaxTime
    BY <1>1, SMT DEF Tick, TypeOK
  <2>4. bucket' \in [Keys -> Hash]
    BY <1>1, <2>2 DEF Tick, TypeOK
  <2>5. ASSUME NEW k \in Keys, bucket'[k].live
        PROVE  /\ bucket'[k].tokens \in 0 .. FullOf(k)
               /\ bucket'[k].ts <= clock' + early'[k]
               /\ bucket'[k].expires > clock'
    <3>1. /\ bucket'[k] = bucket[k]
          /\ bucket[k].live /\ ~(bucket[k].expires <= clock + 1)
      BY <1>1, <2>2, <2>5 DEF Tick
    <3>2. /\ bucket[k] \in Hash /\ bucket[k].ts \in Int /\ bucket[k].expires \in Int
          /\ early'[k] = early[k] /\ early[k] \in Int
      BY <1>1, SMT DEF TypeOK, Hash, Tick
    <3> QED
      BY <2>3, <3>1, <3>2, SMT DEF TypeOK
  <2>6. credit' \in [Keys -> Int]
    BY <1>1, <2>1, SMT DEF Tick, TypeOK, Smaller
  <2>7. \A r \in Requests : verdict'[r] = "awaiting" =>
          now_ms'[r] \in (clock' - MaxLag) .. (clock' + MaxAhead)
    BY <1>1, <2>3, SMT DEF Tick, TypeOK, calls
  <2> QED
    BY <1>1, <2>3, <2>4, <2>5, <2>6, <2>7 DEF Tick, TypeOK, calls
<1>2. ASSUME NEW r \in Requests, Check(r) PROVE TypeOK'
  BY <1>2, SMT DEF Check, TypeOK, store, history
<1>3. ASSUME NEW r \in Requests, RunScript(r),
             verdict' = [verdict EXCEPT ![r] = "allowed"]
             \/ verdict' = [verdict EXCEPT ![r] = "rejected"]
             \/ verdict' = [verdict EXCEPT ![r] = "open"],
             promise' \in [Keys -> Nat \cup {NoPromise}]
      PROVE  TypeOK'
  <2>1. \A q \in Requests : verdict'[q] = "awaiting" =>
          /\ verdict[q] = "awaiting"
          /\ now_ms'[q] = now_ms[q]
          /\ clock' = clock
    BY <1>3 DEF TypeOK, RunScript
  <2>2. verdict' \in [Requests -> {"idle", "awaiting", "allowed", "rejected", "open"}]
    BY <1>3 DEF TypeOK
  <2> QED
    BY <1>3, <2>1, <2>2, ScriptTypes DEF TypeOK
<1>4. ASSUME NEW r \in Requests, Allow(r) PROVE TypeOK'
  BY <1>3, <1>4 DEF Allow, TypeOK
<1>5. ASSUME NEW r \in Requests, Reject(r) PROVE TypeOK'
  <2>1. RetryAt(r) \in Nat
    <3> DEFINE wait == Second * RetryAfterHeader(RetryAfterMs(TokensFor(r), RefillOf(KeyOf[r])))
    <3>1. wait \in Nat
      BY <1>5, RetryCovers DEF Reject
    <3>2. RetryAt(r) = clock + wait
      BY DEF RetryAt
    <3> HIDE DEF wait
    <3> QED
      BY <3>1, <3>2, SMT DEF TypeOK
  <2>2. promise' \in [Keys -> Nat \cup {NoPromise}]
    BY <1>5, <2>1, SMT DEF Reject, TypeOK, Sooner, Smaller
  <2> QED
    BY <1>3, <1>5, <2>2 DEF Reject
<1>6. ASSUME NEW r \in Requests, LoseReply(r) PROVE TypeOK'
  BY <1>3, <1>6 DEF LoseReply, TypeOK
<1>7. ASSUME NEW r \in Requests, FailOpen(r) PROVE TypeOK'
  BY <1>7, SMT DEF FailOpen, TypeOK, store, history
<1>8. ASSUME NEW r \in Requests, Finish(r) PROVE TypeOK'
  BY <1>8, SMT DEF Finish, TypeOK, store, history
<1>9. CASE RedisStop \/ RedisStart
  BY <1>9 DEF RedisStop, RedisStart, TypeOK, calls, history
<1>10. CASE UNCHANGED vars
  BY <1>10, SMT DEF vars, TypeOK
<1> QED
  BY <1>1, <1>2, <1>4, <1>5, <1>6, <1>7, <1>8, <1>9, <1>10 DEF Next

(***************************************************************************)
(* Type correctness of the limiter: in particular a stored bucket never    *)
(* holds less than nothing or more than a full bucket, whatever timestamps *)
(* the scripts carry.                                                      *)
(***************************************************************************)
THEOREM TypeCorrect == Spec => []TypeOK
BY TypeInit, TypeStep, PTL DEF Spec

-----------------------------------------------------------------------------
(* The key outlives its refill.                                            *)

(***************************************************************************)
(* When the key under k expires its bucket would be full, even for a       *)
(* script whose timestamp is old: by how much is what the slack in PEXPIRE *)
(* leaves, once the lead of the stored timestamp is paid for.              *)
(***************************************************************************)
FullAtExpiry ==
    \A k \in Keys : bucket[k].live =>
        bucket[k].tokens + RefillOf(k) * (bucket[k].expires + early[k] - Slack - bucket[k].ts)
          >= FullOf(k)

\* The hash a script writes is full when its key expires.
LEMMA HashFullAtExpiry ==
    ASSUME TypeOK, NEW r \in Requests, NEW lead \in Nat, now_ms[r] - clock <= lead
    PROVE  LET h == HashAfter(r)
               k == KeyOf[r]
           IN  h.tokens + RefillOf(k) * (h.expires + lead - Slack - h.ts) >= FullOf(k)
<1> DEFINE h == HashAfter(r)
           k == KeyOf[r]
           ttl == TtlMs(CapacityOf(k), RefillOf(k))
<1>1. /\ k \in Keys /\ h.tokens \in Nat
      /\ h.ts = now_ms[r] /\ h.expires = clock + ttl
  BY TokensForType, KeyLimits, SMT DEF HashAfter, Granted
<1>2. /\ RefillOf(k) \in Nat /\ FullOf(k) \in Nat /\ ttl \in Nat
      /\ RefillOf(k) * (ttl - Slack) >= FullOf(k)
  BY <1>1, KeyLimits
<1>3. clock \in Nat /\ now_ms[r] \in Nat /\ Slack \in Nat
  BY Limits, TimeUnits, SMT DEF TypeOK
<1> HIDE DEF ttl, h, k
<1> DEFINE left == h.expires + lead - Slack - h.ts
<1>4. left \in Int /\ ttl - Slack \in Int /\ ttl - Slack <= left
  BY <1>1, <1>2, <1>3, SMT
<1>5. RefillOf(k) * (ttl - Slack) <= RefillOf(k) * left /\ RefillOf(k) * left \in Int
                                                      /\ RefillOf(k) * (ttl - Slack) \in Int
  <2> HIDE DEF left
  <2>1. \A x \in Int : RefillOf(k) * x \in Int
    BY <1>2, SMT
  <2> QED
    BY <1>2, <1>4, <2>1, Product
<1> HIDE DEF left
<1>6. h.tokens + RefillOf(k) * left >= FullOf(k)
  BY <1>1, <1>2, <1>5, SMT
<1> QED
  BY <1>6 DEF left, h, k

\* Every step keeps FullAtExpiry.
LEMMA FullAtExpiryStep ==
    ASSUME TypeOK, FullAtExpiry, [Next]_vars
    PROVE  FullAtExpiry'
<1>1. CASE Tick
  <2>1. \A k \in Keys : bucket'[k].live => bucket'[k] = bucket[k]
    BY <1>1 DEF Tick, Cold
  <2> QED
    BY <1>1, <2>1 DEF FullAtExpiry, Tick
<1>2. ASSUME NEW r \in Requests, RunScript(r) PROVE FullAtExpiry'
  <2>1. KeyOf[r] \in Keys /\ bucket \in [Keys -> Hash] /\ early \in [Keys -> 0 .. MaxAhead]
    BY TokensForType DEF TypeOK
  <2>2. /\ bucket' = [bucket EXCEPT ![KeyOf[r]] = HashAfter(r)]
        /\ \A k \in Keys \ {KeyOf[r]} : early'[k] = early[k]
    BY <1>2, <2>1 DEF RunScript
  <2>3. PICK lead \in Nat : lead = early'[KeyOf[r]] /\ now_ms[r] - clock <= lead
    <3>1. early[KeyOf[r]] \in Nat /\ now_ms[r] \in Nat /\ clock \in Nat
      BY <2>1, SMT DEF TypeOK
    <3>2. early'[KeyOf[r]] = Larger(early[KeyOf[r]], now_ms[r] - clock)
      BY <1>2, <2>1 DEF RunScript
    <3> QED
      BY <3>1, <3>2, SMT DEF Larger
  <2>4. LET h == HashAfter(r)
            k == KeyOf[r]
        IN  h.tokens + RefillOf(k) * (h.expires + lead - Slack - h.ts) >= FullOf(k)
    BY <2>3, HashFullAtExpiry
  <2> QED
    BY <2>1, <2>2, <2>3, <2>4 DEF FullAtExpiry
<1>3. CASE UNCHANGED <<bucket, early>>
  BY <1>3 DEF FullAtExpiry
<1>4. Tick \/ (\E r \in Requests : RunScript(r)) \/ UNCHANGED <<bucket, early>>
  BY DEF Next, vars, store, history, RedisStop, RedisStart, Check, Allow, Reject,
         LoseReply, FailOpen, Finish
<1> QED
  BY <1>1, <1>2, <1>3, <1>4

\* A step that drops a key drops a bucket that is full, also for a timestamp that
\* is lag old.
LEMMA ExpiryStep ==
    ASSUME TypeOK, FullAtExpiry, [Next]_vars,
           NEW k \in Keys, bucket[k].live, ~bucket'[k].live,
           NEW lag \in Nat, lag + early[k] <= Slack
    PROVE  bucket[k].tokens + RefillOf(k) * (clock' - lag - bucket[k].ts) >= FullOf(k)
<1>1. bucket \in [Keys -> Hash]
  BY DEF TypeOK
<1>2. Tick
  <2>1. ASSUME NEW r \in Requests, RunScript(r) PROVE FALSE
    <3>1. bucket' = [bucket EXCEPT ![KeyOf[r]] = HashAfter(r)] /\ HashAfter(r).live
      BY <2>1 DEF RunScript, HashAfter
    <3> QED
      BY <1>1, <3>1
  <2>2. bucket' # bucket
    OBVIOUS
  <2> QED
    BY <2>1, <2>2 DEF Next, vars, store, RedisStop, RedisStart, Check, Allow, Reject,
                      LoseReply, FailOpen, Finish
<1> DEFINE dead == bucket[k].expires + early[k] - Slack - bucket[k].ts
           left == clock' - lag - bucket[k].ts
<1>3. bucket[k].tokens + RefillOf(k) * dead >= FullOf(k)
  BY DEF FullAtExpiry
<1>4. /\ dead \in Int /\ left \in Int /\ dead <= left
      /\ bucket[k].tokens \in Int /\ RefillOf(k) \in Nat /\ FullOf(k) \in Nat
  <2>1. clock' = clock + 1 /\ bucket[k].expires <= clock + 1
    BY <1>2 DEF Tick
  <2>2. /\ bucket[k].expires \in Int /\ bucket[k].ts \in Int /\ bucket[k].tokens \in Int
        /\ early[k] \in Int /\ clock \in Int /\ Slack \in Int
    BY <1>1, TimeUnits, SMT DEF TypeOK, Hash
  <2> QED
    BY <2>1, <2>2, KeyLimits, SMT
<1> HIDE DEF dead, left
<1>5. RefillOf(k) * dead <= RefillOf(k) * left /\ RefillOf(k) * dead \in Int
                                               /\ RefillOf(k) * left \in Int
  <2>1. \A x \in Int : RefillOf(k) * x \in Int
    BY <1>4, SMT
  <2> QED
    BY <1>4, <2>1, Product
<1>6. bucket[k].tokens + RefillOf(k) * left >= FullOf(k)
  BY <1>3, <1>4, <1>5, SMT
<1> QED
  BY <1>6 DEF left

\* No script leads by more than MaxAhead.
LEMMA LeadBounded ==
    ASSUME TypeOK, MaxLag + MaxAhead <= Slack, NEW k \in Keys
    PROVE  MaxLag \in Nat /\ MaxLag + early[k] <= Slack
<1>1. early[k] \in 0 .. MaxAhead /\ MaxLag \in Nat /\ MaxAhead \in Nat /\ Slack \in Nat
  BY Limits, TimeUnits DEF TypeOK
<1> QED
  BY <1>1, SMT

(***************************************************************************)
(* "an absent key is treated as a full bucket, so this loses no state" is  *)
(* true for every capacity and rate as long as lag and clock error stay    *)
(* within the slack that the script adds to the time to live.              *)
(***************************************************************************)
THEOREM ExpiryIsLossless ==
    ASSUME MaxLag + MaxAhead <= Slack
    PROVE  Spec => ExpiryLosesNothing
<1>1. Init => FullAtExpiry
  BY DEF Init, Cold, FullAtExpiry
<1>2. TypeOK /\ FullAtExpiry /\ [Next]_vars => FullAtExpiry'
  BY FullAtExpiryStep
<1>3. TypeOK /\ FullAtExpiry /\ [Next]_vars =>
        [\A k \in Keys : bucket[k].live /\ ~bucket'[k].live =>
          bucket[k].tokens + RefillOf(k) * (clock' - MaxLag - bucket[k].ts) >= FullOf(k)]_vars
  BY ExpiryStep, LeadBounded
<1> QED
  BY <1>1, <1>2, <1>3, TypeCorrect, PTL DEF Spec, ExpiryLosesNothing

-----------------------------------------------------------------------------
(* How far the grants exceed the configured rate.                          *)

(***************************************************************************)
(* What bucket k would hold if its capacity were larger by what accrues    *)
(* in lag: a script that runs late stores a bucket that was full when its  *)
(* clock was read, and the time since then is added to it later.           *)
(***************************************************************************)
Stretched(k, lag) == FullOf(k) + RefillOf(k) * lag

Earned(k, lag) ==
    IF bucket[k].live
    THEN bucket[k].tokens + RefillOf(k) * (clock - bucket[k].ts)
    ELSE Stretched(k, lag)

\* The stored bucket is ahead of the ideal one by at most what accrues in lag, and
\* in the time by which its timestamp was moved back.
DriftWithin(k, lag) ==
    Smaller(Stretched(k, lag), Earned(k, lag)) <= credit[k] + RefillOf(k) * (lag + regress[k])

(***************************************************************************)
(* The inductive invariant behind the bounds on admission: no bucket is    *)
(* further ahead than the latest script on it explains, as long as the key *)
(* outlives what late scripts add.  BoundedOverAdmission alone is not      *)
(* inductive, since it says nothing of the stored bucket.                  *)
(***************************************************************************)
DriftBounded ==
    \A k \in Keys : late[k] + early[k] <= Slack => DriftWithin(k, late[k])

\* A drift that is within some lag is within a larger one.
LEMMA DriftGrows ==
    ASSUME TypeOK, NEW k \in Keys, NEW lag \in Nat, NEW more \in Nat, lag <= more,
           DriftWithin(k, lag)
    PROVE  DriftWithin(k, more)
<1> DEFINE rate == RefillOf(k)
           f == FullOf(k)
           g == rate * regress[k]
           l == rate * lag
           m == rate * more
           stored == bucket[k].tokens + rate * (clock - bucket[k].ts)
<1>1. /\ rate \in Nat /\ f \in Nat /\ credit[k] \in Int /\ regress[k] \in Nat
      /\ clock \in Int /\ bucket[k].tokens \in Int /\ bucket[k].ts \in Int
  BY KeyLimits, SMT DEF TypeOK, Hash
<1>2. g \in Nat /\ l \in Nat /\ m \in Nat /\ l <= m /\ stored \in Int
  <2>1. \A x \in Int : rate * x \in Int
    BY <1>1, SMT
  <2>2. clock - bucket[k].ts \in Int
    BY <1>1, SMT
  <2>3. rate * (clock - bucket[k].ts) \in Int
    BY <2>1, <2>2
  <2>4. g \in Nat /\ l \in Nat /\ m \in Nat /\ l <= m
    BY <1>1, Product
  <2> HIDE DEF rate
  <2> QED
    BY <1>1, <2>3, <2>4, SMT
<1>3. rate * (lag + regress[k]) = l + g /\ rate * (more + regress[k]) = m + g
  BY <1>1, Distribute
<1>4. /\ Stretched(k, lag) = f + l /\ Stretched(k, more) = f + m
      /\ Earned(k, lag) = IF bucket[k].live THEN stored ELSE f + l
      /\ Earned(k, more) = IF bucket[k].live THEN stored ELSE f + m
  BY DEF Stretched, Earned
<1>5. Smaller(Stretched(k, lag), Earned(k, lag)) <= credit[k] + (l + g)
  BY <1>3 DEF DriftWithin
<1> HIDE DEF rate, f, g, l, m, stored
<1>6. Smaller(Stretched(k, more), Earned(k, more)) <= credit[k] + (m + g)
  BY <1>1, <1>2, <1>4, <1>5, SMT DEF Smaller
<1> QED
  BY <1>3, <1>6 DEF DriftWithin, rate

\* One script keeps the drift of the bucket it runs on within its own lag.
LEMMA DriftScript ==
    ASSUME TypeOK, NEW r \in Requests, RunScript(r),
           NEW k, k = KeyOf[r],
           NEW allowed \in Nat, clock - now_ms[r] <= allowed,
           DriftWithin(k, allowed)
    PROVE  DriftWithin(k, allowed)'
<1> USE DEF DriftWithin
<1> DEFINE f == FullOf(k)
           rate == RefillOf(k)
           h == bucket[k]
           now == now_ms[r]
           found == TokensFor(r)
           tok == IF Granted(r) THEN Token ELSE 0
           lag == clock - now
           l == rate * allowed
           g == rate * regress[k]
           d == rate * lag
<1>1. /\ k \in Keys /\ f \in Nat /\ rate \in Nat /\ found \in 0 .. f /\ tok \in Nat
      /\ f = CapacityOf(k) * Token
  BY TokensForType, KeyLimits, SMT
<1>2. /\ clock \in Nat /\ now \in Nat /\ allowed \in Nat /\ lag <= allowed
      /\ lag \in Int
      /\ regress[k] \in Nat /\ credit[k] \in Int /\ h \in Hash
      /\ h.tokens \in Int /\ h.ts \in Int
      /\ h.live => h.tokens <= f
  BY <1>1, SMT DEF TypeOK, Hash
<1>3. /\ bucket'[k].live
      /\ bucket'[k].tokens = found - tok
      /\ bucket'[k].ts = now
      /\ clock' = clock
      /\ credit'[k] = credit[k] - tok
      /\ regress'[k] = regress[k] + (IF h.live THEN Larger(0, h.ts - now) ELSE 0)
  BY <1>1, <1>2, SMT DEF RunScript, HashAfter, TypeOK
<1>4. /\ l \in Nat /\ g \in Nat /\ d \in Int /\ d <= l
      /\ rate * (allowed + regress[k]) = l + g
      /\ \A x \in Int : rate * x \in Int
  <2>1. \A x \in Int : rate * x \in Int
    BY <1>1, SMT
  <2>2. l \in Nat /\ d <= l
    BY <1>1, <1>2, Product
  <2>3. g \in Nat
    BY <1>1, <1>2, Product
  <2> QED
    BY <1>1, <1>2, <2>1, <2>2, <2>3, Distribute
<1>5. Stretched(k, allowed) = f + l /\ Stretched(k, allowed)' = f + l
  BY DEF Stretched
<1>6. Earned(k, allowed)' = found - tok + d
  BY <1>3 DEF Earned
<1>7. CASE ~h.live
  <2>1. found = f
    BY <1>1, <1>7 DEF TokensFor, Refilled
  <2>2. regress'[k] = regress[k]
    BY <1>2, <1>3, <1>7, SMT
  <2>3. f + l <= credit[k] + l + g
    <3>1. Earned(k, allowed) = f + l
      BY <1>5, <1>7 DEF Earned
    <3> HIDE DEF f, l, g, rate
    <3> QED
      BY <1>1, <1>2, <1>4, <1>5, <3>1, SMT DEF Smaller, rate
  <2> HIDE DEF f, l, g, d, found, tok, lag, now, h
  <2>4. Smaller(f + l, found - tok + d) <= credit[k] - tok + l + g
    BY <1>1, <1>2, <1>4, <2>1, <2>3, SMT DEF Smaller
  <2> QED
    BY <1>1, <1>2, <1>3, <1>4, <1>5, <1>6, <2>2, <2>4, SMT
<1>8. CASE h.live
  <2> DEFINE step == now - h.ts
             b == rate * step
  <2>1. step \in Int /\ b \in Int
    BY <1>2, <1>4, SMT
  <2>2. Earned(k, allowed) = h.tokens + b + d
    <3>1. clock - h.ts = step + lag
      BY <1>2, SMT
    <3>2. rate * (step + lag) = b + d
      BY <1>1, <1>2, <2>1, Distribute
    <3>3. Earned(k, allowed) = h.tokens + rate * (step + lag)
      BY <1>8, <3>1 DEF Earned
    <3> HIDE DEF b, d, rate, h, step, lag
    <3> QED
      BY <1>2, <1>4, <2>1, <3>2, <3>3, SMT
  <2>3. Smaller(f + l, h.tokens + b + d) <= credit[k] + l + g
    <3> HIDE DEF b, d, rate, h, step, lag, f, l, g
    <3> QED
      BY <1>2, <1>4, <1>5, <2>2, SMT DEF rate
  <2>4. found = Smaller(f, h.tokens + Elapsed(h, now) * rate)
    BY <1>1, <1>8 DEF TokensFor, Refilled
  <2>5. CASE step >= 0
    <3>1. Elapsed(h, now) = step /\ regress'[k] = regress[k]
      BY <1>2, <1>3, <1>8, <2>5, SMT DEF Elapsed, Larger
    <3>2. step * rate = b /\ b >= 0
      BY <1>1, <2>1, <2>5, Product, SMT
    <3>3. found = Smaller(f, h.tokens + b)
      BY <2>4, <3>1, <3>2
    <3> HIDE DEF b, d, rate, h, step, lag, f, l, g, found, tok, now
    <3>4. Smaller(f + l, found - tok + d) <= credit[k] - tok + l + g
      BY <1>1, <1>2, <1>4, <1>8, <2>1, <2>3, <3>2, <3>3, SMT DEF Smaller
    <3> QED
      BY <1>1, <1>2, <1>3, <1>4, <1>5, <1>6, <3>1, <3>4, SMT DEF rate
  <2>6. CASE step < 0
    <3>1. Elapsed(h, now) = 0 /\ regress'[k] = regress[k] - step
      BY <1>2, <1>3, <1>8, <2>6, SMT DEF Elapsed, Larger
    <3>2. b <= 0
      <4>1. rate * step <= rate * 0
        BY <1>1, <2>1, <2>6, Product, SMT
      <4> QED
        BY <1>1, <4>1, SMT
    <3>3. found = h.tokens
      <4>1. found = Smaller(f, h.tokens)
        <5>1. 0 * rate = 0 /\ h.tokens + 0 = h.tokens
          BY <1>1, <1>2, SMT
        <5> QED
          BY <2>4, <3>1, <5>1
      <4>2. h.tokens \in Int /\ f \in Int /\ h.tokens <= f
        BY <1>1, <1>2, <1>8, SMT
      <4> HIDE DEF f, h, found, b, d, l, g, rate, step, lag
      <4> QED
        BY <4>1, <4>2, SMT DEF Smaller
    <3>4. rate * (allowed + regress'[k]) = l + g - b
      <4>1. rate * (regress[k] - step) = g - b
        BY <1>1, <1>2, <2>1, Distribute
      <4>2. rate * (allowed + (regress[k] - step)) = l + rate * (regress[k] - step)
        BY <1>1, <1>2, <2>1, Distribute
      <4> HIDE DEF b, d, rate, h, step, lag, f, l, g
      <4> QED
        BY <1>2, <1>4, <2>1, <3>1, <4>1, <4>2, SMT DEF l
    <3> HIDE DEF b, d, rate, h, step, lag, f, l, g, found, tok, now
    <3>5. Smaller(f + l, found - tok + d) <= credit[k] - tok + l + g - b
      BY <1>1, <1>2, <1>4, <1>8, <2>1, <2>3, <3>2, <3>3, SMT DEF Smaller
    <3> QED
      BY <1>1, <1>2, <1>3, <1>4, <1>5, <1>6, <2>1, <3>4, <3>5, SMT DEF rate
  <2> QED
    BY <2>1, <2>5, <2>6, SMT
<1> QED
  BY <1>7, <1>8, <1>2

\* A tick keeps the drift of a bucket.
LEMMA DriftTick ==
    ASSUME TypeOK, FullAtExpiry, Tick, NEW k \in Keys,
           NEW lag \in Nat, lag + early[k] <= Slack,
           DriftWithin(k, lag)
    PROVE  DriftWithin(k, lag)'
<1> DEFINE f == FullOf(k)
           rate == RefillOf(k)
           h == bucket[k]
           s == Stretched(k, lag)
           head == rate * (lag + regress[k])
           accrued == rate * (clock - h.ts)
<1>1. /\ f \in Nat /\ rate \in Nat /\ credit[k] \in Int
      /\ clock \in Nat /\ regress[k] \in Nat
      /\ h \in Hash /\ h.tokens \in Int /\ h.ts \in Int
  BY KeyLimits, SMT DEF TypeOK, Hash
<1>2. /\ credit'[k] = Smaller(f, credit[k] + rate)
      /\ regress'[k] = regress[k]
      /\ clock' = clock + 1
      /\ Stretched(k, lag)' = s
  BY DEF Tick, Stretched
<1>3. /\ s = f + rate * lag /\ s \in Nat /\ f <= s
      /\ head = rate * lag + rate * regress[k] /\ head \in Nat
      /\ s <= f + head
  <2>1. rate * lag \in Nat /\ rate * regress[k] \in Nat
    BY <1>1, Product
  <2>2. head = rate * lag + rate * regress[k]
    BY <1>1, Distribute
  <2> HIDE DEF rate, head
  <2> QED
    BY <1>1, <2>1, <2>2, SMT DEF Stretched, rate
<1>4. Smaller(s, Earned(k, lag)) <= credit[k] + head
  BY DEF DriftWithin
<1>5. accrued \in Int /\ rate * (clock' - h.ts) = accrued + rate
  <2>1. clock' - h.ts = (clock - h.ts) + 1 /\ clock - h.ts \in Int
    BY <1>1, <1>2, SMT
  <2>2. rate * ((clock - h.ts) + 1) = accrued + rate * 1 /\ accrued \in Int
    BY <1>1, <2>1, Distribute
  <2>3. rate * 1 = rate
    BY <1>1, SMT
  <2> QED
    BY <1>2, <2>1, <2>2, <2>3, Zenon
<1> SUFFICES (Smaller(Stretched(k, lag), Earned(k, lag))
                <= credit[k] + RefillOf(k) * (lag + regress[k]))'
  BY DEF DriftWithin
<1>6. CASE bucket'[k].live
  <2>1. bucket'[k] = h /\ h.live
    BY <1>6 DEF Tick, Cold
  <2>2. Earned(k, lag) = h.tokens + accrued /\ Earned(k, lag)' = h.tokens + (accrued + rate)
    <3>1. Earned(k, lag) = h.tokens + accrued
      BY <2>1 DEF Earned
    <3>2. Earned(k, lag)' = h.tokens + rate * (clock' - h.ts)
      BY <1>6, <2>1 DEF Earned
    <3> HIDE DEF accrued, rate, h
    <3> QED
      BY <1>5, <3>1, <3>2, Zenon
  <2> HIDE DEF f, rate, h, s, head, accrued
  <2> QED
    BY <1>1, <1>2, <1>3, <1>4, <1>5, <2>2, SMT DEF Smaller, rate, head
<1>7. CASE ~bucket'[k].live
  <2>1. Earned(k, lag)' = s
    BY <1>2, <1>7 DEF Earned
  <2>2. s <= credit[k] + rate + head
    <3>1. CASE ~h.live
      <4>1. Earned(k, lag) = s
        BY <3>1 DEF Earned
      <4> HIDE DEF f, rate, h, s, head, accrued
      <4> QED
        BY <1>1, <1>3, <1>4, <4>1, SMT DEF Smaller
    <3>2. CASE h.live
      <4>1. Earned(k, lag) = h.tokens + accrued
        BY <3>2 DEF Earned
      <4>2. h.tokens + rate * (clock' - lag - h.ts) >= f
        BY <1>7, <3>2, ExpiryStep DEF Next
      <4>3. rate * (clock' - lag - h.ts) = (accrued + rate) - rate * lag
        <5>1. clock' - lag - h.ts = (clock' - h.ts) - lag /\ clock' - h.ts \in Int
          BY <1>1, <1>2, SMT
        <5>2. rate * ((clock' - h.ts) - lag) = rate * (clock' - h.ts) - rate * lag
          BY <1>1, <5>1, Distribute
        <5> HIDE DEF accrued, rate, h
        <5> QED
          BY <1>5, <5>1, <5>2
      <4>4. rate * lag \in Nat
        BY <1>1, Product
      <4> HIDE DEF f, rate, h, s, head, accrued
      <4> QED
        BY <1>1, <1>3, <1>4, <1>5, <4>1, <4>2, <4>3, <4>4, SMT DEF Smaller
    <3> QED
      BY <3>1, <3>2
  <2> HIDE DEF f, rate, h, s, head, accrued
  <2> QED
    BY <1>1, <1>2, <1>3, <2>1, <2>2, SMT DEF Smaller, rate, head
<1> QED
  BY <1>6, <1>7

\* A script makes no bucket more punctual, and its own not more than itself.
LEMMA ScriptStrays ==
    ASSUME TypeOK, NEW r \in Requests, RunScript(r), NEW k \in Keys
    PROVE  /\ late[k] \in Nat /\ late'[k] \in Nat /\ early[k] \in Nat /\ early'[k] \in Nat
           /\ late[k] <= late'[k] /\ early[k] <= early'[k]
           /\ k = KeyOf[r] => clock - now_ms[r] <= late'[k] /\ now_ms[r] - clock <= early'[k]
           /\ clock \in Nat /\ now_ms[r] \in Nat
<1>1. /\ late[k] \in Nat /\ early[k] \in Nat /\ clock \in Nat /\ now_ms[r] \in Nat
      /\ KeyOf[r] \in Keys
  BY Limits, SMT DEF TypeOK
<1>2. /\ late'[k] = IF k = KeyOf[r] THEN Larger(late[k], clock - now_ms[r]) ELSE late[k]
      /\ early'[k] = IF k = KeyOf[r] THEN Larger(early[k], now_ms[r] - clock) ELSE early[k]
  BY DEF RunScript, TypeOK
<1> QED
  BY <1>1, <1>2, SMT DEF Larger

\* Every step keeps DriftBounded.
LEMMA DriftStep ==
    ASSUME TypeOK, FullAtExpiry, DriftBounded, [Next]_vars
    PROVE  DriftBounded'
<1> SUFFICES ASSUME NEW k \in Keys, late'[k] + early'[k] <= Slack
             PROVE  DriftWithin(k, late[k])'
  BY DEF DriftBounded
<1>1. CASE Tick
  <2>1. late' = late /\ early' = early
    BY <1>1 DEF Tick
  <2>2. PICK lag \in Nat : lag = late[k]
    BY DEF TypeOK
  <2>3. DriftWithin(k, lag) /\ lag + early[k] <= Slack
    BY <2>1, <2>2 DEF DriftBounded
  <2>4. DriftWithin(k, lag)'
    BY <1>1, <2>3, DriftTick
  <2> QED
    BY <2>1, <2>2, <2>4 DEF DriftWithin, Stretched, Earned
<1>2. ASSUME NEW r \in Requests, RunScript(r) PROVE DriftWithin(k, late[k])'
  <2>1. PICK lag \in Nat : lag = late[k]
    BY DEF TypeOK
  <2>2. PICK more \in Nat : more = late'[k]
    BY <1>2, ScriptStrays
  <2>3. late[k] + early[k] <= Slack /\ lag <= more
    BY <1>2, <2>1, <2>2, ScriptStrays, TimeUnits, SMT
  <2>4. DriftWithin(k, lag)
    BY <2>1, <2>3 DEF DriftBounded
  <2>5. DriftWithin(k, more)
    BY <2>3, <2>4, DriftGrows
  <2>6. CASE k = KeyOf[r]
    <3>1. clock - now_ms[r] <= more
      BY <1>2, <2>2, <2>6, ScriptStrays
    <3>2. DriftWithin(k, more)'
      BY <1>2, <2>5, <2>6, <3>1, DriftScript
    <3> QED
      BY <2>2, <3>2 DEF DriftWithin, Stretched, Earned
  <2>7. CASE k # KeyOf[r]
    <3>1. /\ bucket'[k] = bucket[k] /\ credit'[k] = credit[k]
          /\ regress'[k] = regress[k] /\ clock' = clock
      BY <1>2, <2>7 DEF RunScript, TypeOK
    <3> QED
      BY <2>2, <2>5, <3>1 DEF DriftWithin, Earned, Stretched
  <2> QED
    BY <2>6, <2>7
<1>3. CASE UNCHANGED <<clock, bucket, credit, regress, late, early>>
  BY <1>3 DEF DriftBounded, DriftWithin, Earned, Stretched
<1>4. \/ Tick \/ \E r \in Requests : RunScript(r)
      \/ UNCHANGED <<clock, bucket, credit, regress, late, early>>
  BY DEF Next, vars, store, history, RedisStop, RedisStart, Check, Allow, Reject,
         LoseReply, FailOpen, Finish
<1> QED
  BY <1>1, <1>2, <1>3, <1>4

\* Nothing has drifted in a cold store.
LEMMA DriftInit == Init => DriftBounded
<1> SUFFICES ASSUME Init, NEW k \in Keys PROVE DriftWithin(k, late[k])
  BY DEF DriftBounded
<1>1. /\ Earned(k, 0) = Stretched(k, 0) /\ credit[k] = FullOf(k)
      /\ regress[k] = 0 /\ late[k] = 0
  BY DEF Init, Earned, Cold
<1>2. FullOf(k) \in Nat /\ RefillOf(k) * 0 = 0
  BY KeyLimits, SMT
<1>3. RefillOf(k) * (0 + 0) = 0
  BY KeyLimits, SMT
<1> QED
  BY <1>1, <1>2, <1>3, SMT DEF Smaller, Stretched, DriftWithin

\* A stored bucket that has not drifted too far bounds the ideal one.
LEMMA DriftBoundsAdmission == TypeOK /\ DriftBounded => BoundedOverAdmission
<1> SUFFICES ASSUME TypeOK, DriftBounded, NEW k \in Keys, late[k] + early[k] <= Slack
             PROVE  credit[k] + RefillOf(k) * (regress[k] + late[k] + early[k]) >= 0
  BY DEF BoundedOverAdmission
<1> DEFINE rate == RefillOf(k)
           ahead == rate * early[k]
           behind == rate * late[k]
           head == rate * (late[k] + regress[k])
           full == Stretched(k, late[k])
           earned == Earned(k, late[k])
<1>1. /\ FullOf(k) \in Nat /\ rate \in Nat /\ credit[k] \in Int
      /\ clock \in Nat /\ late[k] \in Nat /\ early[k] \in Nat /\ regress[k] \in Nat
      /\ bucket[k] \in Hash /\ bucket[k].tokens \in Int /\ bucket[k].ts \in Int
  BY KeyLimits, SMT DEF TypeOK, Hash
<1>2. /\ ahead \in Nat /\ behind \in Nat /\ head \in Int
      /\ rate * (regress[k] + late[k] + early[k]) = head + ahead
  <2>1. late[k] + regress[k] \in Int
        /\ regress[k] + late[k] + early[k] = (late[k] + regress[k]) + early[k]
    BY <1>1, SMT
  <2> QED
    BY <1>1, <2>1, Distribute, Product
<1>3. full \in Nat
  <2> HIDE DEF behind, rate
  <2>1. full = FullOf(k) + behind
    BY DEF Stretched, behind, rate
  <2> QED
    BY <1>1, <1>2, <2>1, SMT
<1>4. earned \in Int /\ earned >= 0 - ahead
  <2>1. CASE ~bucket[k].live
    <3>1. earned = full
      BY <2>1 DEF Earned
    <3> HIDE DEF earned, full, ahead
    <3> QED
      BY <1>2, <1>3, <3>1, SMT
  <2>2. CASE bucket[k].live
    <3> DEFINE old == clock - bucket[k].ts
    <3>1. bucket[k].tokens >= 0 /\ old \in Int /\ 0 - early[k] <= old
      BY <1>1, <2>2, SMT DEF TypeOK
    <3>2. rate * (0 - early[k]) <= rate * old /\ rate * old \in Int
      BY <1>1, <3>1, Product, Distribute, SMT
    <3>3. rate * (0 - early[k]) = 0 - ahead
      BY <1>1, SMT
    <3>4. earned = bucket[k].tokens + rate * old
      BY <2>2 DEF Earned
    <3> HIDE DEF old, rate, ahead, earned
    <3> QED
      BY <1>1, <1>2, <3>1, <3>2, <3>3, <3>4, SMT
  <2> QED
    BY <2>1, <2>2
<1>5. Smaller(full, earned) <= credit[k] + head
  BY DEF DriftBounded, DriftWithin
<1> HIDE DEF rate, ahead, behind, head, full, earned
<1> QED
  BY <1>1, <1>2, <1>3, <1>4, <1>5, SMT DEF Smaller, rate

(***************************************************************************)
(* For every capacity and rate, however late or early scripts run and in   *)
(* whatever order, the grants exceed burst and rate by no more than what   *)
(* accrues in the time by which ts was moved back, and in the worst delay  *)
(* and the worst lead once.                                                *)
(***************************************************************************)
THEOREM OverAdmissionIsBounded == Spec => []BoundedOverAdmission
<1>1. Init => FullAtExpiry /\ DriftBounded
  BY DriftInit DEF Init, Cold, FullAtExpiry
<1>2. TypeOK /\ FullAtExpiry /\ DriftBounded /\ [Next]_vars => FullAtExpiry' /\ DriftBounded'
  BY FullAtExpiryStep, DriftStep
<1> QED
  BY <1>1, <1>2, TypeCorrect, DriftBoundsAdmission, PTL DEF Spec

-----------------------------------------------------------------------------
(* Until a script runs late or early, the limiter is exact.                *)

\* A punctual script finds a bucket on which all have been, and knows the time.
LEMMA PunctualScript ==
    ASSUME TypeOK, NEW r \in Requests, RunScript(r), Punctual(KeyOf[r])'
    PROVE  Punctual(KeyOf[r]) /\ now_ms[r] = clock
<1>1. KeyOf[r] \in Keys
  BY Limits
<1>2. late'[KeyOf[r]] = 0 /\ early'[KeyOf[r]] = 0
  BY DEF Punctual
<1> QED
  BY <1>1, <1>2, ScriptStrays, SMT DEF Punctual

\* While scripts on a bucket are punctual, its timestamp is never moved back.
NoRegress == \A k \in Keys : Punctual(k) => regress[k] = 0

\* A step that moves a timestamp back is a script that is not punctual, or follows one.
LEMMA NoRegressStep ==
    ASSUME TypeOK, NoRegress, [Next]_vars
    PROVE  NoRegress'
<1>1. ASSUME NEW r \in Requests, RunScript(r), NEW k \in Keys, Punctual(k)'
      PROVE  regress'[k] = 0
  <2>1. /\ regress' = [regress EXCEPT ![KeyOf[r]] =
                         @ + (IF bucket[KeyOf[r]].live
                              THEN Larger(0, bucket[KeyOf[r]].ts - now_ms[r]) ELSE 0)]
        /\ regress \in [Keys -> Nat]
    BY <1>1 DEF RunScript, TypeOK
  <2>2. CASE k = KeyOf[r]
    <3>1. Punctual(k) /\ now_ms[r] = clock /\ regress[k] = 0
      BY <1>1, <2>2, PunctualScript DEF NoRegress
    <3>2. bucket[k].live => Larger(0, bucket[k].ts - now_ms[r]) = 0
      <4>1. /\ clock \in Int /\ bucket[k].ts \in Int /\ early[k] = 0
            /\ bucket[k].live => bucket[k].ts <= clock + early[k]
        BY <3>1, SMT DEF TypeOK, Hash, Punctual
      <4> QED
        BY <3>1, <4>1, SMT DEF Larger
    <3> QED
      BY <2>1, <2>2, <3>1, <3>2, SMT
  <2>3. CASE k # KeyOf[r]
    <3>1. Punctual(k)
      BY <1>1, <2>3 DEF Punctual, RunScript, TypeOK
    <3> QED
      BY <2>1, <2>3, <3>1 DEF NoRegress
  <2> QED
    BY <2>2, <2>3
<1>2. (\E r \in Requests : RunScript(r)) \/ UNCHANGED <<regress, late, early>>
  BY DEF Next, vars, store, history, Tick, RedisStop, RedisStart, Check, Allow, Reject,
         LoseReply, FailOpen, Finish
<1> QED
  BY <1>1, <1>2 DEF NoRegress, Punctual

\* A bound that has nothing to allow for is the ideal one.
LEMMA ExactBound ==
    ASSUME TypeOK, NoRegress, BoundedOverAdmission
    PROVE  AdmissionBound
<1> SUFFICES ASSUME NEW k \in Keys, Punctual(k) PROVE credit[k] >= 0
  BY DEF AdmissionBound
<1>1. late[k] = 0 /\ early[k] = 0 /\ regress[k] = 0
  BY DEF Punctual, NoRegress
<1>2. credit[k] + RefillOf(k) * (regress[k] + late[k] + early[k]) >= 0
  BY <1>1, TimeUnits, SMT DEF BoundedOverAdmission
<1>3. regress[k] + late[k] + early[k] = 0
  BY <1>1, SMT
<1>4. RefillOf(k) * 0 = 0 /\ credit[k] \in Int
  BY KeyLimits, SMT DEF TypeOK
<1> QED
  BY <1>2, <1>3, <1>4, SMT

(***************************************************************************)
(* Until a script on its bucket runs late or early, no client is granted   *)
(* more than its burst and its sustained rate, for every capacity, rate,   *)
(* delay and number of requests in flight, whatever happens to the buckets *)
(* of others, and however Redis stops, restarts and loses replies.         *)
(***************************************************************************)
THEOREM AdmissionIsBounded == Spec => []AdmissionBound
<1>1. Init => NoRegress
  BY DEF Init, NoRegress
<1>2. TypeOK /\ NoRegress /\ [Next]_vars => NoRegress'
  BY NoRegressStep
<1>3. TypeOK /\ NoRegress /\ BoundedOverAdmission => AdmissionBound
  BY ExactBound
<1> QED
  BY <1>1, <1>2, <1>3, OverAdmissionIsBounded, TypeCorrect, PTL DEF Spec

-----------------------------------------------------------------------------
(* A client that waits for its Retry-After finds a token.                  *)

(***************************************************************************)
(* Every promise that stands is kept by the hash as it is stored: at the   *)
(* promised moment its tokens and what has accrued since ts make a token.  *)
(***************************************************************************)
PromiseKept ==
    \A k \in Keys : promise[k] # NoPromise /\ bucket[k].live =>
        bucket[k].tokens + RefillOf(k) * (promise[k] - bucket[k].ts) >= Token

\* A script that grants nothing keeps the promise it found standing.
LEMMA OldPromiseKept ==
    ASSUME TypeOK, PromiseKept, NEW r \in Requests, RunScript(r), ~Granted(r),
           NEW k, k = KeyOf[r], promise[k] # NoPromise
    PROVE  TokensFor(r) + RefillOf(k) * (promise[k] - now_ms[r]) >= Token
<1> DEFINE rate == RefillOf(k)
           h == bucket[k]
           found == TokensFor(r)
           step == now_ms[r] - h.ts
           b == rate * step
           left == promise[k] - now_ms[r]
           whole == promise[k] - h.ts
<1>1. /\ k \in Keys /\ rate \in Nat /\ FullOf(k) \in Nat /\ Token <= FullOf(k)
      /\ Token \in Nat /\ found \in Nat /\ found < Token
      /\ FullOf(k) = CapacityOf(k) * Token
  BY TokensForType, KeyLimits, SMT DEF Granted
<1>2. h.live
  <2>1. ~h.live => found = FullOf(k)
    BY <1>1 DEF TokensFor, Refilled
  <2> QED
    BY <1>1, <2>1, SMT
<1>3. /\ promise[k] \in Int /\ now_ms[r] \in Nat
      /\ h \in Hash /\ h.tokens \in Nat /\ h.ts \in Int /\ h.tokens <= FullOf(k)
      /\ step \in Int /\ left \in Int /\ whole \in Int /\ whole = left + step
  BY <1>1, <1>2, SMT DEF TypeOK, Hash, NoPromise
<1>4. /\ h.tokens + rate * whole >= Token
      /\ rate * whole = rate * left + b /\ b \in Int /\ rate * left \in Int
  <2>1. h.tokens + rate * whole >= Token
    BY <1>1, <1>2 DEF PromiseKept
  <2>2. rate * (left + step) = rate * left + rate * step
        /\ rate * left \in Int /\ rate * step \in Int
    BY <1>1, <1>3, Distribute
  <2> HIDE DEF whole, left, step, rate
  <2> QED
    BY <1>3, <2>1, <2>2 DEF b
<1>5. found = Smaller(FullOf(k), h.tokens + Elapsed(h, now_ms[r]) * rate)
  BY <1>1, <1>2 DEF TokensFor, Refilled
<1>6. CASE step >= 0
  <2>1. Elapsed(h, now_ms[r]) = step
    BY <1>3, <1>6, SMT DEF Elapsed, Larger
  <2>2. step * rate = b
    BY <1>1, <1>3, SMT
  <2>3. found = Smaller(FullOf(k), h.tokens + b)
    BY <1>5, <2>1, <2>2
  <2> HIDE DEF whole, left, step, rate, b, h, found
  <2> QED
    BY <1>1, <1>3, <1>4, <2>3, SMT DEF Smaller, left, rate, found
<1>7. CASE step < 0
  <2>1. Elapsed(h, now_ms[r]) = 0
    BY <1>3, <1>7, SMT DEF Elapsed, Larger
  <2>2. 0 * rate = 0
    BY <1>1, SMT
  <2>3. found = Smaller(FullOf(k), h.tokens + 0)
    BY <1>5, <2>1, <2>2
  <2>4. b <= 0
    <3>1. rate * step <= rate * 0 /\ rate * 0 = 0
      BY <1>1, <1>3, <1>7, Product, SMT
    <3> QED
      BY <3>1
  <2> HIDE DEF whole, left, step, rate, b, h, found
  <2> QED
    BY <1>1, <1>3, <1>4, <2>3, <2>4, SMT DEF Smaller, left, rate, found
<1> QED
  BY <1>3, <1>6, <1>7, SMT

\* A rejection promises a moment at which its own bucket holds a token.
LEMMA NewPromiseKept ==
    ASSUME TypeOK, NEW r \in Requests, verdict[r] = "awaiting", ~Granted(r), MaxAhead = 0
    PROVE  /\ RetryAt(r) \in Nat
           /\ TokensFor(r) + RefillOf(KeyOf[r]) * (RetryAt(r) - now_ms[r]) >= Token
<1> DEFINE rate == RefillOf(KeyOf[r])
           wait == Second * RetryAfterHeader(RetryAfterMs(TokensFor(r), rate))
           left == RetryAt(r) - now_ms[r]
<1>1. wait \in Nat /\ TokensFor(r) + rate * wait >= Token
  BY RetryCovers
<1>2. RetryAt(r) = clock + wait
  BY DEF RetryAt
<1>3. /\ rate \in Nat /\ TokensFor(r) \in Int /\ Token \in Int
      /\ clock \in Nat /\ now_ms[r] \in Nat /\ now_ms[r] <= clock
  BY TokensForType, KeyLimits, SMT DEF TypeOK
<1> HIDE DEF wait, rate
<1>4. RetryAt(r) \in Nat /\ left \in Int /\ wait <= left
  BY <1>1, <1>2, <1>3, SMT
<1> HIDE DEF left
<1>5. rate * wait <= rate * left /\ rate * wait \in Int /\ rate * left \in Int
  BY <1>1, <1>3, <1>4, Product, Distribute
<1>6. TokensFor(r) + rate * left >= Token
  BY <1>1, <1>3, <1>5, SMT
<1> QED
  BY <1>4, <1>6 DEF left, rate

\* Every step keeps the promises that stand.
LEMMA PromiseKeptStep ==
    ASSUME TypeOK, PromiseKept, [Next]_vars, MaxAhead = 0
    PROVE  PromiseKept'
<1> SUFFICES ASSUME NEW k \in Keys, promise'[k] # NoPromise, bucket'[k].live
             PROVE  bucket'[k].tokens + RefillOf(k) * (promise'[k] - bucket'[k].ts) >= Token
  BY DEF PromiseKept
<1>1. CASE promise'[k] = promise[k] /\ bucket'[k] = bucket[k]
  BY <1>1 DEF PromiseKept
<1>2. CASE Tick
  BY <1>1, <1>2 DEF Tick, Cold
<1>3. ASSUME NEW r \in Requests, RunScript(r), k = KeyOf[r], ~Granted(r)
      PROVE  /\ bucket'[k].tokens = TokensFor(r)
             /\ bucket'[k].ts = now_ms[r]
             /\ promise[k] # NoPromise =>
                  TokensFor(r) + RefillOf(k) * (promise[k] - now_ms[r]) >= Token
  BY <1>3, OldPromiseKept DEF RunScript, HashAfter, TypeOK
<1>4. ASSUME NEW r \in Requests, Allow(r) PROVE FALSE \/ k # KeyOf[r]
  BY <1>4 DEF Allow, TypeOK
<1>5. ASSUME NEW r \in Requests, Reject(r), k = KeyOf[r]
      PROVE  bucket'[k].tokens + RefillOf(k) * (promise'[k] - bucket'[k].ts) >= Token
  <2>1. promise'[k] = Sooner(promise[k], RetryAt(r)) /\ RunScript(r) /\ ~Granted(r)
    BY <1>5 DEF Reject, TypeOK
  <2>2. promise'[k] = RetryAt(r) \/ (promise'[k] = promise[k] /\ promise[k] # NoPromise)
    BY <2>1 DEF Sooner, Smaller
  <2>3. TokensFor(r) + RefillOf(k) * (RetryAt(r) - now_ms[r]) >= Token
    BY <1>5, <2>1, NewPromiseKept DEF RunScript
  <2> QED
    BY <1>3, <1>5, <2>1, <2>2, <2>3
<1>6. ASSUME NEW r \in Requests, LoseReply(r), k = KeyOf[r]
      PROVE  bucket'[k].tokens + RefillOf(k) * (promise'[k] - bucket'[k].ts) >= Token
  BY <1>3, <1>6 DEF LoseReply, TypeOK
<1>7. ASSUME NEW r \in Requests, Allow(r) \/ Reject(r) \/ LoseReply(r), k # KeyOf[r]
      PROVE  promise'[k] = promise[k] /\ bucket'[k] = bucket[k]
  BY <1>7 DEF Allow, Reject, LoseReply, RunScript, TypeOK
<1>8. \/ Tick \/ \E r \in Requests : Allow(r) \/ Reject(r) \/ LoseReply(r)
      \/ UNCHANGED <<bucket, promise>>
  BY DEF Next, vars, store, history, RedisStop, RedisStart, Check, FailOpen, Finish
<1> QED
  BY <1>1, <1>2, <1>4, <1>5, <1>6, <1>7, <1>8

\* A kept promise is a token in the bucket once its moment has come.
LEMMA KeptMeansHonoured == TypeOK /\ PromiseKept /\ MaxAhead = 0 => RetryAfterHonoured
<1> SUFFICES ASSUME TypeOK, PromiseKept, MaxAhead = 0,
                    NEW k \in Keys, promise[k] # NoPromise, clock >= promise[k]
             PROVE  Level(k) >= Token
  BY DEF RetryAfterHonoured
<1> DEFINE rate == RefillOf(k)
           h == bucket[k]
           left == promise[k] - h.ts
           old == clock - h.ts
<1>1. Token <= FullOf(k) /\ Token \in Nat /\ FullOf(k) \in Nat /\ rate \in Nat
  BY KeyLimits
<1>2. CASE ~h.live
  BY <1>1, <1>2 DEF Level
<1>3. CASE h.live
  <2>1. h.tokens \in Int /\ left \in Int /\ old \in Int /\ left <= old
    BY <1>3, SMT DEF TypeOK, Hash, NoPromise
  <2>2. h.tokens + rate * left >= Token
    BY <1>3 DEF PromiseKept
  <2>3. Level(k) = Smaller(FullOf(k), h.tokens + rate * old)
    BY <1>3 DEF Level
  <2> HIDE DEF rate, h, left, old
  <2>4. rate * left <= rate * old /\ rate * left \in Int /\ rate * old \in Int
    BY <1>1, <2>1, Product, Distribute
  <2> QED
    BY <1>1, <2>1, <2>2, <2>3, <2>4, SMT DEF Smaller
<1> QED
  BY <1>2, <1>3

(***************************************************************************)
(* "we never tell the client to retry before a token is available" is true *)
(* for every capacity and rate and any delay of the scripts, as long as no *)
(* process's clock is ahead of Redis's.                                    *)
(***************************************************************************)
THEOREM RetryAfterIsHonoured ==
    ASSUME MaxAhead = 0
    PROVE  Spec => []RetryAfterHonoured
<1>1. Init => PromiseKept
  BY DEF Init, PromiseKept
<1>2. TypeOK /\ PromiseKept /\ [Next]_vars => PromiseKept'
  BY PromiseKeptStep
<1>3. TypeOK /\ PromiseKept => RetryAfterHonoured
  BY KeptMeansHonoured
<1> QED
  BY <1>1, <1>2, <1>3, TypeCorrect, PTL DEF Spec

-----------------------------------------------------------------------------
(* Redis and its script implement the ideal bucket.                        *)

\* A script that is punctual, like those before it, finds what the bucket holds.
LEMMA ScriptFindsLevel ==
    ASSUME TypeOK, NEW r \in Requests, now_ms[r] = clock, Punctual(KeyOf[r])
    PROVE  TokensFor(r) = Level(KeyOf[r])
<1> DEFINE k == KeyOf[r]
           h == bucket[k]
<1>1. k \in Keys /\ FullOf(k) = CapacityOf(k) * Token /\ RefillOf(k) \in Int
  BY Limits, KeyLimits
<1>2. CASE ~h.live
  BY <1>1, <1>2 DEF TokensFor, Refilled, Level
<1>3. CASE h.live
  <2>1. /\ now_ms[r] = clock /\ clock \in Int /\ h.ts \in Int
        /\ clock - h.ts \in Int /\ clock - h.ts >= 0
    BY <1>1, <1>3, SMT DEF TypeOK, Hash, Punctual
  <2>2. Elapsed(h, now_ms[r]) = clock - h.ts
    BY <2>1, SMT DEF Elapsed, Larger
  <2>3. (clock - h.ts) * RefillOf(k) = RefillOf(k) * (clock - h.ts)
    BY <1>1, <2>1, SMT
  <2> QED
    BY <1>1, <1>3, <2>2, <2>3 DEF TokensFor, Refilled, Level
<1> QED
  BY <1>2, <1>3

\* What the script leaves in the bucket it ran on, and in the others.
LEMMA ScriptLevels ==
    ASSUME TypeOK, NEW r \in Requests, RunScript(r), Punctual(KeyOf[r])',
           NEW k \in Keys
    PROVE  Level(k)' = IF k = KeyOf[r] /\ Granted(r) THEN Level(k) - Token ELSE Level(k)
<1>1. /\ clock' = clock /\ now_ms[r] = clock /\ Punctual(KeyOf[r])
      /\ bucket \in [Keys -> Hash]
      /\ bucket' = [bucket EXCEPT ![KeyOf[r]] = HashAfter(r)]
  BY PunctualScript DEF RunScript, TypeOK
<1>2. CASE k # KeyOf[r]
  <2>1. bucket'[k] = bucket[k]
    BY <1>1, <1>2
  <2> QED
    BY <1>1, <1>2, <2>1 DEF Level
<1>3. CASE k = KeyOf[r]
  <2> DEFINE left == IF Granted(r) THEN TokensFor(r) - Token ELSE TokensFor(r)
  <2>1. /\ bucket'[k].live /\ bucket'[k].tokens = left /\ bucket'[k].ts = clock
        /\ clock \in Nat
    BY <1>1, <1>3, SMT DEF HashAfter, TypeOK
  <2>2. left \in Int /\ left <= FullOf(k) /\ FullOf(k) \in Int
    BY <1>3, TokensForType, KeyLimits, SMT
  <2>3. RefillOf(k) * (clock - clock) = 0
    BY <2>1, KeyLimits, SMT
  <2>4. Level(k)' = Smaller(FullOf(k), left + 0)
    BY <1>1, <2>1, <2>3 DEF Level
  <2>5. Level(k)' = left
    <3> HIDE DEF left
    <3> QED
      BY <2>2, <2>4, SMT DEF Smaller
  <2> QED
    BY <1>1, <1>3, <2>5, ScriptFindsLevel
<1> QED
  BY <1>2, <1>3

\* A millisecond refills every bucket, those whose key expires included.
LEMMA TickLevels ==
    ASSUME TypeOK, FullAtExpiry, Tick, NEW k \in Keys, Punctual(k)
    PROVE  Level(k)' = IF Level(k) + RefillOf(k) <= FullOf(k)
                       THEN Level(k) + RefillOf(k) ELSE FullOf(k)
<1> DEFINE f == FullOf(k)
           rate == RefillOf(k)
           h == bucket[k]
           accrued == rate * (clock - h.ts)
<1>1. /\ f \in Nat /\ rate \in Nat /\ clock \in Nat /\ clock' = clock + 1
      /\ h \in Hash /\ h.tokens \in Int /\ h.ts \in Int
  BY KeyLimits, SMT DEF TypeOK, Hash, Tick
<1>2. accrued \in Int /\ rate * (clock' - h.ts) = accrued + rate
  <2>1. clock' - h.ts = (clock - h.ts) + 1 /\ clock - h.ts \in Int
    BY <1>1, SMT
  <2>2. rate * ((clock - h.ts) + 1) = accrued + rate * 1 /\ accrued \in Int
    BY <1>1, <2>1, Distribute
  <2>3. rate * 1 = rate
    BY <1>1, SMT
  <2> QED
    BY <2>1, <2>2, <2>3, Zenon
<1>3. CASE ~h.live
  <2>2. Level(k) = f /\ Level(k)' = f
    <3>1. Level(k) = f
      BY <1>3 DEF Level
    <3>2. ~bucket'[k].live
      BY <1>3 DEF Tick, Cold
    <3> QED
      BY <3>1, <3>2 DEF Level
  <2> HIDE DEF f, rate, h
  <2> QED
    BY <1>1, <2>2, SMT DEF f, rate
<1>4. CASE h.live
  <2>1. Level(k) = Smaller(f, h.tokens + accrued)
    BY <1>4 DEF Level
  <2>2. CASE bucket'[k].live
    <3>1. bucket'[k] = h
      BY <2>2 DEF Tick, Cold
    <3>2. Level(k)' = Smaller(f, h.tokens + rate * (clock' - h.ts))
      BY <2>2, <3>1 DEF Level
    <3> HIDE DEF f, rate, h, accrued
    <3>3. Level(k)' = Smaller(f, h.tokens + (accrued + rate))
      BY <1>2, <3>2, Zenon
    <3> DEFINE shares == h.tokens + accrued
    <3>4. shares \in Int /\ h.tokens + (accrued + rate) = shares + rate
      BY <1>1, <1>2, SMT
    <3>5. Level(k)' = Smaller(f, shares + rate)
      BY <3>3, <3>4
    <3> HIDE DEF shares
    <3>6. Level(k) = Smaller(f, shares)
      BY <2>1 DEF shares
    <3>7. f \in Nat /\ rate \in Nat
      BY <1>1
    <3>8. Smaller(f, shares + rate) = IF Smaller(f, shares) + rate <= f
                                      THEN Smaller(f, shares) + rate ELSE f
      BY <3>4, <3>7, SMT DEF Smaller
    <3> QED
      BY <3>5, <3>6, <3>8 DEF f, rate
  <2>3. CASE ~bucket'[k].live
    <3>1. Level(k)' = f
      BY <2>3 DEF Level
    <3>2. h.tokens + rate * (clock' - 0 - h.ts) >= f
      <4>1. 0 + early[k] <= Slack
        BY TimeUnits, SMT DEF Punctual
      <4> QED
        BY <1>4, <2>3, <4>1, ExpiryStep DEF Next
    <3>3. clock' - 0 - h.ts = clock' - h.ts
      BY <1>1, SMT
    <3>4. h.tokens + rate * (clock' - h.ts) >= f
      BY <3>2, <3>3
    <3> HIDE DEF f, rate, h, accrued
    <3> QED
      BY <1>1, <1>2, <2>1, <3>1, <3>4, SMT DEF Smaller, f, rate
  <2> QED
    BY <2>2, <2>3
<1> QED
  BY <1>3, <1>4

\* The initial store maps to full buckets.
LEMMA IdealInit == Init => Ideal!Init
BY DEF Init, Ideal!Init, Level, Cold

\* A script that grants takes a token from the ideal bucket, and one that does
\* not leaves it.
LEMMA ScriptRefines ==
    ASSUME TypeOK, NEW r \in Requests, RunScript(r), Punctual(KeyOf[r])'
    PROVE  LET level == [k \in Keys |-> Level(k)]
           IN  /\ Granted(r) => /\ level[KeyOf[r]] >= Token
                                /\ level' = [level EXCEPT ![KeyOf[r]] = @ - Token]
               /\ ~Granted(r) => /\ level[KeyOf[r]] < Token
                                 /\ level' = level
<1> DEFINE level == [k \in Keys |-> Level(k)]
<1>1. KeyOf[r] \in Keys /\ TokensFor(r) = Level(KeyOf[r])
      /\ TokensFor(r) \in Int /\ Token \in Int
  BY TokensForType, PunctualScript, ScriptFindsLevel, KeyLimits, SMT
<1>2. level[KeyOf[r]] = TokensFor(r)
  BY <1>1
<1>3. \A k \in Keys : level'[k] = IF k = KeyOf[r] /\ Granted(r)
                                  THEN level[k] - Token ELSE level[k]
  BY ScriptLevels
<1>4. Granted(r) => level[KeyOf[r]] >= Token
  BY <1>2 DEF Granted
<1>5. ~Granted(r) => level[KeyOf[r]] < Token
  BY <1>1, <1>2, SMT DEF Granted
<1>6. level' = [k \in Keys |-> level'[k]]
  OBVIOUS
<1>7. Granted(r) => level' = [level EXCEPT ![KeyOf[r]] = @ - Token]
  BY <1>3, <1>6
<1>8. ~Granted(r) => level' = level
  BY <1>3, <1>6
<1> QED
  BY <1>4, <1>5, <1>7, <1>8

\* Every step of a punctual limiter is a step of the ideal bucket, or a stutter.
LEMMA IdealStep ==
    ASSUME TypeOK, FullAtExpiry, [Next]_vars, AllPunctual'
    PROVE  [Ideal!Next]_Ideal!vars
<1> DEFINE level == [k \in Keys |-> Level(k)]
<1> USE DEF Ideal!Next, Ideal!vars
<1>0. \A r \in Requests : Punctual(KeyOf[r])'
  BY Limits DEF AllPunctual
<1>1. CASE Tick
  <2>1. \A k \in Keys : Level(k)' = IF Level(k) + RefillOf(k) <= FullOf(k)
                                    THEN Level(k) + RefillOf(k) ELSE FullOf(k)
    BY <1>1, TickLevels DEF Tick, AllPunctual, Punctual
  <2>2. Ideal!Refill
    BY <1>1, <2>1 DEF Ideal!Refill, Tick, calls, FullOf, RefillOf
  <2> QED
    BY <2>2
<1>2. ASSUME NEW r \in Requests, Check(r) PROVE Ideal!Ask(r)
  BY <1>2 DEF Check, Ideal!Ask, store, history, Level
<1>3. ASSUME NEW r \in Requests, Allow(r) PROVE Ideal!Allow(r)
  BY <1>3, <1>0, ScriptRefines DEF Allow, RunScript, Ideal!Allow
<1>4. ASSUME NEW r \in Requests, Reject(r) PROVE Ideal!Reject(r)
  BY <1>4, <1>0, ScriptRefines DEF Reject, RunScript, Ideal!Reject
<1>5. ASSUME NEW r \in Requests, LoseReply(r) PROVE Ideal!FailOpen(r)
  BY <1>5, <1>0, ScriptRefines DEF LoseReply, RunScript, Ideal!FailOpen
<1>6. ASSUME NEW r \in Requests, FailOpen(r) PROVE Ideal!FailOpen(r)
  BY <1>6 DEF FailOpen, Ideal!FailOpen, store, history, Level
<1>7. ASSUME NEW r \in Requests, Finish(r) PROVE Ideal!Finish(r)
  BY <1>7 DEF Finish, Ideal!Finish, store, history, Level
<1>8. CASE RedisStop \/ RedisStart \/ UNCHANGED vars
  BY <1>8 DEF RedisStop, RedisStart, vars, calls, history, Level
<1> QED
  BY <1>1, <1>2, <1>3, <1>4, <1>5, <1>6, <1>7, <1>8 DEF Next

(***************************************************************************)
(* Until a script runs late or early, storing tokens and a timestamp,      *)
(* refilling on demand and letting idle keys expire cannot be told from a  *)
(* bucket that fills continuously and is never forgotten, for every        *)
(* capacity and rate, and whatever delays there may be.                    *)
(***************************************************************************)
THEOREM LimiterRefinesIdealBucket == Spec => RefinesIdealBucket
<1>1. Init => FullAtExpiry
  BY DEF Init, Cold, FullAtExpiry
<1>2. TypeOK /\ FullAtExpiry /\ [Next]_vars => FullAtExpiry'
  BY FullAtExpiryStep
<1>3. TypeOK /\ FullAtExpiry /\ [Next]_vars =>
        [AllPunctual' => [Ideal!Next]_Ideal!vars]_vars
  BY IdealStep
<1> QED
  BY <1>1, <1>2, <1>3, IdealInit, TypeCorrect, PTL DEF Spec, RefinesIdealBucket
=============================================================================
