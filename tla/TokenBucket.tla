---------------------------- MODULE TokenBucket ----------------------------
(***************************************************************************)
(* The arithmetic of one execution of the Lua script _LUA_TOKEN_BUCKET     *)
(* (app/core/rate_limiter.py), as operators on the Redis hash it reads.    *)
(*                                                                         *)
(* The script works in fractions of a token: refill_per_minute / 60000     *)
(* tokens accrue per millisecond.  Counting in shares of 1/Minute of a     *)
(* token makes every quantity of the script an integer: a token is Minute  *)
(* shares and a millisecond adds exactly refill_per_minute shares.  The    *)
(* rounding of Lua doubles is the one thing this leaves out.               *)
(***************************************************************************)
EXTENDS Integers

CONSTANTS
    Minute,  \* milliseconds in a minute, so also the shares that make a token (60000)
    Second,  \* milliseconds in a second, the unit of a Retry-After header (1000)
    Slack    \* milliseconds added to the time to live of the key (1000)

ASSUME TimeUnits ==
    /\ Minute \in Nat \ {0}
    /\ Second \in Nat \ {0}
    /\ Slack \in Nat

Token == Minute

Smaller(a, b) == IF a <= b THEN a ELSE b
Larger(a, b) == IF a >= b THEN a ELSE b
CeilDiv(a, b) == (a + b - 1) \div b

(***************************************************************************)
(* The hash kept under a key: the two fields of the script, and the moment *)
(* at which PEXPIRE makes Redis drop it.  HMGET answers nil when the key   *)
(* is absent or expired, which the script calls a cold bucket.             *)
(***************************************************************************)
Hash == [live : BOOLEAN, tokens : Int, ts : Int, expires : Int]

Cold == [live |-> FALSE, tokens |-> 0, ts |-> 0, expires |-> 0]

\* Seeded fault: the guard against a clock that went backwards is missing.
ElapsedUnguarded(hash, now_ms) == now_ms - hash.ts

\* Milliseconds since the last refill, never negative.
Elapsed(hash, now_ms) == Larger(0, now_ms - hash.ts)

\* Seeded fault: the refill is not clamped to the capacity.
RefilledUnclamped(hash, capacity, refill_per_minute, now_ms) ==
    IF hash.live
    THEN hash.tokens + Elapsed(hash, now_ms) * refill_per_minute
    ELSE capacity * Token

\* The shares in the bucket once the script has refilled it.
Refilled(hash, capacity, refill_per_minute, now_ms) ==
    IF hash.live
    THEN Smaller(capacity * Token,
                 hash.tokens + Elapsed(hash, now_ms) * refill_per_minute)
    ELSE capacity * Token

\* Seeded fault: the wait is rounded down.
RetryAfterMsFloor(tokens, refill_per_minute) ==
    (Token - tokens) \div refill_per_minute

\* How long until enough shares accumulate, when fewer than a token are left.
RetryAfterMs(tokens, refill_per_minute) ==
    CeilDiv(Token - tokens, refill_per_minute)

\* The Retry-After header of the 429 answer, in whole seconds.
RetryAfterHeader(retry_after_ms) ==
    Larger(1, CeilDiv(Larger(retry_after_ms, 0), Second))

\* Seeded fault: the key lives only as long as it takes to earn one token.
TtlOfOneToken(capacity, refill_per_minute) == CeilDiv(Token, refill_per_minute)

\* Seeded fault: the time to live has no slack for late scripts and odd clocks.
TtlWithoutSlack(capacity, refill_per_minute) ==
    CeilDiv(capacity * Token, refill_per_minute)

\* Time to live of the key: a refill from empty to full, and the slack.
TtlMs(capacity, refill_per_minute) ==
    CeilDiv(capacity * Token, refill_per_minute) + Slack
=============================================================================
