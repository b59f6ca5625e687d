------------------------------ MODULE Metrics ------------------------------
(***************************************************************************)
(* What a redirect counts on its way: the counters of app/metrics.py where *)
(* UrlCache and the redirect handler increment them, and the middleware of *)
(* app/main.py, which observes every response, or an exception as a 500.   *)
(*                                                                         *)
(* A request counts between its awaits, before it is known how it ends.    *)
(* The registry is memory of the process: a restart empties it.            *)
(***************************************************************************)
EXTENDS Redirect

VARIABLE metric  \* metric[m]: the value of counter m

vars == <<rows, claim, conns, clock, faults, redis, cache, visit, target, found,
          click, rowlock, count, events, reader, subject, report, metric>>

\* cache_hit_total and cache_miss_total, redis_fallback_total by operation,
\* redirect_total by status, and the responses of GET /{short_code} by status.
Metric ==
    {"hit", "miss", "fallback_get", "fallback_set",
     "success", "not_found", "expired", "302", "404", "500"}

\* A step of the redirect, and the counters it increments.
Counts(step, metrics) ==
    /\ step
    /\ metric' = [m \in Metric |-> IF m \in metrics THEN metric[m] + 1 ELSE metric[m]]

MeteredGet(v) ==
    Counts(CacheGet(v), IF found'[v] = Miss THEN {"miss"} ELSE {"hit", "success"})

\* Seeded fault: a fallback is counted as a miss too.
MeteredGetFailsAsMiss(v) == Counts(CacheGetFails(v), {"fallback_get", "miss"})

\* An error of Redis is neither a hit nor a miss.
MeteredGetFails(v) == Counts(CacheGetFails(v), {"fallback_get"})

\* Seeded fault: success is counted when the row is found, whatever follows.
MeteredLookupEarly(v) ==
    \/ Counts(Lookup(v), {"success"})
    \/ Counts(NotFound(v), IF visit'[v] = "absent" THEN {"not_found"} ELSE {"expired"})

\* Success is counted after the cache has been filled, if it is to be; a refusal
\* before the session is rolled back.
MeteredLookup(v) ==
    \/ Counts(Lookup(v), IF visit'[v] = "fill" THEN {} ELSE {"success"})
    \/ Counts(NotFound(v), IF visit'[v] = "absent" THEN {"not_found"} ELSE {"expired"})

MeteredFill(v) ==
    \/ Counts(CacheFill(v), {"success"})
    \/ Counts(CacheFillFails(v), {"fallback_set", "success"})

\* The session has ended, and the response, or the exception, passes the
\* middleware.
MeteredAnswer(v) ==
    \/ Counts(Close(v), {"302"})
    \/ Counts(RollBack(v), {"404"})
    \/ Counts(VisitDbError(v) \/ VisitPoolTimeout(v), {"500"})

\* Steps that count nothing of the above.
Uncounted ==
    \/ \E v \in Visits : Arrive(v) \/ ClickStep(v) \/ ClickFails(v)
    \/ \E s \in Readers : AskReport(s) \/ ReaderStep(s) \/ ReaderFails(s)
    \/ \E c \in Codes : CacheExpire(c)
    \/ \E state \in RedisStates : RedisBecomes(state)
    \/ Tick /\ UNCHANGED redirectOnly

MeteredInit == Init /\ metric = [m \in Metric |-> 0]

MeteredNext ==
    \/ \E v \in Visits :
         \/ MeteredGet(v) \/ MeteredGetFails(v) \/ MeteredLookup(v)
         \/ MeteredFill(v) \/ MeteredAnswer(v)
    \/ Uncounted /\ UNCHANGED metric
    \/ Crash /\ metric' = [m \in Metric |-> 0]

MeteredSpec == MeteredInit /\ [][MeteredNext]_vars
-----------------------------------------------------------------------------
At(places) == Cardinality({v \in Visits : visit[v] \in places})

(***************************************************************************)
(* redirect_total against the responses.  Its three outcomes are counted   *)
(* before the session ends, so they lead the responses: by what has not    *)
(* been committed or rolled back yet, and by what then became a 500.  They *)
(* never fall behind, and no redirect is counted twice.                    *)
(***************************************************************************)
RedirectsReconcile ==
    LET refused == metric["not_found"] + metric["expired"]
        refusing == {"absent", "outdated"}
    IN  /\ metric["302"] + At({"close"}) <= metric["success"]
        /\ metric["404"] + At(refusing) <= refused
        /\ metric["success"] + refused
             <= metric["302"] + metric["404"] + metric["500"] + At({"close"} \cup refusing)

(***************************************************************************)
(* Every lookup is a hit, a miss or a fallback, and one of them only: they *)
(* add up to the responses and the requests that are past the cache, which *)
(* is what makes hit/(hit+miss) a ratio of requests.                       *)
(***************************************************************************)
LookupsReconcile ==
    metric["hit"] + metric["miss"] + metric["fallback_get"]
      = metric["302"] + metric["404"] + metric["500"]
        + At({"lookup", "fill", "close", "absent", "outdated"})

(***************************************************************************)
(* "HighErrorRate should NOT be co-firing": a Redis that refuses           *)
(* connections, between any two steps, turns no redirect into a 500; as    *)
(* long as Postgres, the pool and the process have not failed, there is    *)
(* none.  This holds for a Redis that is up or down: one that hangs drains *)
(* the pool, and redirects fail.                                           *)
(***************************************************************************)
RedisSparesRedirects == faults = MaxFaults => At({"500"}) = 0 /\ metric["500"] = 0
=============================================================================
