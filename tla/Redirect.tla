----------------------------- MODULE Redirect ------------------------------
(***************************************************************************)
(* GET /{short_code}, the click it records, and the statistics:            *)
(* redirect and get_stats (app/api/routes.py), UrlCache                    *)
(* (app/core/cache.py), record_click_in_new_session and the queries of     *)
(* get_stats (app/db/repository.py).                                       *)
(*                                                                         *)
(* A redirect reads the cache, on a miss reads urls, fills the cache with  *)
(* what it read, ends its session, and is answered.  Only then a           *)
(* background task counts the click in a transaction of its own.  Each of  *)
(* these is an await, between which other requests run.  RedisError makes  *)
(* every cache operation a no-op or a miss.                                *)
(***************************************************************************)
EXTENDS Database

CONSTANTS
    Visits,      \* GET /{short_code} requests
    Readers,     \* GET /api/urls/{short_code}/stats requests
    Expiries,    \* expires_at of the rows there are to begin with
    Referrers,   \* Referer headers, the missing one included
    RecentLimit, \* _RECENT_CLICKS_LIMIT
    TopLimit,    \* _TOP_REFERRERS_LIMIT
    RedisStates, \* what Redis may be in: it may always be "up" or "down", or also "hung"
    Miss,        \* the cache has no entry
    NoCode       \* the code of a request that has not arrived

ASSUME Limits ==
    /\ IsFiniteSet(Visits)
    /\ Expiries \subseteq Nat
    /\ RecentLimit \in Nat \ {0} /\ TopLimit \in Nat \ {0}
    /\ Miss \notin LongUrls
    /\ {"up", "down"} \subseteq RedisStates /\ RedisStates \subseteq {"up", "down", "hung"}

VARIABLES
    redis,      \* Redis answers, refuses connections, or takes commands and is silent
    cache,      \* cache[c]: the URL under cache:url:c
    visit,      \* visit[v]: what redirect v does next, or its answer
    target,     \* target[v]: the code in the path of v
    found,      \* found[v]: long_url, once v knows it
    click,      \* click[v]: where the background task of v stands
    rowlock,    \* rowlock[c]: the click transaction that has updated the row of c
    count,      \* count[c]: urls.click_count
    events,     \* events[c]: the click_events rows of c
    reader,     \* reader[s]: the query reader s makes next
    subject,    \* subject[s]: the code reader s asks about
    report      \* report[s]: what its queries have returned

redirectOnly == <<redis, cache, visit, target, found, click, rowlock,
                  count, events, reader, subject, report>>
visits == <<visit, target, found>>
clicks == <<click, rowlock, count, events>>
readers == <<reader, subject, report>>
redirectVars == <<rows, claim, conns, clock, faults, redis, cache, visit, target, found,
                  click, rowlock, count, events, reader, subject, report>>

RequestOf(v) == [of |-> v, task |-> "request"]
TaskOf(v) == [of |-> v, task |-> "click"]

VisitAnswers == {"302", "404", "expired", "500", "lost"}

\* A row of click_events: of stands for its primary key, the visit that made it.
ClickEvent == [of : Visits, referrer : Referrers]

NoReport == [count |-> 0, recent |-> {}, top |-> {}]

\* Nothing has been visited.
RedirectInit ==
    /\ redis = "up"
    /\ cache = [c \in Codes |-> Miss]
    /\ visit = [v \in Visits |-> "idle"]
    /\ target = [v \in Visits |-> NoCode]
    /\ found = [v \in Visits |-> Miss]
    /\ click = [v \in Visits |-> "none"]
    /\ rowlock = [c \in Codes |-> Nobody]
    /\ count = [c \in Codes |-> 0]
    /\ events = [c \in Codes |-> {}]
    /\ reader = [s \in Readers |-> "idle"]
    /\ subject = [s \in Readers |-> NoCode]
    /\ report = [s \in Readers |-> NoReport]

Goto(v, place) == visit' = [visit EXCEPT ![v] = place]

\* The request is through the limiter.
Arrive(v) ==
    /\ visit[v] = "idle"
    /\ \E c \in Codes : target' = [target EXCEPT ![v] = c]
    /\ Goto(v, "cache")
    /\ UNCHANGED <<database, redis, cache, found, clicks, readers>>

\* get_cached_url: GETEX answers a hit or a miss.
CacheGet(v) ==
    /\ visit[v] = "cache"
    /\ redis = "up"
    /\ LET hit == cache[target[v]] # Miss IN
       /\ found' = [found EXCEPT ![v] = cache[target[v]]]
       /\ Goto(v, IF hit THEN "close" ELSE "lookup")
    /\ UNCHANGED <<database, redis, cache, target, clicks, readers>>

\* Seeded fault: a failed GETEX is tried again, not taken for a miss.
CacheGetTriesAgain(v) ==
    /\ visit[v] = "cache"
    /\ redis = "down"
    /\ UNCHANGED redirectVars

\* get_cached_url swallows RedisError and reports a miss.
CacheGetFails(v) ==
    /\ visit[v] = "cache"
    /\ redis = "down"
    /\ Goto(v, "lookup")
    /\ UNCHANGED <<database, redis, cache, target, found, clicks, readers>>

\* The row of c can be redirected to.
Resolvable(c) == CodeExists(c) /\ ~IsExpired(rows[c])

\* Seeded fault: every link is cached, those that expire too.
LookupCachesAll(v) ==
    /\ visit[v] = "lookup"
    /\ Connect(RequestOf(v))
    /\ Resolvable(target[v])
    /\ found' = [found EXCEPT ![v] = rows[target[v]].url]
    /\ Goto(v, "fill")
    /\ UNCHANGED <<rows, claim, clock, faults, redis, cache, target, clicks, readers>>

\* get_url finds a row that has not expired; only a link that never expires
\* goes on to fill the cache.
Lookup(v) ==
    /\ visit[v] = "lookup"
    /\ Connect(RequestOf(v))
    /\ Resolvable(target[v])
    /\ found' = [found EXCEPT ![v] = rows[target[v]].url]
    /\ Goto(v, IF rows[target[v]].expires_at = Never THEN "fill" ELSE "close")
    /\ UNCHANGED <<rows, claim, clock, faults, redis, cache, target, clicks, readers>>

\* get_url finds no row, or an expired one, and the handler raises a 404.
NotFound(v) ==
    /\ visit[v] = "lookup"
    /\ Connect(RequestOf(v))
    /\ ~Resolvable(target[v])
    /\ Goto(v, IF CodeExists(target[v]) THEN "outdated" ELSE "absent")
    /\ UNCHANGED <<rows, claim, clock, faults, redis, cache, target, found, clicks, readers>>

\* The session is rolled back and closed, and the 404 is sent.
RollBack(v) ==
    /\ visit[v] \in {"absent", "outdated"}
    /\ Disconnect(RequestOf(v))
    /\ Goto(v, IF visit[v] = "absent" THEN "404" ELSE "expired")
    /\ UNCHANGED <<rows, claim, clock, faults, redis, cache, target, found, clicks, readers>>

\* set_cached_url, while the session keeps its connection.
CacheFill(v) ==
    /\ visit[v] = "fill"
    /\ redis = "up"
    /\ cache' = [cache EXCEPT ![target[v]] = found[v]]
    /\ Goto(v, "close")
    /\ UNCHANGED <<database, redis, target, found, clicks, readers>>

\* Seeded fault: the RedisError of a SET reaches the middleware.
CacheFillRaises(v) ==
    /\ visit[v] = "fill"
    /\ redis = "down"
    /\ Goto(v, "500")
    /\ Disconnect(RequestOf(v))
    /\ UNCHANGED <<rows, claim, clock, faults, redis, cache, target, found, clicks, readers>>

\* set_cached_url swallows RedisError.  The SET may have run all the same, before
\* Redis went away with its reply.
CacheFillFails(v) ==
    /\ visit[v] = "fill"
    /\ redis = "down"
    /\ \E ran \in BOOLEAN :
         cache' = IF ran THEN [cache EXCEPT ![target[v]] = found[v]] ELSE cache
    /\ Goto(v, "close")
    /\ UNCHANGED <<database, redis, target, found, clicks, readers>>

\* Seeded fault: the session ends after the response and its background task
\* instead of before.
CloseAfterTask(v) ==
    /\ visit[v] = "close"
    /\ Goto(v, "302")
    /\ click' = [click EXCEPT ![v] = "queued"]
    /\ UNCHANGED <<database, redis, cache, target, found, rowlock, count, events, readers>>

\* The session commits and is closed, the 302 is sent, and the background task
\* of the response is due.
Close(v) ==
    /\ visit[v] = "close"
    /\ Disconnect(RequestOf(v))
    /\ Goto(v, "302")
    /\ click' = [click EXCEPT ![v] = "queued"]
    /\ UNCHANGED <<rows, claim, clock, faults, redis, cache, target, found,
                   rowlock, count, events, readers>>

\* Seeded fault: the task is due although the commit has failed.
VisitDbErrorQueues(v) ==
    /\ \/ visit[v] \in {"lookup", "absent", "outdated"}
       \/ visit[v] = "close" /\ RequestOf(v) \in conns
    /\ Fault
    /\ Disconnect(RequestOf(v))
    /\ Goto(v, "500")
    /\ click' = IF visit[v] = "close" THEN [click EXCEPT ![v] = "queued"] ELSE click
    /\ UNCHANGED <<rows, claim, clock, redis, cache, target, found,
                   rowlock, count, events, readers>>

\* A statement, the commit or the rollback of the session fails: 500, and no
\* background task.
VisitDbError(v) ==
    /\ \/ visit[v] \in {"lookup", "absent", "outdated"}
       \/ visit[v] = "close" /\ RequestOf(v) \in conns
    /\ Fault
    /\ Disconnect(RequestOf(v))
    /\ Goto(v, "500")
    /\ UNCHANGED <<rows, claim, clock, redis, cache, target, found, clicks, readers>>

\* Redis hangs, and has connections of the pool with it.
Stalled == redis = "hung" /\ \E v \in Visits : visit[v] = "fill"

\* No connection comes free within the pool's timeout: a failure of its own, or
\* the doing of a Redis that hangs.
Late == Fault \/ (Stalled /\ UNCHANGED faults)

\* The lookup gets no connection in time: 500.
VisitPoolTimeout(v) ==
    /\ visit[v] = "lookup"
    /\ PoolFull(RequestOf(v))
    /\ Late
    /\ Goto(v, "500")
    /\ UNCHANGED <<rows, claim, conns, clock, redis, cache, target, found, clicks, readers>>

\* record_click_in_new_session opens its session.
OpenTask(v) ==
    /\ click[v] = "queued"
    /\ Connect(TaskOf(v))
    /\ click' = [click EXCEPT ![v] = "updating"]
    /\ UNCHANGED <<rows, claim, clock, faults, redis, cache, visits,
                   rowlock, count, events, readers>>

\* The UPDATE takes the lock of the row, and waits for another click that has it.
LockRow(v) ==
    /\ click[v] = "updating"
    /\ rowlock[target[v]] = Nobody
    /\ rowlock' = [rowlock EXCEPT ![target[v]] = v]
    /\ click' = [click EXCEPT ![v] = "commit"]
    /\ UNCHANGED <<database, redis, cache, visits, count, events, readers>>

\* Seeded fault: the event is inserted in a transaction of its own, and the
\* counter is left for later.
CommitEventOnly(v) ==
    /\ click[v] = "commit"
    /\ \E f \in Referrers :
         events' = [events EXCEPT ![target[v]] = @ \cup {[of |-> v, referrer |-> f]}]
    /\ rowlock' = [rowlock EXCEPT ![target[v]] = Nobody]
    /\ Disconnect(TaskOf(v))
    /\ click' = [click EXCEPT ![v] = "counted"]
    /\ UNCHANGED <<rows, claim, clock, faults, redis, cache, visits, count, readers>>

\* The commit flushes the INSERT of the event with the increment.
CommitClick(v) ==
    /\ click[v] = "commit"
    /\ \E f \in Referrers :
         events' = [events EXCEPT ![target[v]] = @ \cup {[of |-> v, referrer |-> f]}]
    /\ count' = [count EXCEPT ![target[v]] = @ + 1]
    /\ rowlock' = [rowlock EXCEPT ![target[v]] = Nobody]
    /\ Disconnect(TaskOf(v))
    /\ click' = [click EXCEPT ![v] = "counted"]
    /\ UNCHANGED <<rows, claim, clock, faults, redis, cache, visits, readers>>

\* A statement of the task fails, or it gets no connection in time: the click is
\* rolled back, and nothing tries again.
ClickFails(v) ==
    /\ \/ click[v] \in {"updating", "commit"} /\ Fault
       \/ click[v] = "queued" /\ PoolFull(TaskOf(v)) /\ Late
    /\ rowlock' = [c \in Codes |-> IF rowlock[c] = v THEN Nobody ELSE rowlock[c]]
    /\ Disconnect(TaskOf(v))
    /\ click' = [click EXCEPT ![v] = "dropped"]
    /\ UNCHANGED <<rows, claim, clock, redis, cache, visits, count, events, readers>>

AskReport(s) ==
    /\ reader[s] = "idle"
    /\ \E c \in Codes : subject' = [subject EXCEPT ![s] = c]
    /\ reader' = [reader EXCEPT ![s] = "url"]
    /\ UNCHANGED <<database, redis, cache, visits, clicks, report>>

\* get_url: the row and, with it, click_count; 404 when there is none.
ReadUrl(s) ==
    /\ reader[s] = "url"
    /\ \/ /\ CodeExists(subject[s])
          /\ Connect(RequestOf(s))
          /\ report' = [report EXCEPT ![s].count = count[subject[s]]]
          /\ reader' = [reader EXCEPT ![s] = "recent"]
       \/ /\ ~CodeExists(subject[s])
          /\ ~PoolFull(RequestOf(s))
          /\ Disconnect(RequestOf(s))
          /\ reader' = [reader EXCEPT ![s] = "404"]
          /\ UNCHANGED report
    /\ UNCHANGED <<rows, claim, clock, faults, redis, cache, visits, clicks, subject>>

Cut(n, limit) == IF n <= limit THEN n ELSE limit

\* get_recent_clicks: RecentLimit of the events, or all there are.  Which are the
\* latest is left open.
ReadRecent(s) ==
    /\ reader[s] = "recent"
    /\ \E latest \in SUBSET events[subject[s]] :
         /\ Cardinality(latest) = Cut(Cardinality(events[subject[s]]), RecentLimit)
         /\ report' = [report EXCEPT ![s].recent = latest]
    /\ reader' = [reader EXCEPT ![s] = "top"]
    /\ UNCHANGED <<database, redis, cache, visits, clicks, subject>>

ReferrersOf(clicked) == {e.referrer : e \in clicked}
From(clicked, f) == {e \in clicked : e.referrer = f}

\* The most frequent referrers, TopLimit of them or all there are.
MostFrequent(listed, clicked) ==
    /\ listed \subseteq ReferrersOf(clicked)
    /\ Cardinality(listed) = Cut(Cardinality(ReferrersOf(clicked)), TopLimit)
    /\ \A f \in listed, g \in ReferrersOf(clicked) \ listed :
         Cardinality(From(clicked, g)) <= Cardinality(From(clicked, f))

\* The events that the counts of the listed referrers count.
TopEvents(clicked, listed) == {e \in clicked : e.referrer \in listed}

\* Seeded fault: click_count is refreshed with the last query.
ReadTopAndCount(s) ==
    /\ reader[s] = "top"
    /\ \E listed \in SUBSET Referrers :
         /\ MostFrequent(listed, events[subject[s]])
         /\ report' = [report EXCEPT ![s].top = TopEvents(events[subject[s]], listed),
                                     ![s].count = count[subject[s]]]
    /\ Disconnect(RequestOf(s))
    /\ reader' = [reader EXCEPT ![s] = "200"]
    /\ UNCHANGED <<rows, claim, clock, faults, redis, cache, visits, clicks, subject>>

\* get_top_referrers, then the session ends.
ReadTop(s) ==
    /\ reader[s] = "top"
    /\ \E listed \in SUBSET Referrers :
         /\ MostFrequent(listed, events[subject[s]])
         /\ report' = [report EXCEPT ![s].top = TopEvents(events[subject[s]], listed)]
    /\ Disconnect(RequestOf(s))
    /\ reader' = [reader EXCEPT ![s] = "200"]
    /\ UNCHANGED <<rows, claim, clock, faults, redis, cache, visits, clicks, subject>>

\* A query fails, or no connection came free in time: 500.
ReaderFails(s) ==
    /\ \/ reader[s] \in {"url", "recent", "top"} /\ Fault
       \/ reader[s] = "url" /\ PoolFull(RequestOf(s)) /\ Late
    /\ Disconnect(RequestOf(s))
    /\ reader' = [reader EXCEPT ![s] = "500"]
    /\ UNCHANGED <<rows, claim, clock, redis, cache, visits, clicks, subject, report>>

\* An entry reaches the end of its time to live; a hit only puts that off.
CacheExpire(c) ==
    /\ cache[c] # Miss
    /\ cache' = [cache EXCEPT ![c] = Miss]
    /\ UNCHANGED <<database, redis, visits, clicks, readers>>

\* Redis stops, comes back, or hangs.  The client has no timeout: while it hangs,
\* whoever has sent a command waits.
RedisBecomes(state) ==
    /\ redis # state
    /\ redis' = state
    /\ UNCHANGED <<database, cache, visits, clicks, readers>>

VisitInFlight(v) ==
    visit[v] \in {"cache", "lookup", "fill", "close", "absent", "outdated"}
ClickInFlight(v) == click[v] \in {"queued", "updating", "commit"}
ReaderInFlight(s) == reader[s] \in {"url", "recent", "top"}

\* The process dies with what it was doing, the background tasks included; the
\* cache stays.
RedirectCrash ==
    /\ visit' = [v \in Visits |-> IF VisitInFlight(v) THEN "lost" ELSE visit[v]]
    /\ click' = [v \in Visits |-> IF ClickInFlight(v) THEN "dropped" ELSE click[v]]
    /\ reader' = [s \in Readers |-> IF ReaderInFlight(s) THEN "lost" ELSE reader[s]]
    /\ rowlock' = [c \in Codes |-> Nobody]
    /\ UNCHANGED <<redis, cache, target, found, count, events, subject, report>>

VisitStep(v) ==
    \/ CacheGet(v) \/ CacheGetFails(v) \/ Lookup(v) \/ NotFound(v)
    \/ CacheFill(v) \/ CacheFillFails(v) \/ Close(v) \/ RollBack(v)

ClickStep(v) == OpenTask(v) \/ LockRow(v) \/ CommitClick(v)

ReaderStep(s) == ReadUrl(s) \/ ReadRecent(s) \/ ReadTop(s)

RedirectNext ==
    \/ \E v \in Visits :
         \/ Arrive(v) \/ VisitStep(v) \/ ClickStep(v)
         \/ VisitDbError(v) \/ VisitPoolTimeout(v) \/ ClickFails(v)
    \/ \E s \in Readers : AskReport(s) \/ ReaderStep(s) \/ ReaderFails(s)
    \/ \E c \in Codes : CacheExpire(c)
    \/ \E state \in RedisStates : RedisBecomes(state)

(***************************************************************************)
(* On its own, the module runs against rows that exist from the start.     *)
(***************************************************************************)
StoredRows == [url : LongUrls, expires_at : Expiries, by : Creates]

Init ==
    /\ rows \in [Codes -> StoredRows \cup {NoRow}]
    /\ claim = [c \in Codes |-> Nobody]
    /\ conns = {}
    /\ clock = 0
    /\ faults = MaxFaults
    /\ RedirectInit

Crash ==
    /\ Fault
    /\ RedirectCrash
    /\ conns' = {}
    /\ UNCHANGED <<rows, claim, clock>>

Next ==
    \/ RedirectNext
    \/ Crash
    \/ Tick /\ UNCHANGED redirectOnly

Spec == Init /\ [][Next]_redirectVars
-----------------------------------------------------------------------------
\* Type invariant.
TypeOK ==
    /\ DatabaseTypeOK
    /\ conns \subseteq {RequestOf(q) : q \in Visits \cup Readers} \cup {TaskOf(v) : v \in Visits}
    /\ redis \in RedisStates
    /\ cache \in [Codes -> LongUrls \cup {Miss}]
    /\ visit \in [Visits -> {"idle", "cache", "lookup", "fill", "close", "absent", "outdated"}
                            \cup VisitAnswers]
    /\ target \in [Visits -> Codes \cup {NoCode}]
    /\ found \in [Visits -> LongUrls \cup {Miss}]
    /\ click \in [Visits -> {"none", "queued", "updating", "commit", "counted", "dropped"}]
    /\ rowlock \in [Codes -> Visits \cup {Nobody}]
    /\ count \in [Codes -> Nat] /\ events \in [Codes -> SUBSET ClickEvent]
    /\ reader \in [Readers -> {"idle", "url", "recent", "top", "200", "404", "500", "lost"}]
    /\ subject \in [Readers -> Codes \cup {NoCode}]
    /\ report \in [Readers -> [count : Nat,
                               recent : SUBSET ClickEvent, top : SUBSET ClickEvent]]

(***************************************************************************)
(* "Only non-expiring URLs are cached": a cache entry is the destination   *)
(* of a committed row that never expires, however fills, evictions, Redis  *)
(* failures and crashes interleave.                                        *)
(***************************************************************************)
CacheCoherent ==
    \A c \in Codes : cache[c] # Miss =>
        CodeExists(c) /\ rows[c].url = cache[c] /\ rows[c].expires_at = Never

(***************************************************************************)
(* "an expired link can never be served from a stale cache entry": a visit *)
(* settles on a destination only while the row is live, and it is the      *)
(* destination of that row, whether it came from Redis or from Postgres.   *)
(***************************************************************************)
NeverServesExpired ==
    [][\A v \in Visits :
         visit[v] \in {"cache", "lookup"} /\ visit'[v] \in {"fill", "close"} =>
            Resolvable(target[v]) /\ found'[v] = rows[target[v]].url]_redirectVars

\* Redirects of c that were answered, and those whose click is not dealt with.
Redirected(c) == {v \in Visits : visit[v] = "302" /\ target[v] = c}
Due(c) == {v \in Redirected(c) : ClickInFlight(v)}
Dropped(c) == {v \in Redirected(c) : click[v] = "dropped"}

(***************************************************************************)
(* The counter and the table of events tell the same story at every        *)
(* moment, and account for every redirect: counted once, still due, or     *)
(* dropped by a failure.  Concurrent clicks do not lose an increment.      *)
(***************************************************************************)
ClicksAccountedFor ==
    \A c \in Codes :
        /\ count[c] = Cardinality(events[c])
        /\ count[c] + Cardinality(Due(c)) + Cardinality(Dropped(c))
             = Cardinality(Redirected(c))

(***************************************************************************)
(* "click_count field matches the number of redirects made", once the      *)
(* background tasks are over.  A failure of the task's transaction, or of  *)
(* the process, after the 302 was sent breaks it: nothing tries again.     *)
(***************************************************************************)
ClickCountMatchesRedirects ==
    \A c \in Codes : Due(c) = {} => count[c] = Cardinality(Redirected(c))

(***************************************************************************)
(* The three queries of a report may see different moments, but the later  *)
(* explain the earlier: where no limit cuts a list off, its events account *)
(* for the whole count, and the recent clicks are among those counted by   *)
(* referrer; where one does, no referrer of more recent clicks is missing  *)
(* from the list than those that are on it.                                *)
(***************************************************************************)
ReportNeverOverCounts ==
    \A s \in Readers : reader[s] = "200" =>
        LET recent == report[s].recent
            top    == report[s].top
            listed == ReferrersOf(top)
        IN  /\ Cardinality(recent) < RecentLimit => report[s].count <= Cardinality(recent)
            /\ Cardinality(listed) < TopLimit =>
                 recent \subseteq top /\ report[s].count <= Cardinality(top)
            /\ \A f \in listed, g \in Referrers : g = f \/ g \notin listed =>
                 Cardinality(From(recent, g)) <= Cardinality(From(top, f))

\* What a visit's next step, or its answer, is to someone who sees no cache.
StateAt(place) ==
    CASE place \in {"cache", "lookup"} -> "asked"
      [] place \in {"fill", "close"} -> "going"
      [] place \in {"absent", "outdated"} -> "refusing"
      [] place = "expired" -> "404"
      [] place \in {"500", "lost"} -> "failed"
      [] OTHER -> place

States == [v \in Visits |-> StateAt(visit[v])]
LiveLinks == [c \in Codes |-> IF Resolvable(c) THEN rows[c].url ELSE Miss]
Destinations ==
    [v \in Visits |-> IF visit[v] \in {"fill", "close", "302"} THEN found[v] ELSE Miss]
Owed == {v \in Visits : ClickInFlight(v)}

(***************************************************************************)
(* The cache is transparent, the pool and the order of awaits do not show: *)
(* a redirect behaves as one atomic look at the table at a moment between  *)
(* its arrival and its answer, and owes one click, whatever Redis does.    *)
(***************************************************************************)
Ideal == INSTANCE IdealRedirect WITH
    Nowhere <- Miss, live <- LiveLinks, state <- States, path <- target,
    destination <- Destinations, owed <- Owed

RefinesIdealRedirect == Ideal!Spec
=============================================================================
