# TLA+ models of the URL shortener

Specifications of the service in `src/app`, checked with TLC on small instances.
Their safety and refinement properties are also proved with TLAPS, for every instance;
liveness is model-checked only. Line numbers refer to the repository's `src/` directory.

## 1. The system

A FastAPI application, one process, one asyncio event loop. Requests interleave
at every `await`. Its state lives in Postgres (links, clicks) and in Redis
(redirect cache, token buckets); both can fail while the process runs, and the
process can die while they run.

| Component | State it keeps | Operations | Interacts with |
|---|---|---|---|
| Rate limiter, `app/core/rate_limiter.py`, `rate_limit` in `app/api/dependencies.py` | a Redis hash `tokens`, `ts` with a TTL per (client, route class) | `check`: one Lua script that refills, decides, writes, and sets PEXPIRE; 429 and `Retry-After`; failing open | in front of `create_url` and `redirect`; Redis |
| URL creation, `create_url`, `generate_unique_short_code` | rows of `urls`, uncommitted INSERTs in the unique index | existence check, generation with retries, INSERT, commit by the session dependency | Postgres, pool |
| Redirect, `redirect` | cache entries, the request's session | GETEX, SELECT, cache fill, 302/404, enqueue of the click | cache, Postgres, background tasks |
| URL cache, `app/core/cache.py` | `cache:url:<code>` with a sliding TTL | get, set, invalidate (no caller); `RedisError` swallowed | Redis |
| Click recording, `record_click_in_new_session` | `click_events` rows, `urls.click_count` | event and counter in one transaction, after the 302, never retried | second session from the same pool |
| Statistics, `get_stats` | none | three queries in one READ COMMITTED transaction | Postgres |
| Session and pool, `app/db/database.py` | connections in use | commit on success, rollback on error, close always | every handler with a session |
| Routing, `app/main.py` | none | routes tried in order, the redirect route last | all handlers |
| Base62 codec, request validation, `app/core/shortener.py`, `app/schemas.py`, the range of `short_code_length` in `app/config.py` | none | `encode_base62`, `decode_base62` (no caller in the application), `generate_short_code`, validators, `get_client_identifier` | creation; the columns of `urls` |
| Metrics and middleware, `app/metrics.py`, `app/main.py` | counters in the process | an increment where something happens, an observation per response | all handlers; Prometheus reads them |
| Health and readiness, `app/api/health.py` | none | probes of Redis and Postgres | routing, alerts |
| Alert rules, `infra/prometheus` | samples, alert states | scrape, evaluation of rate windows and `for:` delays | metrics |
| Logging | none | a line per event | all handlers |

What is hard about it:

* **Interleaving.** The existence check and the INSERT of a creation are separate
  statements, so two requests pass the check for one code; the unique index
  decides, and makes the second INSERT *wait* for the first transaction. Clicks of
  one link update one row. A report's three queries see different moments.
* **Stale reads.** A rate-limit check reads its clock before the await that sends
  the script; scripts therefore run with old timestamps, in any order. A redirect
  fills the cache with a row it read some awaits ago.
* **Partial failure.** The commit runs when the handler has already built its 201.
  Its reply may be lost. A click is recorded after the 302 was sent.
* **Shared resources.** A background task opens a second session for the same
  request; all sessions share a pool of connections.
* **Waiting.** The Redis client has no timeout. A redirect that fills the cache waits
  for Redis with a database connection in its hands.
* **Observation.** Counters are incremented before it is known how a request ends, are
  set back by a restart, and do not exist before their first increment; the alerts
  see only differences of samples.
* **Absence as information.** A Redis key that expires *is* a full bucket; a cache
  miss *is* a database lookup; a `RedisError` *is* a miss or a permission.

What makes each component correct is stated as properties in section 4; the hazards
and the line where each bites are in `PROJECT.json`.

## 2. Modules

```
TokenBucket   arithmetic of the Lua script          IdealBucket   abstract limiter
     \                                                   /
      RateLimiter  ---- INSTANCE, refinement ------------
           |    \
  MCRateLimiter  RateLimiterProofs

Database      Postgres, pool, clock, failures       CodeRegistry, IdealRedirect
   |       \           \                                abstract register, redirect
CreateUrl   Redirect    Service                      CreateUrl, Redirect: INSTANCE and
   |           |           |    C == INSTANCE CreateUrl         refinement mapping
   |        Metrics        |    R == INSTANCE Redirect      IdealService: both, composed;
   |           |           |                                Service: INSTANCE and mapping
   |           |           |
MCCreateUrl MCRedirect  MCService

Alerts         Prometheus over the counters             -- MCAlerts
ShortCodes     codec, validators, widths of columns     -- MCShortCodes

Proofs: DatabaseProofs (the pool) -- CreateUrlProofs
                                  |- RedirectProofs -- MetricsProofs
                                  \- ServiceProofs
        AlertsProofs, ShortCodesProofs, RateLimiterProofs
```

**TokenBucket, RateLimiter.** `RunScript` is one execution of `_LUA_TOKEN_BUCKET`
(lines 66-117): refill (`Refilled`), decision (`Granted`), the HSET and PEXPIRE
(`HashAfter`). Atomic, since Redis runs one script at a time. `Check` reads the
clock; the script runs later. `Allow`, `Reject`, `LoseReply` are the script with its
reply used or lost; `FailOpen` is the script that could not be sent. `Tick` is a
millisecond, and Redis dropping expired keys. `credit`, `regress`, `late`, `early` and
`promise` are history, read only by properties: the bucket an ideal limiter would have left
after the same grants, the time by which a stored `ts` went back, the worst delay and the
worst lead of a script on the bucket so far, and the earliest moment a 429 told its client
to come back. A bucket is `Punctual` while `late` and `early` are zero: its limit is exact
until then; after that, only `BoundedOverAdmission` is promised, since the code reads the
clock before an await.
A token is counted as `Minute` shares, so that a millisecond earns exactly
`refill_per_minute` shares and all of the script's quantities are integers; the
rounding of Lua doubles is left out. Clients are uninterpreted; how an identifier
is derived from a request is not modelled.

**Database.** `rows` is the table `urls` as committed, `claim` the codes that an
uncommitted INSERT holds in the unique index, `conns` the sessions that have a
connection. A session takes its connection with its first statement and keeps it
until it is closed. Every failure (statement, commit, connection, pool timeout,
death of the process) uses up one of `MaxFaults`.

**CreateUrl.** One action per statement: `CheckCustom`, `TryCode` (one round of the
generator, 503 after `MaxRetries` taken codes), `Insert` (waits while another
transaction holds the code, 409 if that one committed), `Commit`. Around them:
`CommitInDoubt` (it took effect and the client never learned), `DbError`,
`PoolTimeout`, `Crash`. The rollback of a 409 or 503 is part of the answer: one that fails
ends in the 500 of a failed statement. "201" is the moment the session dependency has committed
and the response goes out. Generated codes are any codes, as `secrets` gives them.
A request has a valid body: validation happens before.

**Redirect.** One action per await of `redirect`: `CacheGet`, `Lookup` or
`NotFound`, `CacheFill`, then `Close` after a success and `RollBack` after a refusal; the
Redis steps have variants for a Redis that is down. A rollback is a step of its own because
the handler has counted its 404 by then, and a rollback that fails makes it a 500
(`VisitDbError`). The click task is `OpenTask`, `LockRow` (the UPDATE takes the row's lock),
`CommitClick`, `ClickFails`. FastAPI ends the session dependency before the
response is sent and runs background tasks after it (the pinned `fastapi~=0.115`
does), so `Close` returns the connection and makes the task due. `CacheExpire` is
any end of a time to live; a hit extends the entry, which here only means that no
particular moment is promised, and an entry may live for ever. `CacheFillFails` may
have written all the same: the SET ran and its reply was lost. `RedisBecomes` stops
Redis, brings it back, or, where `RedisStates` has it, makes it hang: then neither the
answer nor the error of a command comes. A visit that waits in its cache fill then keeps
its connection (`Stalled`), and whoever wants one may time out without any other failure
(`Late`; in `Service`, `Starvation` for creations). `get_stats` is `ReadUrl`, `ReadRecent`,
`ReadTop`. An event has a referrer; both lists are cut off at their limits (`RecentLimit`,
`TopLimit`), the second keeps the most frequent referrers, and which events are the latest
and how a tie is broken is left open. The rollback of a report's 404 is part of the answer,
since nothing is counted before it. A Redis restart keeps its data
(`docker-compose.yml:45` turns `appendonly` on); losing it is the same
as `CacheExpire` for the cache, and for buckets is what the key TTL covers only
when they were full (section 6).

**IdealRedirect.** The redirect without cache, pool and Redis: one atomic look at the
links that are live, a 302 that owes one click, a click counted once or lost with a
failure. The refinement mapping (in `Redirect`) hides where a request waits and which
store answered it.

**Metrics.** `Redirect` with the counters that `UrlCache`, the handler and the middleware
increment on the way. Each action is an action of `Redirect` with its increments
(`Counts`); the increments of a step are those the code makes between two awaits. A
crash empties the registry.

**Alerts.** Time is counted in intervals of scrape and evaluation, which
`prometheus.yml:5-6` makes equal. `total` is the process, `sample` and `rise` what
Prometheus has of it, `pending` the `for:` clause. `rate(m[w]) > 0` is: two adjacent samples
in the window differ, and not because of a reset to nothing; extrapolation never changes
whether a rate is zero. Events, `latest`, `previous` and `outage` are history.

**ShortCodes.** A character is its index in the alphabet, and the codec is
compared, id after id, with an odometer (`Turned`) that carries and never divides. Beside it,
a request goes through validation, choice of a code and INSERT; codes are lengths and
a flag for a foreign character, which is all that the checks look at.

**Service.** Both over one database and one pool, and the router: a code that
spells another route (`Reserved`) is answered by that route. `known` is history:
the codes answered with 201 before a visit arrived.

**IdealService.** One shortener without statements, sessions, cache, Redis or click tasks:
`CodeRegistry` and `IdealRedirect` over the same codes, where a code comes to lead where
the request that binds it asked, at the moment it binds it, and to nothing else ever. The
mapping (in `Service`) is the one of the two parts; what it adds is that the table that
creations write is the table that visits read.

Definitions that start with a comment "Seeded fault" are not part of any
specification. They are variants of the action below them with one bug, kept so that
each property can be seen to fail when the code is broken in that way.

## 3. Runs and bounds

| Run | Instance | Shows |
|---|---|---|
| `limiter_exact` | 3 requests, two of them on one bucket, a bucket of each class (2 tokens and 1), 7 ms, a minute of 5 ms | scripts that run in the millisecond their clock was read: grants within burst and rate, `Retry-After` kept, expiry loses nothing, refinement of `IdealBucket`, with checks that race, Redis stopping and replies lost |
| `limiter_skewed` | 2 requests on one bucket, lag 1, clocks 1 ahead, slack 2, 8 ms | the limiter refines `IdealBucket` until the first script that is late or early; how far late, reordered and ahead timestamps let grants exceed the rate; stored buckets stay in range; expiry still loses nothing |
| `limiter_reorder` | lag 1, 10 ms | *violated*: reordered scripts cost more than the clocks' disagreement |
| `create_safety` | 3 requests, 2 codes, 2 connections, links that expire, 2 failures | answers are true, refused requests leave nothing, refinement of `CodeRegistry` |
| `redirect_safety` | 2 visits, 1 report, 2 codes, 2 URLs, 2 referrers, both limits 1, links that expire, 1 failure | cache coherence, nothing expired served, refinement of `IdealRedirect`, clicks accounted for, reports explained, counters that add up with the responses |
| `redirect_clickloss` | 2 visits, 1 failure | *violated*: `click_count` and redirects differ after a failed task |
| `service_safety` | 2 creations with different URLs, 2 visits, 2 codes of which 1 is reserved, a pool of 2, 1 failure, expiring links | what is created is found; a code leads to one place, the one its creator asked for; nobody waits in a circle; refinement of `IdealService` |
| `service_live` | 2 creations, 2 visits, pool of 2, a Redis that stops, comes back and hangs, with the pool timeouts that a hang causes | everybody is answered and every click dealt with |
| `service_shadowed` | 1 of 2 codes reserved | *violated*: a link answered with 201 that no redirect answers |
| `alerts_safety` | 2 operations of Redis, 1 route with 5xx, 4 increments, windows of 4 and 10 samples, delay 2 | no alert without an event in its window, no outage unreported, through restarts |
| `alerts_blip` | 1 operation, 1 route, 2 increments, the real windows (8 and 20 samples) and delay (4) | *violated*: one blip fires an alert |
| `codes` | an alphabet of 3, ids to 85 (five digits), every code length around the limits, settings 4 to 10 | the codec counts, decodes nothing else; what is accepted fits the table, but for a long `X-Forwarded-For` |

Why the bounds are enough to be interesting:

* Limiter: two requests are the fewest whose scripts can run in the wrong order, or race for
  the last token; they are interchangeable, hence the symmetry.
  A minute of 3 or 5 ms and refill rates of 1 and 2 shares give quotients that do not
  divide, so both roundings of `Retry-After` matter, and 7 ms is long enough for a bucket to drain, refill and
  expire. `MaxRegress` stops new checks on a bucket whose `ts` went back further; it
  bounds `regress`, which is otherwise unlimited. The theorems remove these bounds.
* Creation: three requests for two codes exercise a race whose winner fails and
  whose loser wins while a third waits; two connections make the third wait for the
  pool; two failures make a rollback and a commit in doubt happen in one behaviour.
  The theorems remove these bounds too.
* Redirect: two visits of one code are the fewest for a race on the cache and on
  the counter; the report needs one commit between two of its queries. With both
  limits 1 and two referrers, each list is cut off in some behaviours and not in others. `MaxTime = 1` lets a link with `expires_at = 1` expire at
  any point of a visit.
* Service: two creations for one code are the fewest for a conflict, two visits the fewest
  for a miss and a hit; a pool of two is the smallest in which a session that holds a
  connection can wait for another that does. Redis stays up in `service_safety`, where an
  entry may vanish at any moment, so that every visit may miss; it stops and hangs in
  `service_live`, it stops in `redirect_safety`, and the theorems let it do both.
* Alerts: four increments are enough for two series to appear, rise, be set back by a
  restart and rise again. A delay of 2 with windows of 4 and 10 keeps the order of the real
  numbers: the delay is shorter than the window by more than an interval.
* Codes: an alphabet of 3 makes ids up to 85 carry four times; texts of up to 3
  characters, foreign ones included, are compared for injectivity. The limits themselves
  (4, 10, 64, 3650) are the real ones.
* `CHECK_DEADLOCK FALSE` where requests are finite in number: the system stops
  when all have been answered. The runs of the limiter and of the alerts check deadlock.
* Symmetry is used for safety properties only.

## 4. Properties

*Limiter.* `AdmissionBound`: grants on a bucket never exceed burst plus sustained rate, until
a script on it runs late or early. `BoundedOverAdmission`: after that they do, by no more than
what accrues in the worst delay and lead there was and in the time `ts` was moved back.
`RetryAfterHonoured`: a client that waits as told finds a token unless somebody took
it. `ExpiryLosesNothing`: when Redis drops a key, the bucket would be full whatever
timestamp comes next. `RefinesIdealBucket`: up to the first script that is late
or early, the limiter is a bucket that fills continuously and is never forgotten.

*Creation.* `CreatedIsDurable`, `ConflictIsReal`, `RefusedLeavesNoRow`: the three
kinds of answers mean what they say. `AnsweredHoldsNothing`: no leak of connections
or index entries. `RowsImmutable`: the cache relies on it, since nothing invalidates
entries. `RefinesCodeRegistry`: check, INSERT and commit amount to one atomic bind.

*Redirect.* `CacheCoherent`, `NeverServesExpired`: quoted from `routes.py` and
`cache.py`; `ClicksAccountedFor`: counter and events agree, and every redirect is
counted, due or dropped; `ReportNeverOverCounts`: a report's count is explained by
the events it lists where no limit cuts them off, and a limit never hides a referrer of more
recent clicks than one it shows. `RefinesIdealRedirect`: cache, pool and Redis do not show.

*Metrics.* `RedirectsReconcile`: what `redirect_total` may and may not say of the
responses. Success leads the 302s and refusals lead the 404s, by requests not yet committed
or rolled back; and by those that become a 500 the three together lead all answers; they
never fall behind. `LookupsReconcile`: hit, miss and fallback exclude each other
and add up, which `metrics.py:28-30` builds a ratio on. `RedisSparesRedirects`: a
Redis that refuses connections turns no redirect into a 500. Of a Redis that hangs this is
false: the client has no timeout, visits keep their connections, and others run into the
timeout of the pool.

*Alerts.* `AlertHasCause`, `OutageIsReported`: no false alarm and no missed outage of
`Hold + 2` intervals, although a series is invisible before its first increment.

*Short codes.* `CodecCounts`, `DecodesNothingElse`: the codec is the positional system and
one-to-one up to zeros in front. `Interchangeable`, `AcceptedFits`: validator, generator,
settings and columns, in four files, agree on what a code is.

*Service.* `CreatedIsFound`: a visit that comes after the 201 reaches the row's destination,
unless the link has expired, its code spells another route, or a failure ends the visit.
`RedirectsAgree`, `RedirectIsRequested`. `HoldersGoOn`: whoever
waits, waits for somebody who needs nothing more. The connections are with sessions at
work, the holder of a code in the index or of a row's lock has only its commit to do.
`SomebodyGoesOn`: as long as anybody is busy, somebody has all that the next step takes,
also in a pool of one (a visit that awaits Redis counts as going on: that a hang ends is
an assumption of liveness); it is what fails when a task asks for its connection while the
request still has one. `RefinesIdealService`: all of it is one register that is written,
read and followed in single steps. Liveness: `EveryCreateAnswered`, `EveryVisitAnswered`,
`EveryClickCounted`.

**Fairness** (only `Service!FairSpec`): weak fairness of each request's and each
task's own steps. Postgres answers or the connection breaks; asyncpg and SQLAlchemy
turn a broken connection into an exception. The Redis client is built without a socket
timeout (`dependencies.py:41`), so nothing in the application ends a hang: `HangEnds` assumes
that Redis, or the peer's TCP stack, does. A command sent to a hung Redis lies in its
socket and is answered, or fails, when the hang ends; that Redis could hang again before
is excluded by strong fairness of a visit's steps. With a hang that never ends,
`EveryVisitAnswered` is false by construction, and visits that wait in the cache fill keep
their connections for ever. The event loop is FIFO, so no ready task starves. No fairness
is assumed of clients, of failures, or of a stopped Redis coming back. `service_live` has no
failures, and the only pool timeouts are those that a hang of Redis causes, of which none is
ever obliged to happen: nobody is rescued from a deadlock by a timeout. After a failure, what liveness needs is that
nothing is left held and that no circle of waiting arises, which are `HoldersGoOn` and
`SomebodyGoesOn`, proved for any pool and any number of failures.

## 5. Disagreements found

* **`ts` moves backwards** (`rate_limiter.py:109`, run `limiter_reorder`). The
  script clamps a negative elapsed time to zero (86-91) but stores its own older
  timestamp, so the next script refills the same interval again. Two concurrent
  checks whose scripts swap are enough, and repeating it exceeds the sustained
  rate of `config.py:69` without limit. Storing the later of the two timestamps
  would bound the excess by the disagreement of the clocks.
* **Clicks are lost** (`repository.py:99`, run `redirect_clickloss`). A task that
  fails or dies after the 302 is not retried, so `click_count` stays below the
  number of redirects which `tests/integration/test_stats.py:92` says it matches.
  Failures, and the pool timeouts of a Redis that hangs, are the only cause:
  `ClicksMatchWithoutFailures`.
* **Shadowed codes** (`main.py:131`, run `service_shadowed`). `health`, `ready`,
  `metrics`, `docs` and `redoc` are valid custom codes, are created with 201, and
  their short URL reaches another route. Expiry and failures apart, they are the only cause:
  `CreatedIsFound`.
* **A blip fires the alert** (`alert_rules.yml:200`, run `alerts_blip`). One increment keeps
  `rate(...[2m])` above zero for 7 evaluations and `rate(...[5m])` for 19, and `for: 1m`
  takes 5, so the delay filters nothing, against lines 162 and 196-197. A window shorter
  than the delay, or a threshold above one event per window, would filter.

Seen on the way, without a run of its own:

* `/ready` answers 503 while Redis is down (`health.py:74-75`), and the middleware
  observes it as a 5xx. `HighErrorRate` therefore fires in an outage of Redis whenever
  something probes `/ready`, against `alert_rules.yml:151-155` ("the only designed 5xx is
  HTTP 503 on keyspace saturation") and 211-213 ("should NOT be co-firing").
* `redirect_total` is incremented before the commit (`routes.py:208`), and for a 404 before
  the rollback (190, 197); `RedirectsReconcile` states the gap this leaves.
* A Redis that hangs is not "down": visits await it with a connection each (`routes.py:206`),
  so that redirects and creations end in pool timeouts. A `socket_timeout` on the client
  (`dependencies.py:41`) would turn the hang into the `RedisError` that the code handles.
* `X-Forwarded-For` is stored as it comes in a column of 64 characters (`repository.py:59`);
  a longer one makes an accepted creation a 500. `AcceptedFits` is about the other columns.
* The limits of a code are written down in `schemas.py:22-23`, `config.py:87-88` and
  `models.py`; they agree today, and nothing but `AcceptedFits` ties them.

## 6. What is proved

TLAPS checks eight modules to the last leaf, with SMT, Zenon and LS4. Every safety
and refinement property of the passing runs has its theorem.

**RateLimiterProofs** (about 1390 obligations), for every set of clients and
requests, every capacity and rate in `Nat \ {0}`, every choice of time units:

| Theorem | Assumes | Argument |
|---|---|---|
| `TypeCorrect` | nothing more | refill is clamped, elapsed time is never negative |
| `ExpiryIsLossless` | `MaxLag + MaxAhead <= Slack` | invariant `FullAtExpiry`: at `expires` the stored tokens have refilled, seen with any timestamp the next script may carry; the TTL is a ceiling plus slack |
| `OverAdmissionIsBounded` | nothing more | invariant `DriftBounded`: while delay and lead have stayed within the slack, the stored level is below the ideal credit plus what accrues in regress, worst delay and worst lead |
| `AdmissionIsBounded` | nothing more | the above with `NoRegress`: `ts` of a punctual bucket was never moved back |
| `RetryAfterIsHonoured` | `MaxAhead = 0`, any lag | invariant `PromiseKept`: what is missing now accrues by `promise`; both roundings go up |
| `LimiterRefinesIdealBucket` | nothing more | the property ends with the first late or early script; refinement mapping `Level(k)`: what the bucket would hold were it read now |

`BoundedOverAdmission` is not inductive: a bucket's stored tokens say nothing about
grants until the timestamp they were computed for is related to the clock, which is
what `DriftBounded` and `FullAtExpiry` add.

**CreateUrlProofs** (about 860 obligations), for every set of codes, URLs and
requests, any pool size, any number of failures. None of the properties is
inductive. The invariant `IndexConsistent` adds who holds the index:
`ClaimsArePending` (a held code belongs to exactly one transaction about to commit
and to no committed row), `InsertersHaveCodes` (its converse), `RowsAreOwned`.
From it: a commit never meets a row (`RowsNeverChange`), answered requests stay
as they are (`OthersUntouched`), every new answer is true (`NewAnswers`). Hence
`CreatedStaysDurable`, `ConflictStaysReal`, `RefusalLeavesNoRow`; with
`SessionsOpen`, `AnsweredHasReturned`; and `CreateRefinesCodeRegistry`, where a commit
is the register's bind, and a crash fails all requests at once. `TypeCorrect`
includes that the pool is never exceeded, by the cardinality theorems of the
library.

**RedirectProofs** (about 1370 obligations), for every finite set of visits (the `ASSUME`
`Limits`), every set of codes, destinations and reports, any pool, any number of
any limits, and a Redis that may hang. The invariants, each on top of `Typed`, which besides
types says that every visit on its way has a code and that exactly the visits answered
with a 302 have a click:

| Theorem | Invariant it needs | Why |
|---|---|---|
| `TypeCorrect` | `Typed` | the pool as in `DatabaseProofs` |
| `CacheStaysCoherent` | `FillsMayBeCached` | a visit about to fill carries the destination of a row that never expires; rows do not change, so it may be as late as it likes |
| `ExpiredIsNeverServed` | the same | a hit is a row that never expires, a lookup checks |
| `RedirectRefinesIdealRedirect` | the same | `StateAt`, `LiveLinks`, `Destinations` and `Owed` hide where a visit waits; each action is one of the ideal redirect's or a stutter, a crash is one `Fail` of many |
| `ClicksAreAccountedFor` | `CountIsCounted` | the redirects of a code are the disjoint union of those counted, due and dropped; a commit moves one visit between the first two, and cardinalities follow |
| `ClicksMatchWithoutFailures` | the same with `NoneDropped` | assumes `MaxFaults = 0` and a Redis that does not hang: only what uses up a failure, or a hang, drops a click |
| `ReportsNeverOverCount` | `ReportsExplained` | between two queries events only grow, and count and events are equal whenever one is read; a list shorter than its limit has all there is, and a referrer that is cut off has no more clicks than one that is listed |

**MetricsProofs**. That a behaviour with counters is one of `Redirect` holds by construction
(lemma `MeteringIsPassive`), and carries the invariants over. `Books` is the conjunction of the three properties, which
are inductive together with `Typed`: `Journal` lists what a request may count as it goes
from place to place, `AtMoves` how many visits are at a place after that, and each line
of the journal keeps the three sums. The argument for `RedirectsReconcile` is that a
success is counted exactly on the way to `close`, a refusal on the way to `absent` or
`outdated`, and that the way on from there is the answer or a 500.
`RedisAlwaysSparesRedirects` assumes that Redis does not hang (`"hung" \notin RedisStates`).

**ServiceProofs**, for every set of codes, creations and reports, every finite set of visits,
every pool, any number of failures. Of the constants it assumes `Parts` (in `Service`): what
`CreateUrl` and `Redirect` assume, that lifetimes are numbers, that `Miss` is no URL and
`Nobody` no visit, and that every request has a session of its own.

* *The table.* `Registered` is about creations alone: the index belongs to who is about to
  commit, every row is the one that a settled creation asked for, every 201 has its row. It
  yields `RowsGrow`: the table only grows. `Faithful` is about redirects: what is cached or
  carried is what the table says, and what a visit was promised exists. A growing table keeps
  it, whatever creations do (`FaithfulKept`). This is the argument why a cache without
  invalidation is right, and `CreatedIsAlwaysFound`, `RedirectsAlwaysAgree` and
  `RedirectsAreRequested` follow.
* *One shortener.* `ServiceRefinesIdealService` needs the same two and `ClicksTyped`.
  `CreationRefines`: a commit, in doubt or not, is the register's bind (`CommitBinds`), since
  the index kept the code free, and the new row is live and leads where `form` asked; all
  other steps of a creation are refusals, failures or hidden. `RedirectionRefines`: hit, lookup
  and 404 are the ideal redirect's one look at the links, right at that moment because what is
  cached never expires; waiting, filling and locking are hidden. A tick drops links, a crash is
  one `Fail` of all.
* *The pool and the locks.* `HoldInv` says of every session, from where it stands, whether it
  has a connection, and of every code and row whose it is. Each action has a *shape*
  (`CreationShape`, `VisitHasShape`, `TaskHasShape`, `ReaderHasShape`): which stage it moves one
  session to and what it does to that session's connection and lock; the shapes keep `HoldInv`.
  `HoldersAlwaysGoOn` is its reading. `SomebodyAlwaysGoesOn` follows: if a lock is held, its
  holder goes on (`LockHolderGoesOn`); else no lock is awaited and whoever has a connection goes
  on; else the pool is empty and nobody waits.
* *The parts together.* A theorem about `CreateUrl` or `Redirect` alone says nothing of
  `Service`, where a creation's pool is used by visits and a visit's table is written by
  creations. `CreationsKeepPromises`, `RowsNeverChange`, `CacheStaysCoherent`,
  `ExpiredIsNeverServed` and `ClicksAndReportsAddUp` (invariant `Accounts`) state the parts'
  properties of the whole.

**AlertsProofs**, for every set of operations and routes, every number of increments,
every window of two samples or more and every delay. `AlertsHaveCauses`: a series without an event since the
last scrape is as it was scraped or gone (`Quiet`, through restarts), so a pair of samples
that differ has an event between its two (`RiseHasCause`). `OutagesAreReported`: in an
outage each refusal takes the limiter's series past its last sample (`OutageIsCounted`), and the
delay counts all intervals but the first (`PendingFollows`). The minimum of a set of ages exists by
the library's `WFMin`.

**ShortCodesProofs**, for every alphabet of two characters or more. `CodecIsReversible`: for
every number, `decode_base62` of `encode_base62` is the number; for every text without zeros in
front, the reverse. `NothingElseIsDecoded`: a text of any length that is decoded to a number is
that number's text with zeros in front. The library's induction theorems take an operator and cannot be
used here; the proofs induct over sets instead (`StrongInduction`, from the library's `WFMin`: a
set that has every number whose predecessors it has is `Nat`), over the recursive functions
unfolded once. `CodecAlwaysCounts` and
`NothingElseDecodes` add the odometer, whose text of an id is what `encode_base62` computes: one
turn of it is one more. `CodesAreInterchangeable` and `AcceptedAlwaysFits` assume `LimitsAgree`
(`MinLength <= MinSetting`, `MaxSetting <= MaxLength <= CodeWidth`): this is all that the four
files have to agree on, and their 4, 10 and 10 do.

The proofs assume only the named `ASSUME`s of the modules, which TLC evaluates in
every run, and the assumptions named above.

**Model-checked only:** the liveness properties, since fairness is about `ENABLED`, which is out
of the prover's reach, and the four violations, which are counterexamples. That the abstract
specifications say what they should (a bound code stays bound, a resolved visit stays resolved) is
read from their few lines. The mutants of `PROJECT.json` are
runs as well: each shows that a property fails when the named definition has a
plausible bug.

## 7. What is not modelled

* **Doubles.** The Lua script computes in doubles; the model is exact. The errors are
  far below a share of a token.
* **Loss of Redis data.** A Redis that forgets everything gives every client a full
  bucket; the repository promises nothing about it, and the model keeps the data.
* **A Redis that hangs for ever.** See fairness. The pool timeouts it causes are modelled.
* **`encode_base62` of a negative number.** A `ValueError`; ids are not negative, and it has no caller.
* **`invalidate_cached_url`.** It has no caller; links are never changed or deleted.
* **Codes as strings in the handlers.** There a code is a model value; `ShortCodes` has
  their lengths and characters. URL syntax is left to pydantic.
* **The other four alert rules.** Their conditions are thresholds on quantiles, ratios and
  rates of floating-point histograms. A scrape that fails while the process is down is
  left out: it makes windows shorter, which the bounds of a window cover.
* **Counters of creation, rejections, durations.** Written where one outcome is known
  already; nothing relates them to other state.
* **Logging, containers, migrations, dashboards, CI.** Formatting and deployment.
* **Order of rows, which recent clicks are the latest, user agents of events.** Left open, so
  what is proved of a report holds for every order.

## 8. Plan

Done, in this order: `TokenBucket`, `IdealBucket`, `RateLimiter` and its proofs;
`Database`, `CodeRegistry`, `CreateUrl` and its proofs; `Redirect`; `Service`;
`Metrics`, `Alerts`, `ShortCodes`, `IdealRedirect`, a Redis that hangs; the proofs of
`Redirect`, `Metrics`, `Service`, `Alerts`, `ShortCodes`; `IdealService` and that `Service`
implements it, who waits for whom, the parts' promises in the whole, the codec for every number.

Next, most important first:

1. **The abstract specifications**: that `IdealBucket`, `CodeRegistry` and `IdealService` promise
   what they are read to promise, and with the refinements a second way to the invariants.
2. **What late scripts cost**: that storing the later of two timestamps would bound the excess.
3. **Alerts**: the four rules with thresholds, should they become part of a promise that the
   application makes.

A run is added only for a question no present run can answer, and a module of proofs only
in place of another.
