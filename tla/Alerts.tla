------------------------------- MODULE Alerts -------------------------------
(***************************************************************************)
(* Prometheus over the application: it scrapes /metrics and evaluates the  *)
(* rules RedisFallbackActive and HighErrorRate of                          *)
(* infra/prometheus/alert_rules.yml at one interval, while Redis comes and *)
(* goes and the process restarts.                                          *)
(*                                                                         *)
(* rate(m[w]) > 0 holds when two adjacent samples of a series differ, both *)
(* within the window: a counter only differs when it grew, or was set back *)
(* and grew again.  A series has no sample before its first increment, so  *)
(* that the first increment alone shows nothing.                           *)
(***************************************************************************)
EXTENDS Integers

CONSTANTS
    Operations, \* the operations of Redis that fall back: token_bucket, get, set
    Errors,     \* the routes that answer 5xx: redirect, ready
    MaxEvents,  \* bound: increments of any of their series
    Window,     \* Window[a]: the samples that the range of rule a holds
    Hold        \* for: of both rules, in intervals

Alert == {"RedisFallbackActive", "HighErrorRate"}
Series == Operations \cup Errors

ASSUME Rules ==
    /\ "token_bucket" \in Operations /\ "ready" \in Errors
    /\ Operations \cap Errors = {}
    /\ MaxEvents \in Nat
    /\ Window \in [Alert -> Nat \ {0, 1}]
    /\ Window["RedisFallbackActive"] <= Window["HighErrorRate"]
    /\ Hold \in Nat

\* sum(rate(...)) is over the series of the rule's selector.
SeriesOf(a) == IF a = "HighErrorRate" THEN Errors ELSE Operations

VARIABLES
    redis_up, \* FALSE while Redis refuses connections
    total,    \* total[s]: the counter of series s in the process; 0 is no series
    budget,   \* increments that may still happen
    sample,   \* sample[s]: the latest sample of s, and its age in intervals
    rise,     \* rise[a]: the age of the older sample of the latest pair that differs
    pending,  \* pending[a]: evaluations in a row at which the rule's condition held
    events,   \* history: the alerts with an event since the last scrape
    latest,   \* history: latest[a] is the age of the latest interval with an event
    previous, \* history: previous[a] is the age of the one before that
    refused,  \* history: Redis has refused the limiter since the last scrape
    outage    \* history: intervals in a row in which it did

prometheus == <<sample, rise, pending>>
app == <<redis_up, total, budget>>
history == <<events, latest, previous, refused, outage>>
vars == <<redis_up, total, budget, sample, rise, pending,
          events, latest, previous, refused, outage>>

NoSample == 0

\* No range reaches back this far: what is older is not told apart.
Forever == Window["HighErrorRate"]
Ages == 0 .. Forever
Older(age) == IF age < Forever THEN age + 1 ELSE age

Init ==
    /\ redis_up = TRUE
    /\ total = [s \in Series |-> 0]
    /\ budget = MaxEvents
    /\ sample = [s \in Series |-> [value |-> NoSample, age |-> Forever]]
    /\ rise = [a \in Alert |-> Forever]
    /\ pending = [a \in Alert |-> 0]
    /\ events = {}
    /\ latest = [a \in Alert |-> Forever]
    /\ previous = [a \in Alert |-> Forever]
    /\ refused = FALSE
    /\ outage = 0

\* Seeded fault: one fallback is counted in two places.
IncTwice(s) ==
    /\ budget > 0
    /\ budget' = budget - 1
    /\ total' = [total EXCEPT ![s] = @ + 2]
    /\ events' = events \cup {a \in Alert : s \in SeriesOf(a)}

\* labels(...).inc()
Inc(s) ==
    /\ budget > 0
    /\ budget' = budget - 1
    /\ total' = [total EXCEPT ![s] = @ + 1]
    /\ events' = events \cup {a \in Alert : s \in SeriesOf(a)}

\* Seeded fault: the limiter fails open without counting it.
FallBackUncounted(op) ==
    /\ ~redis_up
    /\ IF op = "token_bucket" THEN UNCHANGED <<total, budget, events>> ELSE Inc(op)
    /\ refused' = (refused \/ op = "token_bucket")
    /\ UNCHANGED <<redis_up, prometheus, latest, previous, outage>>

\* An operation meets a Redis that refuses it: the limiter fails open, the cache
\* reports a miss or does without the entry.
FallBack(op) ==
    /\ ~redis_up
    /\ Inc(op)
    /\ refused' = (refused \/ op = "token_bucket")
    /\ UNCHANGED <<redis_up, prometheus, latest, previous, outage>>

\* The middleware observes a 5xx: an exception that reaches it, which on other
\* routes than /ready is one of Postgres, or the 503 of /ready, which tells that
\* Redis or Postgres did not answer.
ServerError(route) ==
    /\ Inc(route)
    /\ UNCHANGED <<redis_up, prometheus, latest, previous, refused, outage>>

RedisFlips ==
    /\ redis_up' = ~redis_up
    /\ UNCHANGED <<total, budget, prometheus, history>>

\* The registry is empty after a restart, and Prometheus keeps its samples.
Restart ==
    /\ total' = [s \in Series |-> 0]
    /\ refused' = FALSE
    /\ outage' = 0
    /\ UNCHANGED <<redis_up, budget, prometheus, events, latest, previous>>

Least(ages) == CHOOSE age \in ages : \A other \in ages : age <= other

\* The series of which this scrape completes a pair of samples that differ, by
\* the age of the older one.
Risen(a) ==
    {Older(sample[s].age) : s \in {t \in SeriesOf(a) :
        total[t] > 0 /\ sample[t].value \notin {NoSample, total[t]}}}

\* rate(...) > 0
RateIsPositive(a) == rise'[a] < Window[a]

\* Seeded fault: a condition that no longer holds leaves the alert as it is.
HeldForever(a) == IF RateIsPositive(a) /\ pending[a] <= Hold THEN pending[a] + 1 ELSE pending[a]

\* Pending from the first evaluation at which the condition holds, inactive at
\* the first at which it does not.
Held(a) ==
    IF ~RateIsPositive(a) THEN 0
    ELSE IF pending[a] <= Hold THEN pending[a] + 1 ELSE pending[a]

\* An interval ends: /metrics is scraped and the rules are evaluated.
ScrapeAndEvaluate ==
    /\ sample' = [s \in Series |->
                    IF total[s] > 0 THEN [value |-> total[s], age |-> 0]
                                    ELSE [sample[s] EXCEPT !.age = Older(@)]]
    /\ rise' = [a \in Alert |-> Least({Older(rise[a])} \cup Risen(a))]
    /\ pending' = [a \in Alert |-> Held(a)]
    /\ latest' = [a \in Alert |-> IF a \in events THEN 0 ELSE Older(latest[a])]
    /\ previous' = [a \in Alert |-> Older(IF a \in events THEN latest[a] ELSE previous[a])]
    /\ events' = {}
    /\ outage' = IF ~refused THEN 0 ELSE IF outage < Hold + 2 THEN outage + 1 ELSE outage
    /\ refused' = FALSE
    /\ UNCHANGED app

Next ==
    \/ \E op \in Operations : FallBack(op)
    \/ \E route \in Errors : ServerError(route)
    \/ RedisFlips \/ Restart \/ ScrapeAndEvaluate

Spec == Init /\ [][Next]_vars

Firing(a) == pending[a] > Hold
-----------------------------------------------------------------------------
\* Type invariant.
TypeOK ==
    /\ redis_up \in BOOLEAN
    /\ total \in [Series -> 0 .. MaxEvents]
    /\ budget \in 0 .. MaxEvents
    /\ sample \in [Series -> [value : 0 .. MaxEvents, age : Ages]]
    /\ rise \in [Alert -> Ages]
    /\ pending \in [Alert -> 0 .. Hold + 1]
    /\ events \subseteq Alert
    /\ latest \in [Alert -> Ages] /\ previous \in [Alert -> Ages]
    /\ refused \in BOOLEAN
    /\ outage \in 0 .. Hold + 2

(***************************************************************************)
(* No false alarm: an alert that fires has had an event that its window    *)
(* still holds, also when the process has restarted and its counters were  *)
(* set back in the meantime.                                               *)
(***************************************************************************)
AlertHasCause == \A a \in Alert : Firing(a) => latest[a] <= Window[a] - 2

(***************************************************************************)
(* "a genuine outage will": when Redis refuses the limiter in each of      *)
(* Hold + 2 intervals in a row, RedisFallbackActive fires.  One interval   *)
(* may go to the first sample of the series, the others are the delay.     *)
(***************************************************************************)
OutageIsReported == outage = Hold + 2 => Firing("RedisFallbackActive")

(***************************************************************************)
(* "A single transient blip won't fire": behind an alert that fires there  *)
(* are events in two intervals that its window reaches.  But one event     *)
(* keeps the rate above zero for the whole window, which outlasts for:.    *)
(***************************************************************************)
SingleBlipNeverFires == \A a \in Alert : Firing(a) => previous[a] < Window[a]
=============================================================================
