------------------------------ MODULE Service ------------------------------
(***************************************************************************)
(* The application: POST /api/urls (CreateUrl) and GET /{short_code} with  *)
(* its click and its statistics (Redirect), over one table urls and one    *)
(* pool of connections, behind the router of app/main.py.                  *)
(*                                                                         *)
(* The router tries its routes in order, and the redirect route comes      *)
(* last: a short code that spells the path of another route is never seen  *)
(* by the redirect handler.                                                *)
(***************************************************************************)
EXTENDS Database

CONSTANTS
    Lifetimes, MaxRetries, Generated,                       \* see CreateUrl
    Visits, Readers, Expiries, Referrers,                   \* see Redirect
    RecentLimit, TopLimit, RedisStates, Miss, NoCode,
    Reserved  \* codes that spell another route: health, ready, metrics, docs, redoc

\* What the parts assume of the constants they share with this module; and every
\* request has a session of its own.
ASSUME Parts ==
    /\ Lifetimes \subseteq Nat
    /\ RecentLimit \in Nat \ {0} /\ TopLimit \in Nat \ {0}
    /\ IsFiniteSet(Visits)
    /\ Miss \notin LongUrls
    /\ Nobody \notin Visits
    /\ Creates \cap Visits = {} /\ Creates \cap Readers = {} /\ Visits \cap Readers = {}

VARIABLES
    pc, form, code, expires, attempts,                      \* see CreateUrl
    redis, cache, visit, target, found, click, rowlock,     \* see Redirect
    count, events, reader, subject, report,
    known     \* history: known[v] are the codes answered with 201 before v arrived

C == INSTANCE CreateUrl
R == INSTANCE Redirect

create == <<pc, form, code, expires, attempts>>
redirect == <<redis, cache, visit, target, found, click, rowlock,
              count, events, reader, subject, report>>
vars == <<rows, claim, conns, clock, faults, pc, form, code, expires, attempts,
          redis, cache, visit, target, found, click, rowlock,
          count, events, reader, subject, report, known>>

\* Codes whose creation was answered with 201.
Promised == {code[r] : r \in {q \in Creates : pc[q] = "201"}}

Init ==
    /\ C!CreateInit
    /\ R!RedirectInit
    /\ known = [v \in Visits |-> {}]

Creation ==
    /\ C!CreateNext
    /\ UNCHANGED <<redirect, known>>

Redirection ==
    /\ R!RedirectNext
    /\ \A v \in Visits : target'[v] # target[v] => target'[v] \notin Reserved
    /\ known' = [v \in Visits |-> IF target'[v] # target[v] THEN Promised ELSE known[v]]
    /\ UNCHANGED create

\* Another route matches the path first, and answers with a page of its own.
OtherRoute(v) ==
    /\ visit[v] = "idle"
    /\ \E c \in Codes \cap Reserved : target' = [target EXCEPT ![v] = c]
    /\ visit' = [visit EXCEPT ![v] = "other"]
    /\ known' = [known EXCEPT ![v] = Promised]
    /\ UNCHANGED <<database, create, redis, cache, found, click, rowlock,
                   count, events, reader, subject, report>>

\* Visits that wait for a hung Redis keep the connection a creation waits for.
Starvation ==
    /\ R!Stalled
    /\ \E r \in Creates : C!TimedOut(r)
    /\ UNCHANGED <<faults, redirect, known>>

\* The process dies and takes every request and task with it.
Crash ==
    /\ Fault
    /\ C!CreateCrash
    /\ R!RedirectCrash
    /\ conns' = {}
    /\ UNCHANGED <<rows, clock, known>>

Next ==
    \/ Creation
    \/ Redirection
    \/ \E v \in Visits : OtherRoute(v)
    \/ Starvation
    \/ Crash
    \/ Tick /\ UNCHANGED <<create, redirect, known>>

Spec == Init /\ [][Next]_vars

(***************************************************************************)
(* Postgres answers every statement, or the connection fails; the event    *)
(* loop runs every request and every background task.  Redis may stop for  *)
(* ever, but a hang ends, since nothing in the client ends it, and the     *)
(* commands it has taken are then answered or fail before it hangs again:  *)
(* hence the strong fairness of visits.  Nobody is obliged to send a       *)
(* request, and no failure, timeouts included, has to happen or to end.    *)
(***************************************************************************)
HangEnds ==
    /\ redis = "hung"
    /\ \E state \in RedisStates : R!RedisBecomes(state)
    /\ UNCHANGED <<create, known>>

Fairness ==
    /\ \A r \in Creates : WF_vars(C!Step(r) /\ UNCHANGED <<redirect, known>>)
    /\ \A v \in Visits :
         /\ SF_vars(R!VisitStep(v) /\ UNCHANGED <<create, known>>)
         /\ WF_vars(R!ClickStep(v) /\ UNCHANGED <<create, known>>)
    /\ WF_vars(HangEnds)
    /\ \A s \in Readers : WF_vars(R!ReaderStep(s) /\ UNCHANGED <<create, known>>)

FairSpec == Spec /\ Fairness
-----------------------------------------------------------------------------
(***************************************************************************)
(* Whoever follows a link after its creation was answered with 201 gets    *)
(* where it leads: the row is committed before the answer, and nothing     *)
(* caches its absence.  Failures apart, only two things keep a visitor     *)
(* from the destination: the link has expired, or its code spells the path *)
(* of another route.                                                       *)
(***************************************************************************)
CreatedIsFound ==
    \A v \in Visits : target[v] \in known[v] =>
        /\ visit[v] \notin {"absent", "404"}
        /\ visit[v] = "302" => found[v] = rows[target[v]].url
        /\ visit[v] \in {"outdated", "expired"} => IsExpired(rows[target[v]])
        /\ visit[v] = "other" => target[v] \in Reserved

(***************************************************************************)
(* A short code leads to one destination: two visits of it that were       *)
(* redirected, from the cache or from the table, before or after any       *)
(* attempt to create it again, were sent to the same place.                *)
(***************************************************************************)
RedirectsAgree ==
    \A v, w \in Visits :
        visit[v] = "302" /\ visit[w] = "302" /\ target[v] = target[w]
            => found[v] = found[w]

(***************************************************************************)
(* A visitor is only ever sent where the creator of the link asked, and by *)
(* a creation that was not refused.                                        *)
(***************************************************************************)
RedirectIsRequested ==
    \A v \in Visits : visit[v] = "302" =>
        \E r \in Creates : /\ pc[r] \in {"201", "500", "lost"}
                           /\ code[r] = target[v]
                           /\ form[r].url = found[v]

\* The sessions in the middle of a transaction, which cannot do without a connection.
Working ==
    {C!Session(r) : r \in {q \in Creates : pc[q] \in {"insert", "commit"}}}
    \cup {R!RequestOf(v) : v \in {w \in Visits : visit[w] \in {"fill", "absent", "outdated"}}}
    \cup {R!TaskOf(v) : v \in {w \in Visits : click[w] \in {"updating", "commit"}}}
    \cup {R!RequestOf(s) : s \in {t \in Readers : reader[t] \in {"recent", "top"}}}

\* Sessions that may have one: after a code that was taken, or before they end.
Between ==
    {C!Session(r) : r \in {q \in Creates : pc[q] = "generate"}}
    \cup {R!RequestOf(v) : v \in {w \in Visits : visit[w] = "close"}}

(***************************************************************************)
(* Whoever waits, waits for somebody who can go on: the connections of the *)
(* shared pool are with sessions that are at work, none is with a request  *)
(* that was answered, and none is handed out twice; the holder of a code   *)
(* in the index and the holder of a row's lock have nothing left to do but *)
(* to commit.  There is no circle of waiting, and no leak that would end   *)
(* in one, also when statements, tasks and the process fail.               *)
(***************************************************************************)
HoldersGoOn ==
    /\ Cardinality(conns) <= PoolSize
    /\ Working \subseteq conns /\ conns \subseteq Working \cup Between
    /\ \A c \in Codes : claim[c] # Nobody =>
         pc[claim[c]] = "commit" /\ code[claim[c]] = c
    /\ \A c \in Codes : rowlock[c] # Nobody =>
         click[rowlock[c]] = "commit" /\ target[rowlock[c]] = c

\* The sessions of everybody who has arrived and is not done.
Busy ==
    {C!Session(r) : r \in {q \in Creates : C!InFlight(q)}}
    \cup {R!RequestOf(v) : v \in {w \in Visits : R!VisitInFlight(w)}}
    \cup {R!TaskOf(v) : v \in {w \in Visits : R!ClickInFlight(w)}}
    \cup {R!RequestOf(s) : s \in {t \in Readers : R!ReaderInFlight(t)}}

\* Those of them who are about to take a connection, a code or a row, and cannot.
AwaitPool ==
    {s \in {C!Session(r) : r \in {q \in Creates : pc[q] \in {"check", "generate"}}}
           \cup {R!RequestOf(v) : v \in {w \in Visits : visit[w] = "lookup"}}
           \cup {R!TaskOf(v) : v \in {w \in Visits : click[w] = "queued"}}
           \cup {R!RequestOf(t) : t \in {u \in Readers : reader[u] = "url"}} : PoolFull(s)}

AwaitLock ==
    {C!Session(r) : r \in {q \in Creates : pc[q] = "insert" /\ claim[code[q]] # Nobody}}
    \cup {R!TaskOf(v) : v \in {w \in Visits : click[w] = "updating"
                                              /\ rowlock[target[w]] # Nobody}}

(***************************************************************************)
(* The handlers, the click tasks and the reports never all wait for one    *)
(* another: as long as anybody is busy, somebody has all the connections   *)
(* and locks that the next step takes, however small the pool is.          *)
(***************************************************************************)
SomebodyGoesOn == Busy # {} => Busy \ (AwaitPool \cup AwaitLock) # {}

(***************************************************************************)
(* Every creation that arrives is answered: waiting for a connection that  *)
(* others hold, or for a transaction that holds its code, always ends.     *)
(***************************************************************************)
EveryCreateAnswered ==
    \A r \in Creates : pc[r] \in {"check", "generate"} ~> pc[r] \in C!Answers

\* Every visit that arrives is answered, also while Redis is down, and however
\* often it hangs while the visit has the connection that others wait for.
EveryVisitAnswered ==
    \A v \in Visits : visit[v] = "cache" ~> visit[v] \in R!VisitAnswers

(***************************************************************************)
(* The click of every redirect is dealt with in the end: tasks do not      *)
(* starve of connections or of the lock of the row, since a request gives  *)
(* its connection back before its task asks for one.                       *)
(***************************************************************************)
EveryClickCounted ==
    \A v \in Visits : visit[v] = "302" ~> click[v] \in {"counted", "dropped"}

(***************************************************************************)
(* A link that was created can be followed: the 201 returns short_url, and *)
(* a GET of it is answered with the redirect as long as the link lives and *)
(* nothing fails.  The code accepts codes that another route shadows.      *)
(***************************************************************************)
CreatedIsReachable ==
    \A v \in Visits : target[v] \in known[v] => visit[v] # "other"

(***************************************************************************)
(* The whole is one abstract shortener: over shared rows and a shared pool *)
(* creations bind codes in one step, visits look where they lead in one    *)
(* step, and a code leads where the creation that bound it asked.          *)
(***************************************************************************)
Ideal == INSTANCE IdealService WITH
    Requests <- Creates, Unbound <- Nobody, Nowhere <- Miss,
    asked <- [r \in Creates |-> form[r].url],
    owner <- [c \in Codes |-> IF CodeExists(c) THEN rows[c].by ELSE Nobody],
    outcome <- [r \in Creates |->
                  CASE pc[r] = "201" -> "created"
                    [] pc[r] = "409" -> "conflict"
                    [] pc[r] \in {"503", "500", "lost"} -> "failed"
                    [] OTHER -> "pending"],
    live <- R!LiveLinks, state <- R!States, path <- target,
    destination <- R!Destinations, owed <- R!Owed

RefinesIdealService == Ideal!Spec
=============================================================================
