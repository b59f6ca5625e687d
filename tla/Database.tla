----------------------------- MODULE Database ------------------------------
(***************************************************************************)
(* Postgres and the SQLAlchemy engine in front of it, as the handlers use  *)
(* them (app/db/database.py, app/db/models.py): the table urls with its    *)
(* unique index on short_code, the pool of connections, and the clock.     *)
(* Statements run at READ COMMITTED: each sees what is committed when it   *)
(* runs.  The handlers' own steps are in the modules that extend this one. *)
(***************************************************************************)
EXTENDS Integers, FiniteSets

CONSTANTS
    Codes,     \* short codes
    LongUrls,  \* destinations
    Creates,   \* POST /api/urls requests
    PoolSize,  \* connections of the engine's pool (pool_size and max_overflow)
    MaxTime,   \* bound: the clock stops here
    MaxFaults, \* bound: failures of the database, the pool and the process
    NoRow,     \* no committed row uses the code
    Nobody     \* no open transaction holds the code

VARIABLES
    rows,    \* rows[c]: the committed row of urls whose short_code is c
    claim,   \* claim[c]: the transaction whose uncommitted INSERT holds c in the unique index
    conns,   \* the sessions that hold a connection of the pool
    clock,   \* the wall clock
    faults   \* failures that may still happen

database == <<rows, claim, conns, clock, faults>>

Never == 0   \* expires_at IS NULL

\* A row of urls: by stands for its primary key, the INSERT that made it.
Row == [url : LongUrls, expires_at : Nat, by : Creates]

ASSUME Instance ==
    /\ PoolSize \in Nat \ {0}
    /\ MaxTime \in Nat
    /\ MaxFaults \in Nat
    /\ Nobody \notin Creates
    /\ NoRow \notin Row

DatabaseTypeOK ==
    /\ rows \in [Codes -> Row \cup {NoRow}]
    /\ claim \in [Codes -> Creates \cup {Nobody}]
    /\ Cardinality(conns) <= PoolSize
    /\ clock \in 0 .. MaxTime
    /\ faults \in 0 .. MaxFaults

\* is_expired
IsExpired(row) == row.expires_at # Never /\ row.expires_at <= clock

\* code_exists: a committed row uses the code.
CodeExists(c) == rows[c] # NoRow

\* Seeded fault: the pool hands out one connection too many.
PoolFullOffByOne(session) == session \notin conns /\ Cardinality(conns) > PoolSize

\* The session takes a connection at its first statement, and keeps it until it
\* is closed: a statement runs only in a session that has one.
PoolFull(session) == session \notin conns /\ Cardinality(conns) >= PoolSize

Connect(session) ==
    /\ ~PoolFull(session)
    /\ conns' = conns \cup {session}

\* get_db_session on its way out, after commit or rollback.
Disconnect(session) == conns' = conns \ {session}

\* A failure uses up the budget.  That no connection comes free within the pool's
\* timeout is one, unless something keeps the sessions that have them: they
\* return theirs after a few statements.
Fault == faults > 0 /\ faults' = faults - 1

Tick ==
    /\ clock < MaxTime
    /\ clock' = clock + 1
    /\ UNCHANGED <<rows, claim, conns, faults>>
=============================================================================
