----------------------------- MODULE CreateUrl -----------------------------
(***************************************************************************)
(* POST /api/urls: create_url (app/api/routes.py) with the queries it      *)
(* makes (app/db/repository.py), the generator of codes                    *)
(* (app/core/shortener.py) and the transaction of get_db_session           *)
(* (app/db/database.py) around it.                                         *)
(*                                                                         *)
(* The existence check and the INSERT are separate statements, so two      *)
(* requests may pass the check for one code.  The INSERT of the second     *)
(* waits in the unique index until the transaction of the first ends.      *)
(* The commit happens when the session dependency exits, after the handler *)
(* returned and before the response is sent.                               *)
(***************************************************************************)
EXTENDS Database

CONSTANTS
    Lifetimes,   \* values of expires_in_days, Never for a link without one
    MaxRetries,  \* DEFAULT_MAX_COLLISION_RETRIES
    Generated    \* the custom_code of a request that names none

ASSUME Creation ==
    /\ Lifetimes \subseteq Nat
    /\ MaxRetries \in Nat \ {0}
    /\ Generated \notin Codes

VARIABLES
    pc,        \* pc[r]: the statement request r is about to run, or its answer
    form,      \* form[r]: the body of request r
    code,      \* code[r]: the code r checked last
    expires,   \* expires[r]: the expires_at it will insert
    attempts   \* attempts[r]: generated codes that turned out to be taken

create == <<pc, form, code, expires, attempts>>
createVars == <<rows, claim, conns, clock, faults, pc, form, code, expires, attempts>>

Form == [url : LongUrls, days : Lifetimes, custom : Codes \cup {Generated}]

Answers == {"201", "409", "503", "500", "lost"}

\* The request-scoped session of r.
Session(r) == [of |-> r, task |-> "request"]

CreateInit ==
    /\ rows = [c \in Codes |-> NoRow]
    /\ claim = [c \in Codes |-> Nobody]
    /\ conns = {}
    /\ clock = 0
    /\ faults = MaxFaults
    /\ pc = [r \in Creates |-> "idle"]
    /\ form \in [Creates -> Form]
    /\ code = [r \in Creates |-> form[r].custom]
    /\ expires = [r \in Creates |-> Never]
    /\ attempts = [r \in Creates |-> 0]

\* The request is through the limiter and its body is valid.
Submit(r) ==
    /\ pc[r] = "idle"
    /\ pc' = [pc EXCEPT ![r] = IF form[r].custom = Generated THEN "generate" ELSE "check"]
    /\ UNCHANGED <<database, form, code, expires, attempts>>

\* The code is free: expires_at is computed and the INSERT comes next.
Proceed(r, c) ==
    /\ code' = [code EXCEPT ![r] = c]
    /\ expires' = [expires EXCEPT ![r] =
                     IF form[r].days = Never THEN Never ELSE clock + form[r].days]
    /\ pc' = [pc EXCEPT ![r] = "insert"]
    /\ Connect(Session(r))
    /\ UNCHANGED <<rows, claim, clock, faults, form, attempts>>

\* The transaction is rolled back, the connection returned, and r answered.
Abort(r, answer) ==
    /\ claim' = [c \in Codes |-> IF claim[c] = r THEN Nobody ELSE claim[c]]
    /\ Disconnect(Session(r))
    /\ pc' = [pc EXCEPT ![r] = answer]
    /\ UNCHANGED <<rows, clock, form, expires>>

\* code_exists for a custom code: 409 when a row uses it.
CheckCustom(r) ==
    /\ pc[r] = "check"
    /\ ~PoolFull(Session(r))
    /\ \/ /\ ~CodeExists(form[r].custom)
          /\ Proceed(r, form[r].custom)
       \/ /\ CodeExists(form[r].custom)
          /\ Abort(r, "409")
          /\ UNCHANGED <<code, attempts, faults>>

\* One round of generate_unique_short_code; 503 after MaxRetries taken codes.
TryCode(r) ==
    /\ pc[r] = "generate"
    /\ ~PoolFull(Session(r))
    /\ \E c \in Codes :
         \/ /\ ~CodeExists(c)
            /\ Proceed(r, c)
         \/ /\ CodeExists(c)
            /\ attempts' = [attempts EXCEPT ![r] = @ + 1]
            /\ code' = [code EXCEPT ![r] = c]
            /\ \/ /\ attempts[r] + 1 < MaxRetries
                  /\ Connect(Session(r))
                  /\ UNCHANGED <<rows, claim, clock, faults, pc, form, expires>>
               \/ /\ attempts[r] + 1 = MaxRetries
                  /\ Abort(r, "503")
                  /\ UNCHANGED faults

\* Seeded fault: the INSERT does not wait for an uncommitted one, and refuses.
InsertNoWait(r) ==
    /\ pc[r] = "insert"
    /\ \/ /\ ~CodeExists(code[r])
          /\ claim[code[r]] = Nobody
          /\ claim' = [claim EXCEPT ![code[r]] = r]
          /\ pc' = [pc EXCEPT ![r] = "commit"]
          /\ UNCHANGED <<rows, conns, clock, faults, form, code, expires, attempts>>
       \/ /\ CodeExists(code[r]) \/ claim[code[r]] # Nobody
          /\ Abort(r, "409")
          /\ UNCHANGED <<code, attempts, faults>>

\* Seeded fault: the table has no unique index.
InsertUnchecked(r) ==
    /\ pc[r] = "insert"
    /\ claim' = [claim EXCEPT ![code[r]] = r]
    /\ pc' = [pc EXCEPT ![r] = "commit"]
    /\ UNCHANGED <<rows, conns, clock, faults, form, code, expires, attempts>>

\* Seeded fault: the INSERT is visible to others before it is committed.
InsertAutocommit(r) ==
    /\ pc[r] = "insert"
    /\ claim[code[r]] = Nobody
    /\ \/ /\ ~CodeExists(code[r])
          /\ claim' = [claim EXCEPT ![code[r]] = r]
          /\ rows' = [rows EXCEPT ![code[r]] =
                       [url |-> form[r].url, expires_at |-> expires[r], by |-> r]]
          /\ pc' = [pc EXCEPT ![r] = "commit"]
          /\ UNCHANGED <<conns, clock, faults, form, code, expires, attempts>>
       \/ /\ CodeExists(code[r])
          /\ Abort(r, "409")
          /\ UNCHANGED <<code, attempts, faults>>

\* Seeded fault: the request is answered after the flush, and never committed.
InsertForgetsCommit(r) ==
    /\ pc[r] = "insert"
    /\ Abort(r, IF CodeExists(code[r]) THEN "409" ELSE "201")
    /\ UNCHANGED <<code, attempts, faults>>

\* Seeded fault: IntegrityError makes the handler try the same code again.
InsertTriesAgain(r) ==
    /\ pc[r] = "insert"
    /\ claim[code[r]] = Nobody
    /\ \/ /\ ~CodeExists(code[r])
          /\ claim' = [claim EXCEPT ![code[r]] = r]
          /\ pc' = [pc EXCEPT ![r] = "commit"]
          /\ UNCHANGED <<rows, conns, clock, faults, form, code, expires, attempts>>
       \/ /\ CodeExists(code[r])
          /\ UNCHANGED createVars

\* The flush of repository.create_url.  While another transaction holds the code
\* in the unique index the INSERT waits; if that one commits, IntegrityError.
Insert(r) ==
    /\ pc[r] = "insert"
    /\ claim[code[r]] = Nobody
    /\ \/ /\ ~CodeExists(code[r])
          /\ claim' = [claim EXCEPT ![code[r]] = r]
          /\ pc' = [pc EXCEPT ![r] = "commit"]
          /\ UNCHANGED <<rows, conns, clock, faults, form, code, expires, attempts>>
       \/ /\ CodeExists(code[r])
          /\ Abort(r, "409")
          /\ UNCHANGED <<code, attempts, faults>>

NewRow(r) == [url |-> form[r].url, expires_at |-> expires[r], by |-> r]

\* The session dependency commits; the response follows.
CommitAs(r, answer) ==
    /\ pc[r] = "commit"
    /\ rows' = [rows EXCEPT ![code[r]] = NewRow(r)]
    /\ claim' = [claim EXCEPT ![code[r]] = Nobody]
    /\ Disconnect(Session(r))
    /\ pc' = [pc EXCEPT ![r] = answer]
    /\ UNCHANGED <<clock, form, code, expires, attempts>>

Commit(r) ==
    /\ CommitAs(r, "201")
    /\ UNCHANGED faults

\* The commit took effect but the connection broke before the reply, or nobody
\* was left to receive the answer.
CommitInDoubt(r) ==
    /\ \E answer \in {"500", "lost"} : CommitAs(r, answer)
    /\ Fault

InFlight(r) == pc[r] \notin Answers \cup {"idle"}

\* Seeded fault: the session is not closed when a statement fails.
DbErrorLeaks(r) ==
    /\ InFlight(r)
    /\ Fault
    /\ pc' = [pc EXCEPT ![r] = "500"]
    /\ UNCHANGED <<rows, claim, conns, clock, form, code, expires, attempts>>

\* A statement, or the commit, fails: rollback, 500.
DbError(r) ==
    /\ InFlight(r)
    /\ Fault
    /\ Abort(r, "500")
    /\ UNCHANGED <<code, attempts>>

\* No connection came free within the pool's timeout: 500.
TimedOut(r) ==
    /\ pc[r] \in {"check", "generate"}
    /\ PoolFull(Session(r))
    /\ Abort(r, "500")
    /\ UNCHANGED <<code, attempts>>

PoolTimeout(r) == TimedOut(r) /\ Fault

\* The process dies: Postgres rolls back what was open, nobody gets an answer.
CreateCrash ==
    /\ claim' = [c \in Codes |-> Nobody]
    /\ pc' = [r \in Creates |-> IF InFlight(r) THEN "lost" ELSE pc[r]]
    /\ UNCHANGED <<form, code, expires, attempts>>

Crash ==
    /\ Fault
    /\ CreateCrash
    /\ conns' = {}
    /\ UNCHANGED <<rows, clock>>

\* What request r does on its own.
Step(r) == CheckCustom(r) \/ TryCode(r) \/ Insert(r) \/ Commit(r)

CreateNext ==
    \E r \in Creates :
        \/ Submit(r) \/ Step(r)
        \/ CommitInDoubt(r) \/ DbError(r) \/ PoolTimeout(r)

Next ==
    \/ CreateNext
    \/ Crash
    \/ Tick /\ UNCHANGED create

Spec == CreateInit /\ [][Next]_createVars
-----------------------------------------------------------------------------
\* Type invariant.
TypeOK ==
    /\ DatabaseTypeOK
    /\ conns \subseteq {Session(r) : r \in Creates}
    /\ pc \in [Creates -> {"idle", "check", "generate", "insert", "commit"} \cup Answers]
    /\ form \in [Creates -> Form]
    /\ code \in [Creates -> Codes \cup {Generated}]
    /\ expires \in [Creates -> Nat]
    /\ attempts \in [Creates -> 0 .. MaxRetries]

(***************************************************************************)
(* A 201 is the truth, and stays it: the row of the returned code is       *)
(* committed, is the one this request asked for, and no other request, no  *)
(* failure and no crash takes it away.  In particular two requests are     *)
(* never both told that they own one code.                                 *)
(***************************************************************************)
CreatedIsDurable ==
    \A r \in Creates : pc[r] = "201" => rows[code[r]] = NewRow(r)

(***************************************************************************)
(* A 409 is true as well: the code it names is in use by another request,  *)
(* also when the conflict came from the index and not from the check.      *)
(***************************************************************************)
ConflictIsReal ==
    \A r \in Creates : pc[r] = "409" =>
        CodeExists(code[r]) /\ rows[code[r]].by # r

(***************************************************************************)
(* A refused request leaves nothing behind: only a request that was told   *)
(* 201, or that never learned whether its commit took effect, has a row.   *)
(***************************************************************************)
RefusedLeavesNoRow ==
    \A c \in Codes : CodeExists(c) => pc[rows[c].by] \in {"201", "500", "lost"}

(***************************************************************************)
(* An answered request holds neither a connection nor a place in the       *)
(* unique index, whatever failed: else later requests for its code, or     *)
(* all of them, would wait forever.                                        *)
(***************************************************************************)
AnsweredHoldsNothing ==
    \A r \in Creates : pc[r] \in Answers =>
        Session(r) \notin conns /\ \A c \in Codes : claim[c] # r

(***************************************************************************)
(* A row of urls is never overwritten or removed.  The redirect cache      *)
(* relies on this: nothing ever invalidates an entry.                      *)
(***************************************************************************)
RowsImmutable ==
    [][\A c \in Codes : CodeExists(c) => rows'[c] = rows[c]]_createVars

\* The register of codes that the rows and the answers amount to.
Registry == INSTANCE CodeRegistry
            WITH Requests <- Creates,
                 Unbound  <- Nobody,
                 owner    <- [c \in Codes |-> IF CodeExists(c) THEN rows[c].by ELSE Nobody],
                 outcome  <- [r \in Creates |->
                                CASE pc[r] = "201" -> "created"
                                  [] pc[r] = "409" -> "conflict"
                                  [] pc[r] \in {"503", "500", "lost"} -> "failed"
                                  [] OTHER -> "pending"]

(***************************************************************************)
(* Check, INSERT and commit in separate steps, with waiting, races and     *)
(* crashes, implement a register in which a code is bound in one step.     *)
(***************************************************************************)
RefinesCodeRegistry == Registry!Spec
=============================================================================
