--------------------------- MODULE ServiceProofs ----------------------------
(***************************************************************************)
(* Proofs about Service, for every set of codes, creations, visits and     *)
(* reports, any pool and any number of failures.                           *)
(*                                                                         *)
(* The table.  Creations see to it that it only grows and that every row   *)
(* is the one that its creation asked for (Registered); redirects, that    *)
(* what they carry and cache is what it says (Faithful).  A table that     *)
(* only grows keeps the second true while creations run.  The whole then   *)
(* implements IdealService.                                                *)
(*                                                                         *)
(* The pool and the locks.  Who has a connection, a code in the index or a *)
(* row's lock is known from where it stands (HoldInv), so that somebody    *)
(* can always go on.                                                       *)
(*                                                                         *)
(* The parts.  What CreateUrl and Redirect promise on their own holds when *)
(* they run together.                                                      *)
(***************************************************************************)
EXTENDS Service, DatabaseProofs

Places ==
    {"idle", "cache", "lookup", "fill", "close", "absent", "outdated", "other"}
    \cup R!VisitAnswers
Stages == {"idle", "check", "generate", "insert", "commit"} \cup C!Answers

-----------------------------------------------------------------------------
(* The table and the creations.                                            *)

CreatesTyped ==
    /\ rows \in [Codes -> Row \cup {NoRow}]
    /\ claim \in [Codes -> Creates \cup {Nobody}]
    /\ clock \in Nat
    /\ pc \in [Creates -> Stages]
    /\ form \in [Creates -> C!Form]
    /\ code \in [Creates -> Codes \cup {Generated}]
    /\ expires \in [Creates -> Nat]

\* Who checks has the code it was given; who is about to insert or to commit has one,
\* and the index holds it.
IndexSound ==
    /\ \A r \in Creates :
         /\ pc[r] \in {"idle", "check"} => code[r] = form[r].custom
         /\ pc[r] = "check" => form[r].custom \in Codes
         /\ pc[r] = "insert" => code[r] \in Codes
         /\ pc[r] = "commit" => code[r] \in Codes /\ claim[code[r]] = r
    /\ \A c \in Codes : claim[c] # Nobody => ~CodeExists(c)

\* A creation that may have a row.
Settled(r) == pc[r] \in {"201", "500", "lost"}

\* Every row is the one a settled creation asked for.
RowsRequested ==
    \A c \in Codes : CodeExists(c) =>
        /\ rows[c].by \in Creates /\ Settled(rows[c].by)
        /\ code[rows[c].by] = c
        /\ form[rows[c].by].url = rows[c].url
        /\ expires[rows[c].by] = rows[c].expires_at

\* The code of a 201 has the row of the creation, that of a 409 has one.
PromisesKept ==
    \A r \in Creates :
        /\ pc[r] \in {"201", "409"} => code[r] \in Codes /\ CodeExists(code[r])
        /\ pc[r] = "201" => rows[code[r]].by = r

Registered == CreatesTyped /\ IndexSound /\ RowsRequested /\ PromisesKept

\* No row is changed or removed.
RowsGrow == \A c \in Codes : CodeExists(c) => rows'[c] = rows[c]

LEMMA InitRegistered == Init => Registered
<1> SUFFICES ASSUME Init PROVE Registered
  OBVIOUS
<1> USE DEF Init, C!CreateInit
<1>1. CreatesTyped
  <2>1. form \in [Creates -> C!Form] /\ code = [r \in Creates |-> form[r].custom]
    OBVIOUS
  <2>2. code \in [Creates -> Codes \cup {Generated}]
    BY <2>1 DEF C!Form
  <2>3. pc \in [Creates -> Stages] /\ clock \in Nat
    BY DEF Stages
  <2>4. expires \in [Creates -> Nat]
    BY DEF C!Never
  <2>5. /\ rows \in [Codes -> Row \cup {NoRow}]
        /\ claim \in [Codes -> Creates \cup {Nobody}]
    OBVIOUS
  <2> QED
    BY <2>1, <2>2, <2>3, <2>4, <2>5 DEF CreatesTyped
<1> QED
  BY <1>1 DEF Registered, IndexSound, RowsRequested, PromisesKept, CodeExists

\* The sessions' part of an action says nothing of this.
LEMMA RegisteredKept ==
    ASSUME Registered, UNCHANGED <<rows, claim, create>>, clock' \in Nat
    PROVE  Registered' /\ RowsGrow
BY DEF Registered, CreatesTyped, IndexSound, RowsRequested, PromisesKept, Settled,
       CodeExists, RowsGrow, create

\* What r holds in the index when it gives up.
Released(r) == [c \in Codes |-> IF claim[c] = r THEN Nobody ELSE claim[c]]

\* A request moves on without writing to the table.
LEMMA MoveRegistered ==
    ASSUME Registered, NEW r \in Creates, ~Settled(r),
           NEW stage \in Stages \ {"commit", "201"}, pc' = [pc EXCEPT ![r] = stage],
           NEW c \in Codes \cup {Generated}, code' = [code EXCEPT ![r] = c],
           stage # "idle", stage = "check" => c = form[r].custom /\ c \in Codes,
           stage = "insert" => c \in Codes,
           stage = "409" => c \in Codes /\ CodeExists(c),
           claim' = claim \/ claim' = Released(r),
           NEW due \in Nat, expires' = [expires EXCEPT ![r] = due],
           UNCHANGED <<rows, clock, form>>
    PROVE  Registered' /\ RowsGrow
<1>0. CreatesTyped /\ IndexSound /\ RowsRequested /\ PromisesKept
  BY DEF Registered
<1>1. CreatesTyped'
  BY <1>0 DEF CreatesTyped, Stages, Released, Row, C!Form
<1>2. \A q \in Creates : q # r =>
        pc'[q] = pc[q] /\ code'[q] = code[q] /\ expires'[q] = expires[q]
  BY <1>0 DEF CreatesTyped
<1>3. pc'[r] = stage /\ code'[r] = c
  BY <1>0 DEF CreatesTyped
<1>4. /\ \A q \in Creates, d \in Codes : q # r /\ claim[d] = q => claim'[d] = q
      /\ \A d \in Codes : claim'[d] # Nobody => claim[d] # Nobody
  BY <1>0 DEF CreatesTyped, Released
<1>5. IndexSound'
  BY <1>0, <1>2, <1>3, <1>4 DEF IndexSound, CodeExists
<1>6. RowsRequested'
  BY <1>0, <1>2 DEF RowsRequested, Settled, CodeExists
<1>7. PromisesKept'
  BY <1>0, <1>2, <1>3 DEF PromisesKept, CodeExists
<1> QED
  BY <1>1, <1>5, <1>6, <1>7 DEF Registered, RowsGrow

LEMMA InsertRegistered ==
    ASSUME Registered, NEW r \in Creates, C!Insert(r)
    PROVE  Registered' /\ RowsGrow
<1>0. CreatesTyped /\ IndexSound /\ RowsRequested /\ PromisesKept
  BY DEF Registered
<1>1. pc[r] = "insert" /\ code[r] \in Codes /\ claim[code[r]] = Nobody
  BY <1>0 DEF C!Insert, IndexSound
<1>2. CASE /\ ~CodeExists(code[r])
           /\ claim' = [claim EXCEPT ![code[r]] = r]
           /\ pc' = [pc EXCEPT ![r] = "commit"]
           /\ UNCHANGED <<rows, clock, form, code, expires>>
  <2>1. CreatesTyped'
    BY <1>0, <1>1, <1>2 DEF CreatesTyped, Stages, Row, C!Form
  <2>2. /\ \A q \in Creates : q # r => pc'[q] = pc[q]
        /\ pc'[r] = "commit" /\ code' = code /\ form' = form /\ rows' = rows
        /\ expires' = expires
        /\ \A d \in Codes : claim'[d] = IF d = code[r] THEN r ELSE claim[d]
    BY <1>0, <1>1, <1>2 DEF CreatesTyped
  <2>3. IndexSound'
    BY <1>0, <1>1, <1>2, <2>2, Instance DEF IndexSound, CodeExists
  <2>4. RowsRequested' /\ PromisesKept'
    BY <1>0, <1>1, <2>2 DEF RowsRequested, PromisesKept, Settled, CodeExists
  <2> QED
    BY <2>1, <2>2, <2>3, <2>4 DEF Registered, RowsGrow
<1>3. CASE C!Abort(r, "409") /\ CodeExists(code[r]) /\ UNCHANGED code
  <2>1. /\ code[r] \in Codes \cup {Generated} /\ code' = [code EXCEPT ![r] = code[r]]
        /\ expires[r] \in Nat /\ expires' = [expires EXCEPT ![r] = expires[r]]
    BY <1>0, <1>3 DEF CreatesTyped, C!Abort
  <2>2. /\ pc' = [pc EXCEPT ![r] = "409"] /\ claim' = Released(r)
        /\ UNCHANGED <<rows, clock, form>>
    BY <1>0, <1>3 DEF C!Abort, Released, CreatesTyped
  <2>3. "409" \in Stages \ {"commit", "201"} /\ ~Settled(r)
    BY <1>1 DEF Stages, C!Answers, Settled
  <2> QED
    BY <1>1, <1>3, <2>1, <2>2, <2>3, MoveRegistered
<1> QED
  BY <1>2, <1>3 DEF C!Insert, CodeExists, C!CodeExists

LEMMA CommitRegistered ==
    ASSUME Registered, NEW r \in Creates, NEW answer \in {"201", "500", "lost"},
           C!CommitAs(r, answer)
    PROVE  Registered' /\ RowsGrow
<1>0. CreatesTyped /\ IndexSound /\ RowsRequested /\ PromisesKept
  BY DEF Registered
<1>1. /\ pc[r] = "commit" /\ code[r] \in Codes /\ claim[code[r]] = r
      /\ ~CodeExists(code[r])
  BY <1>0, Instance DEF C!CommitAs, IndexSound
<1>2. /\ C!NewRow(r) \in Row /\ C!NewRow(r) # NoRow
      /\ C!NewRow(r).by = r /\ C!NewRow(r).url = form[r].url
      /\ C!NewRow(r).expires_at = expires[r]
  BY <1>0, Instance DEF CreatesTyped, C!NewRow, Row, C!Form
<1>3. /\ rows' = [rows EXCEPT ![code[r]] = C!NewRow(r)]
      /\ claim' = [claim EXCEPT ![code[r]] = Nobody]
      /\ pc' = [pc EXCEPT ![r] = answer]
      /\ UNCHANGED <<clock, form, code, expires>>
  BY DEF C!CommitAs
<1>4. CreatesTyped'
  BY <1>0, <1>2, <1>3 DEF CreatesTyped, Stages, C!Answers, C!Form
<1>5. /\ \A q \in Creates : pc'[q] = IF q = r THEN answer ELSE pc[q]
      /\ \A d \in Codes : claim'[d] = IF d = code[r] THEN Nobody ELSE claim[d]
      /\ \A d \in Codes : rows'[d] = IF d = code[r] THEN C!NewRow(r) ELSE rows[d]
      /\ code' = code /\ form' = form /\ expires' = expires
  BY <1>0, <1>3 DEF CreatesTyped
<1>6. IndexSound'
  BY <1>0, <1>1, <1>5 DEF IndexSound, CodeExists
<1>7. RowsRequested'
  BY <1>0, <1>1, <1>2, <1>5 DEF RowsRequested, Settled, CodeExists
<1>8. PromisesKept'
  BY <1>0, <1>1, <1>2, <1>5 DEF PromisesKept, CodeExists
<1>9. RowsGrow
  BY <1>1, <1>5 DEF RowsGrow, CodeExists
<1> QED
  BY <1>4, <1>6, <1>7, <1>8, <1>9 DEF Registered

LEMMA CreationRegistered ==
    ASSUME Registered, NEW r \in Creates,
           \/ C!Submit(r) \/ C!Step(r)
           \/ C!CommitInDoubt(r) \/ C!DbError(r) \/ C!TimedOut(r)
    PROVE  Registered' /\ RowsGrow
<1>0. /\ CreatesTyped /\ IndexSound /\ code[r] \in Codes \cup {Generated}
      /\ code = [code EXCEPT ![r] = code[r]]
      /\ expires[r] \in Nat /\ expires = [expires EXCEPT ![r] = expires[r]]
  BY DEF Registered, CreatesTyped
<1>1. CASE C!Submit(r)
  <2>1. pc[r] = "idle" /\ UNCHANGED <<rows, claim, clock, form, code, expires>>
    BY <1>1 DEF C!Submit, C!database
  <2>2. \E stage \in {"generate", "check"} :
          /\ pc' = [pc EXCEPT ![r] = stage]
          /\ stage = "check" => code[r] = form[r].custom /\ code[r] \in Codes
    BY <1>0, <1>1, <2>1 DEF C!Submit, CreatesTyped, IndexSound, C!Form
  <2>3. /\ ~Settled(r)
        /\ {"generate", "check"} \subseteq Stages \ {"idle", "commit", "201", "409", "insert"}
    BY <2>1 DEF Settled, Stages, C!Answers
  <2> QED
    BY <1>0, <2>1, <2>2, <2>3, MoveRegistered DEF CreatesTyped
<1>2. ASSUME NEW c \in Codes, C!Proceed(r, c), ~Settled(r) PROVE Registered' /\ RowsGrow
  <2>1. /\ pc' = [pc EXCEPT ![r] = "insert"] /\ code' = [code EXCEPT ![r] = c]
        /\ UNCHANGED <<rows, claim, clock, form>>
    BY <1>2 DEF C!Proceed
  <2>2. PICK due \in Nat : expires' = [expires EXCEPT ![r] = due]
    <3>1. form[r].days \in Nat
      BY <1>0, Parts DEF CreatesTyped, C!Form
    <3>2. PICK due \in Nat :
            due = IF form[r].days = C!Never THEN C!Never ELSE clock + form[r].days
      BY <1>0, <3>1 DEF CreatesTyped, C!Never
    <3> QED
      BY <1>2, <3>2 DEF C!Proceed
  <2>3. "insert" \in Stages \ {"commit", "201"} /\ c \in Codes \cup {Generated}
    BY DEF Stages
  <2>4. PICK stage \in Stages \ {"commit", "201"} : stage = "insert"
    BY <2>3
  <2> QED
    BY <1>2, <2>1, <2>2, <2>3, <2>4, MoveRegistered
<1>3. ASSUME NEW answer \in {"409", "503", "500"}, C!Abort(r, answer), ~Settled(r),
             NEW c \in Codes \cup {Generated}, code' = [code EXCEPT ![r] = c],
             answer = "409" => c \in Codes /\ CodeExists(c)
      PROVE  Registered' /\ RowsGrow
  <2>1. /\ pc' = [pc EXCEPT ![r] = answer] /\ claim' = Released(r)
        /\ UNCHANGED <<rows, clock, form, expires>>
    BY <1>3 DEF C!Abort, Released
  <2>2. answer \in Stages \ {"idle", "commit", "201", "check", "insert"}
    BY DEF Stages, C!Answers
  <2> QED
    BY <1>0, <1>3, <2>1, <2>2, MoveRegistered DEF CreatesTyped
<1>4. CASE C!CheckCustom(r)
  <2>1. ~Settled(r) /\ form[r].custom \in Codes /\ code[r] = form[r].custom
    BY <1>0, <1>4 DEF C!CheckCustom, Settled, IndexSound
  <2>2. CASE C!Proceed(r, form[r].custom)
    <3>1. PICK c \in Codes : c = form[r].custom
      BY <2>1
    <3> QED
      BY <1>2, <2>1, <2>2, <3>1
  <2>3. CASE C!Abort(r, "409") /\ C!CodeExists(form[r].custom) /\ UNCHANGED code
    <3>1. PICK c \in Codes \cup {Generated} : c = code[r]
      BY <1>0
    <3> QED
      BY <1>0, <1>3, <2>1, <2>3, <3>1 DEF CodeExists, C!CodeExists
  <2> QED
    BY <1>4, <2>2, <2>3 DEF C!CheckCustom
<1>5. CASE C!TryCode(r)
  <2>1. pc[r] = "generate" /\ ~Settled(r)
    BY <1>5 DEF C!TryCode, Settled
  <2>2. ASSUME NEW c \in Codes, code' = [code EXCEPT ![r] = c],
               UNCHANGED <<rows, claim, clock, pc, form, expires>>
        PROVE  Registered' /\ RowsGrow
    <3>1. pc' = [pc EXCEPT ![r] = "generate"]
      BY <1>0, <2>1, <2>2 DEF CreatesTyped
    <3>2. "generate" \in Stages \ {"idle", "commit", "201"}
      BY DEF Stages
    <3> QED
      BY <1>0, <2>1, <2>2, <3>1, <3>2, MoveRegistered DEF CreatesTyped
  <2>3. PICK c \in Codes :
          \/ C!Proceed(r, c)
          \/ /\ code' = [code EXCEPT ![r] = c]
             /\ \/ UNCHANGED <<rows, claim, clock, pc, form, expires>>
                \/ C!Abort(r, "503")
    BY <1>5 DEF C!TryCode
  <2> QED
    BY <1>2, <1>3, <2>1, <2>2, <2>3
<1>6. CASE C!Commit(r) \/ C!CommitInDoubt(r)
  BY <1>6, CommitRegistered DEF C!Commit, C!CommitInDoubt
<1>7. CASE C!DbError(r) \/ C!TimedOut(r)
  <2>1. ~Settled(r) /\ C!Abort(r, "500") /\ UNCHANGED code
    BY <1>7 DEF C!DbError, C!TimedOut, C!InFlight, C!Answers, Settled
  <2>2. PICK c \in Codes \cup {Generated} : c = code[r]
    BY <1>0
  <2> QED
    BY <1>0, <1>3, <2>1, <2>2
<1> QED
  BY <1>1, <1>4, <1>5, <1>6, <1>7, InsertRegistered DEF C!Step

LEMMA CrashRegistered ==
    ASSUME Registered, C!CreateCrash, UNCHANGED <<rows, clock>>
    PROVE  Registered' /\ RowsGrow
<1>0. CreatesTyped /\ IndexSound /\ RowsRequested /\ PromisesKept
  BY DEF Registered
<1> USE DEF C!CreateCrash
<1>1. CreatesTyped'
  BY <1>0 DEF CreatesTyped, Stages, C!Answers, Row, C!Form
<1>2. \A r \in Creates :
        /\ pc'[r] \notin {"check", "insert", "commit"}
        /\ Settled(r) => Settled(r)'
        /\ pc'[r] \in {"idle", "201", "409"} => pc'[r] = pc[r]
  BY <1>0 DEF CreatesTyped, Stages, C!InFlight, C!Answers, Settled
<1>3. IndexSound'
  BY <1>0, <1>2 DEF IndexSound
<1>4. RowsRequested' /\ PromisesKept'
  BY <1>0, <1>2 DEF RowsRequested, PromisesKept, CodeExists
<1> QED
  BY <1>1, <1>3, <1>4 DEF Registered, RowsGrow

\* What creations do on their own, or for want of a connection.
CreationMoves ==
    /\ \E r \in Creates :
         \/ C!Submit(r) \/ C!Step(r)
         \/ C!CommitInDoubt(r) \/ C!DbError(r) \/ C!TimedOut(r)
    /\ UNCHANGED <<redirect, known>>

LEMMA CreationsMove ==
    ASSUME Creation \/ Starvation
    PROVE  CreationMoves
BY DEF Creation, Starvation, CreationMoves, C!CreateNext, C!PoolTimeout

-----------------------------------------------------------------------------
(* The visits and the cache.                                               *)

VisitsTyped ==
    /\ cache \in [Codes -> LongUrls \cup {Miss}]
    /\ visit \in [Visits -> Places]
    /\ target \in [Visits -> Codes \cup {NoCode}]
    /\ found \in [Visits -> LongUrls \cup {Miss}]
    /\ known \in [Visits -> SUBSET Codes]
    /\ \A v \in Visits : visit[v] # "idle" => target[v] \in Codes

\* What is cached is the destination of a row that never expires.
CacheSound ==
    \A c \in Codes : cache[c] # Miss =>
        CodeExists(c) /\ rows[c].url = cache[c] /\ rows[c].expires_at = Never

\* A visit that has settled carries the destination of the row of its code.
VisitsSound ==
    \A v \in Visits : visit[v] \in {"fill", "close", "302"} =>
        /\ CodeExists(target[v]) /\ rows[target[v]].url = found[v]
        /\ visit[v] = "fill" => rows[target[v]].expires_at = Never

\* A link that is over; it stays so.
Overdue(c) == CodeExists(c) /\ IsExpired(rows[c])

\* What was promised before a visit arrived exists, and is not denied; only a link
\* that is over is refused as such, and only reserved codes go elsewhere.
KnownSound ==
    \A v \in Visits :
        /\ \A c \in known[v] : CodeExists(c)
        /\ visit[v] \in {"absent", "404"} => target[v] \notin known[v]
        /\ visit[v] \in {"outdated", "expired"} => Overdue(target[v])
        /\ visit[v] = "other" => target[v] \in Reserved

Faithful == VisitsTyped /\ CacheSound /\ VisitsSound /\ KnownSound

LEMMA InitFaithful == Init => Faithful
BY DEF Init, R!RedirectInit, Faithful, VisitsTyped, CacheSound, VisitsSound, KnownSound, Places

\* While the table grows, what redirects hold stays right.
LEMMA FaithfulKept ==
    ASSUME Registered, Faithful, RowsGrow, clock' \in {clock, clock + 1},
           UNCHANGED <<cache, visit, target, found, known>>
    PROVE  Faithful'
<1>0. \A c \in Codes : Overdue(c) => Overdue(c)'
  BY DEF Registered, CreatesTyped, Row, Overdue, RowsGrow, CodeExists, IsExpired, Never
<1>1. \A c \in Codes : CodeExists(c) => CodeExists(c)' /\ rows'[c] = rows[c]
  BY DEF RowsGrow, CodeExists
<1>2. \A v \in Visits : known[v] \subseteq Codes
  BY DEF Faithful, VisitsTyped
<1>3. \A v \in Visits : visit[v] # "idle" => target[v] \in Codes
  BY DEF Faithful, VisitsTyped
<1>4. KnownSound'
  BY <1>0, <1>1, <1>2, <1>3 DEF Faithful, KnownSound
<1> QED
  BY <1>1, <1>2, <1>4 DEF Faithful, VisitsTyped, CacheSound, VisitsSound

\* A visit goes on with its code, from a place that is no answer.
LEMMA VisitFaithful ==
    ASSUME Faithful, UNCHANGED <<rows, clock, target, known>>,
           NEW v \in Visits,
           visit[v] \in {"cache", "lookup", "fill", "close", "absent", "outdated"},
           NEW place \in Places, visit' = [visit EXCEPT ![v] = place],
           NEW url \in LongUrls \cup {Miss}, found' = [found EXCEPT ![v] = url],
           place \in {"fill", "close", "302"} =>
               CodeExists(target[v]) /\ rows[target[v]].url = url,
           place = "fill" => rows[target[v]].expires_at = Never,
           place \in {"absent", "404"} => target[v] \notin known[v],
           place \in {"outdated", "expired"} => Overdue(target[v]),
           place # "other",
           \/ cache' = cache
           \/ visit[v] = "fill" /\ cache' = [cache EXCEPT ![target[v]] = url]
               /\ url = found[v]
    PROVE  Faithful'
<1>0. /\ VisitsTyped /\ CacheSound /\ VisitsSound /\ KnownSound
      /\ target[v] \in Codes
  BY DEF Faithful, VisitsTyped
<1>1. VisitsTyped'
  BY <1>0 DEF VisitsTyped, Places, R!VisitAnswers
<1>2. /\ \A w \in Visits : w # v => visit'[w] = visit[w] /\ found'[w] = found[w]
      /\ visit'[v] = place /\ found'[v] = url
  BY <1>0 DEF VisitsTyped
<1>3. \A c \in Codes :
        \/ cache'[c] = cache[c]
        \/ c = target[v] /\ cache'[c] = url /\ visit[v] = "fill" /\ url = found[v]
  BY <1>0 DEF VisitsTyped
<1>4. CacheSound'
  BY <1>0, <1>3 DEF CacheSound, VisitsSound, CodeExists, Never
<1>5. VisitsSound'
  BY <1>0, <1>2 DEF VisitsSound, CodeExists, Never
<1>6. KnownSound'
  BY <1>0, <1>2 DEF KnownSound, CodeExists, Overdue, IsExpired
<1> QED
  BY <1>1, <1>4, <1>5, <1>6 DEF Faithful

\* A visit arrives, and learns what has been promised so far.
LEMMA ArrivalFaithful ==
    ASSUME Registered, Faithful, UNCHANGED <<rows, clock, cache, found>>,
           NEW v \in Visits, visit[v] = "idle",
           NEW c \in Codes, target' = [target EXCEPT ![v] = c],
           NEW place \in {"cache", "other"}, visit' = [visit EXCEPT ![v] = place],
           place = "other" => c \in Reserved,
           NEW told \in {Promised, known[v]}, known' = [known EXCEPT ![v] = told]
    PROVE  Faithful'
<1>0. VisitsTyped /\ CacheSound /\ VisitsSound /\ KnownSound
  BY DEF Faithful
<1>1. told \subseteq Codes /\ \A d \in told : CodeExists(d)
  BY <1>0 DEF Registered, PromisesKept, Promised, KnownSound, VisitsTyped
<1>2. VisitsTyped'
  BY <1>0, <1>1 DEF VisitsTyped, Places
<1>3. /\ \A w \in Visits : w # v =>
            visit'[w] = visit[w] /\ target'[w] = target[w] /\ known'[w] = known[w]
      /\ visit'[v] = place /\ known'[v] = told /\ target'[v] = c
  BY <1>0 DEF VisitsTyped
<1>4. CacheSound' /\ VisitsSound'
  BY <1>0, <1>1, <1>3 DEF CacheSound, VisitsSound, CodeExists
<1>5. KnownSound'
  BY <1>0, <1>1, <1>3 DEF KnownSound, CodeExists, Overdue, IsExpired
<1> QED
  BY <1>2, <1>4, <1>5 DEF Faithful

LEMMA CrashFaithful ==
    ASSUME Faithful, R!RedirectCrash, UNCHANGED <<rows, clock, known>>
    PROVE  Faithful'
<1>0. VisitsTyped /\ CacheSound /\ VisitsSound /\ KnownSound
  BY DEF Faithful
<1> USE DEF R!RedirectCrash
<1>1. VisitsTyped'
  BY <1>0 DEF VisitsTyped, Places, R!VisitAnswers, R!VisitInFlight
<1>2. \A v \in Visits : visit'[v] = visit[v] \/ visit'[v] = "lost"
  BY <1>0 DEF VisitsTyped
<1>3. VisitsSound' /\ KnownSound' /\ CacheSound'
  BY <1>0, <1>2 DEF CacheSound, VisitsSound, KnownSound, CodeExists, Overdue, IsExpired
<1> QED
  BY <1>1, <1>3 DEF Faithful

LEMMA VisitStepFaithful ==
    ASSUME Registered, Faithful, UNCHANGED known, NEW v \in Visits,
           R!VisitStep(v) \/ R!VisitDbError(v) \/ R!VisitPoolTimeout(v)
    PROVE  Faithful'
<1>0. /\ VisitsTyped /\ CacheSound /\ VisitsSound /\ KnownSound
      /\ UNCHANGED <<rows, clock, target>>
      /\ visit[v] \in {"cache", "lookup", "fill", "close", "absent", "outdated"}
      /\ target[v] \in Codes
      /\ found = [found EXCEPT ![v] = found[v]]
  <2>1. /\ UNCHANGED <<rows, clock, target>>
        /\ visit[v] \in {"cache", "lookup", "fill", "close", "absent", "outdated"}
    BY DEF R!VisitStep, R!CacheGet, R!CacheGetFails, R!Lookup, R!NotFound, R!CacheFill,
           R!CacheFillFails, R!Close, R!RollBack, R!VisitDbError, R!VisitPoolTimeout,
           R!database
  <2> QED
    BY <2>1 DEF Faithful, VisitsTyped
<1>1. PICK was \in LongUrls \cup {Miss} : was = found[v] /\ found = [found EXCEPT ![v] = was]
  BY <1>0 DEF VisitsTyped
\* Steps after which the visit carries what it has carried.
<1>2. ASSUME NEW place \in Places \ {"fill"},
             visit' = [visit EXCEPT ![v] = place], UNCHANGED found,
             place \in {"close", "302"} => visit[v] \in {"fill", "close"},
             place \in {"absent", "404"} => target[v] \notin known[v],
             place \in {"outdated", "expired"} => Overdue(target[v]),
             place # "other",
             \/ cache' = cache
             \/ visit[v] = "fill" /\ cache' = [cache EXCEPT ![target[v]] = found[v]]
      PROVE  Faithful'
  <2>1. place \in {"fill", "close", "302"} =>
          CodeExists(target[v]) /\ rows[target[v]].url = was
    BY <1>0, <1>1, <1>2 DEF VisitsSound
  <2>2. found' = [found EXCEPT ![v] = was]
    BY <1>1, <1>2
  <2> QED
    BY <1>0, <1>1, <1>2, <2>1, <2>2, VisitFaithful
<1>3. {"lookup", "close", "absent", "outdated", "expired", "500", "404", "302"}
        \subseteq Places \ {"fill"}
      /\ "fill" \in Places
  BY DEF Places, R!VisitAnswers
<1>4. CASE R!CacheGet(v)
  <2>1. /\ UNCHANGED cache /\ found' = [found EXCEPT ![v] = cache[target[v]]]
        /\ visit' = [visit EXCEPT ![v] = IF cache[target[v]] # Miss THEN "close" ELSE "lookup"]
    BY <1>4 DEF R!CacheGet, R!Goto
  <2>2. PICK url \in LongUrls \cup {Miss} : url = cache[target[v]]
    BY <1>0 DEF VisitsTyped
  <2>3. url # Miss => CodeExists(target[v]) /\ rows[target[v]].url = url
    BY <1>0, <2>2 DEF CacheSound
  <2>4. CASE url # Miss
    BY <1>0, <1>3, <2>1, <2>2, <2>3, <2>4, VisitFaithful
  <2>5. CASE url = Miss
    BY <1>0, <1>3, <2>1, <2>2, <2>5, VisitFaithful
  <2> QED
    BY <2>4, <2>5
<1>5. CASE R!CacheGetFails(v)
  BY <1>2, <1>3, <1>5 DEF R!CacheGetFails, R!Goto
<1>6. CASE R!Lookup(v)
  <2>1. /\ UNCHANGED cache /\ CodeExists(target[v])
        /\ found' = [found EXCEPT ![v] = rows[target[v]].url]
        /\ visit' = [visit EXCEPT ![v] =
                       IF rows[target[v]].expires_at = Never THEN "fill" ELSE "close"]
    BY <1>6 DEF R!Lookup, R!Goto, R!Resolvable, R!CodeExists, CodeExists, R!Never, Never
  <2>2. PICK url \in LongUrls \cup {Miss} : url = rows[target[v]].url
    BY <1>0, <2>1 DEF Registered, CreatesTyped, Row, CodeExists
  <2>3. CASE rows[target[v]].expires_at = Never
    BY <1>0, <1>3, <2>1, <2>2, <2>3, VisitFaithful
  <2>4. CASE rows[target[v]].expires_at # Never
    BY <1>0, <1>3, <2>1, <2>2, <2>4, VisitFaithful
  <2> QED
    BY <2>3, <2>4
<1>7. CASE R!NotFound(v)
  <2>1. /\ UNCHANGED <<cache, found>>
        /\ \/ visit' = [visit EXCEPT ![v] = "outdated"] /\ Overdue(target[v])
           \/ visit' = [visit EXCEPT ![v] = "absent"] /\ ~CodeExists(target[v])
    BY <1>7 DEF R!NotFound, R!Goto, R!Resolvable, R!CodeExists, CodeExists, Overdue,
         R!IsExpired, IsExpired, R!Never, Never
  <2>2. CASE visit' = [visit EXCEPT ![v] = "outdated"] /\ Overdue(target[v])
    BY <1>2, <1>3, <2>1, <2>2
  <2>3. CASE visit' = [visit EXCEPT ![v] = "absent"] /\ ~CodeExists(target[v])
    <3>1. target[v] \notin known[v]
      BY <1>0, <2>3 DEF KnownSound
    <3> QED
      BY <1>2, <1>3, <2>1, <2>3, <3>1
  <2> QED
    BY <2>1, <2>2, <2>3
<1>8. CASE R!CacheFill(v) \/ R!CacheFillFails(v)
  <2>1. /\ visit[v] = "fill" /\ visit' = [visit EXCEPT ![v] = "close"] /\ UNCHANGED found
        /\ cache' = cache \/ cache' = [cache EXCEPT ![target[v]] = found[v]]
    BY <1>8 DEF R!CacheFill, R!CacheFillFails, R!Goto
  <2> QED
    BY <1>2, <1>3, <2>1
<1>9. CASE R!Close(v)
  <2>1. visit[v] = "close" /\ visit' = [visit EXCEPT ![v] = "302"] /\ UNCHANGED <<cache, found>>
    BY <1>9 DEF R!Close, R!Goto
  <2> QED
    BY <1>2, <1>3, <2>1
<1>10. CASE R!VisitDbError(v) \/ R!VisitPoolTimeout(v)
  BY <1>2, <1>3, <1>10 DEF R!VisitDbError, R!VisitPoolTimeout, R!Goto
<1>11. CASE R!RollBack(v)
  <2>1. /\ UNCHANGED <<cache, found>>
        /\ \/ visit[v] = "absent" /\ visit' = [visit EXCEPT ![v] = "404"]
           \/ visit[v] = "outdated" /\ visit' = [visit EXCEPT ![v] = "expired"]
    BY <1>11 DEF R!RollBack, R!Goto
  <2>2. /\ visit[v] = "absent" => target[v] \notin known[v]
        /\ visit[v] = "outdated" => Overdue(target[v])
    BY <1>0 DEF KnownSound
  <2>3. CASE visit[v] = "absent"
    BY <1>2, <1>3, <2>1, <2>2, <2>3
  <2>4. CASE visit[v] = "outdated"
    BY <1>2, <1>3, <2>1, <2>2, <2>4
  <2> QED
    BY <2>1, <2>3, <2>4
<1> QED
  BY <1>4, <1>5, <1>6, <1>7, <1>8, <1>9, <1>10, <1>11 DEF R!VisitStep

\* One step of the redirects, the clicks, the reports, Redis or the cache.
LEMMA RedirectionFaithful ==
    ASSUME Registered, Faithful, Redirection
    PROVE  Faithful'
<1>0. /\ VisitsTyped /\ CacheSound /\ VisitsSound /\ KnownSound
      /\ known' = [v \in Visits |-> IF target'[v] # target[v] THEN Promised ELSE known[v]]
  BY DEF Faithful, Redirection
<1>1. target' = target => known' = known
  BY <1>0 DEF VisitsTyped
<1>2. ASSUME NEW v \in Visits, R!Arrive(v) PROVE Faithful'
  <2>1. PICK c \in Codes : target' = [target EXCEPT ![v] = c]
    BY <1>2 DEF R!Arrive
  <2>2. /\ visit[v] = "idle" /\ visit' = [visit EXCEPT ![v] = "cache"]
        /\ UNCHANGED <<rows, clock, cache, found>>
    BY <1>2 DEF R!Arrive, R!Goto, R!database
  <2>3. \E told \in {Promised, known[v]} : known' = [known EXCEPT ![v] = told]
    BY <1>0, <2>1 DEF VisitsTyped
  <2> QED
    BY <2>1, <2>2, <2>3, ArrivalFaithful
<1>3. ASSUME NEW v \in Visits, R!VisitStep(v) \/ R!VisitDbError(v) \/ R!VisitPoolTimeout(v)
      PROVE  Faithful'
  <2>1. target' = target
    BY <1>3 DEF R!VisitStep, R!CacheGet, R!CacheGetFails, R!Lookup, R!NotFound, R!CacheFill,
           R!CacheFillFails, R!Close, R!RollBack, R!VisitDbError, R!VisitPoolTimeout
  <2> QED
    BY <1>1, <1>3, <2>1, VisitStepFaithful
<1>4. ASSUME UNCHANGED <<rows, clock, cache, visit, target, found>> PROVE Faithful'
  BY <1>1, <1>4, FaithfulKept DEF RowsGrow
<1>5. (\E v \in Visits : R!ClickStep(v) \/ R!ClickFails(v))
        => UNCHANGED <<rows, clock, cache, visit, target, found>>
  BY DEF R!ClickStep, R!OpenTask, R!LockRow, R!CommitClick, R!ClickFails, R!visits, R!database
<1>6. (\E s \in Readers : R!AskReport(s) \/ R!ReaderStep(s) \/ R!ReaderFails(s))
        => UNCHANGED <<rows, clock, cache, visit, target, found>>
  BY DEF R!AskReport, R!ReaderStep, R!ReadUrl, R!ReadRecent, R!ReadTop, R!ReaderFails,
         R!visits, R!database
<1>7. ASSUME NEW c \in Codes, R!CacheExpire(c) PROVE Faithful'
  <2>1. /\ cache' = [cache EXCEPT ![c] = Miss]
        /\ UNCHANGED <<rows, clock, visit, target, found>>
    BY <1>7 DEF R!CacheExpire, R!visits, R!database
  <2>2. VisitsTyped' /\ known' = known
    BY <1>0, <1>1, <2>1 DEF VisitsTyped
  <2>3. CacheSound' /\ VisitsSound' /\ KnownSound'
    BY <1>0, <2>1, <2>2 DEF CacheSound, VisitsSound, KnownSound, VisitsTyped, CodeExists,
         Overdue, IsExpired
  <2> QED
    BY <2>2, <2>3 DEF Faithful
<1>8. (\E state \in RedisStates : R!RedisBecomes(state))
        => UNCHANGED <<rows, clock, cache, visit, target, found>>
  BY DEF R!RedisBecomes, R!visits, R!database
<1> QED
  BY <1>2, <1>3, <1>4, <1>5, <1>6, <1>7, <1>8 DEF Redirection, R!RedirectNext

LEMMA OtherRouteFaithful ==
    ASSUME Registered, Faithful, NEW v \in Visits, OtherRoute(v)
    PROVE  Faithful'
<1>1. PICK c \in Codes : c \in Reserved /\ target' = [target EXCEPT ![v] = c]
  BY DEF OtherRoute
<1>2. /\ visit[v] = "idle" /\ visit' = [visit EXCEPT ![v] = "other"]
      /\ known' = [known EXCEPT ![v] = Promised]
      /\ UNCHANGED <<rows, clock, cache, found>>
  BY DEF OtherRoute, database
<1>3. PICK told \in {Promised, known[v]} : told = Promised
  OBVIOUS
<1>4. PICK place \in {"cache", "other"} : place = "other"
  OBVIOUS
<1> QED
  BY <1>1, <1>2, <1>3, <1>4, ArrivalFaithful

-----------------------------------------------------------------------------
(* Both together.                                                          *)

ServiceInv == Registered /\ Faithful

LEMMA StepServiceInv == ServiceInv /\ [Next]_vars => ServiceInv'
<1> SUFFICES ASSUME ServiceInv, [Next]_vars PROVE ServiceInv'
  OBVIOUS
<1>0. Registered /\ Faithful /\ clock \in Nat
  BY DEF ServiceInv, Registered, CreatesTyped
<1>1. CASE Creation \/ Starvation
  <2>1. CreationMoves
    BY <1>1, CreationsMove
  <2>2. Registered' /\ RowsGrow
    BY <1>0, <2>1, CreationRegistered DEF CreationMoves
  <2>3. clock' = clock
    BY <2>1 DEF CreationMoves, C!Submit, C!Step, C!CheckCustom, C!TryCode, C!Insert, C!Commit,
       C!CommitAs, C!CommitInDoubt, C!DbError, C!TimedOut, C!Proceed, C!Abort, C!database
  <2> QED
    BY <1>0, <2>1, <2>2, <2>3, FaithfulKept DEF CreationMoves, redirect, ServiceInv
<1>2. CASE Redirection
  <2>1. UNCHANGED <<rows, claim, create, clock>>
    BY <1>2 DEF Redirection, R!RedirectNext, R!Arrive, R!VisitStep, R!ClickStep,
         R!ReaderStep, R!CacheGet, R!CacheGetFails, R!Lookup, R!NotFound, R!CacheFill,
         R!CacheFillFails, R!Close, R!RollBack, R!VisitDbError, R!VisitPoolTimeout,
         R!OpenTask, R!LockRow, R!CommitClick, R!ClickFails, R!AskReport, R!ReadUrl,
         R!ReadRecent, R!ReadTop, R!ReaderFails, R!CacheExpire, R!RedisBecomes, R!database
  <2> QED
    BY <1>0, <1>2, <2>1, RegisteredKept, RedirectionFaithful DEF ServiceInv
<1>3. ASSUME NEW v \in Visits, OtherRoute(v) PROVE ServiceInv'
  <2>1. UNCHANGED <<rows, claim, create, clock>>
    BY <1>3 DEF OtherRoute, database
  <2> QED
    BY <1>0, <1>3, <2>1, RegisteredKept, OtherRouteFaithful DEF ServiceInv
<1>4. CASE Crash
  BY <1>0, <1>4, CrashRegistered, CrashFaithful DEF Crash, ServiceInv
<1>5. CASE Tick /\ UNCHANGED <<create, redirect, known>>
  <2>1. UNCHANGED <<rows, claim, create>> /\ clock' = clock + 1
    BY <1>0, <1>5 DEF Tick
  <2> QED
    BY <1>0, <1>5, <2>1, RegisteredKept, FaithfulKept DEF redirect, ServiceInv
<1>6. CASE UNCHANGED vars
  <2>1. UNCHANGED <<rows, claim, create, clock>>
    BY <1>0, <1>6 DEF vars, create
  <2> QED
    BY <1>0, <1>6, <2>1, RegisteredKept, FaithfulKept DEF vars, ServiceInv
<1> QED
  BY <1>1, <1>2, <1>3, <1>4, <1>5, <1>6 DEF Next

LEMMA ServiceInvHolds == Spec => []ServiceInv
<1>1. Init => ServiceInv
  BY InitRegistered, InitFaithful DEF ServiceInv
<1> QED
  BY <1>1, StepServiceInv, PTL DEF Spec

(***************************************************************************)
(* Whoever follows a link after its creation was answered with 201 gets    *)
(* where it leads, failures apart, unless the link has expired or its code *)
(* spells the path of another route.                                       *)
(***************************************************************************)
THEOREM CreatedIsAlwaysFound == Spec => []CreatedIsFound
<1>1. ServiceInv => CreatedIsFound
  BY DEF ServiceInv, Faithful, VisitsSound, KnownSound, Overdue, CreatedIsFound
<1> QED
  BY <1>1, ServiceInvHolds, PTL

(***************************************************************************)
(* Two visits of one code that were redirected were sent to one place,     *)
(* from the cache or from the table, whoever tried to create it again.     *)
(***************************************************************************)
THEOREM RedirectsAlwaysAgree == Spec => []RedirectsAgree
<1>1. ServiceInv => RedirectsAgree
  BY DEF ServiceInv, Faithful, VisitsSound, RedirectsAgree
<1> QED
  BY <1>1, ServiceInvHolds, PTL

(***************************************************************************)
(* A visitor is only sent where the creator of the link asked, by a        *)
(* creation that was not refused.                                          *)
(***************************************************************************)
THEOREM RedirectsAreRequested == Spec => []RedirectIsRequested
<1>1. ServiceInv => RedirectIsRequested
  <2> SUFFICES ASSUME ServiceInv, NEW v \in Visits, visit[v] = "302"
               PROVE  \E r \in Creates : /\ pc[r] \in {"201", "500", "lost"}
                                        /\ code[r] = target[v]
                                        /\ form[r].url = found[v]
    BY DEF RedirectIsRequested
  <2>1. target[v] \in Codes /\ CodeExists(target[v]) /\ rows[target[v]].url = found[v]
    BY DEF ServiceInv, Faithful, VisitsTyped, VisitsSound
  <2>2. PICK r \in Creates : /\ r = rows[target[v]].by /\ Settled(r)
                             /\ code[r] = target[v] /\ form[r].url = rows[target[v]].url
    BY <2>1 DEF ServiceInv, Registered, RowsRequested
  <2> QED
    BY <2>1, <2>2 DEF Settled
<1> QED
  BY <1>1, ServiceInvHolds, PTL

-----------------------------------------------------------------------------
(* The abstract shortener: what shows of the state.                        *)

Asked == [r \in Creates |-> form[r].url]
Owner == [c \in Codes |-> IF CodeExists(c) THEN rows[c].by ELSE Nobody]
Outcome == [r \in Creates |-> CASE pc[r] = "201" -> "created"
                                [] pc[r] = "409" -> "conflict"
                                [] pc[r] \in {"503", "500", "lost"} -> "failed"
                                [] OTHER -> "pending"]

mapped == <<Asked, Owner, Outcome, R!LiveLinks, R!States, target, R!Destinations,
            R!Owed, count>>

\* Where codes lead depends on the table and the clock alone.
LEMMA LinksStay ==
    ASSUME UNCHANGED <<rows, clock>>
    PROVE  R!LiveLinks' = R!LiveLinks
BY DEF R!LiveLinks, R!Resolvable, R!CodeExists, R!IsExpired

LEMMA RegisterStays ==
    ASSUME UNCHANGED <<rows, pc>>
    PROVE  Owner' = Owner /\ Outcome' = Outcome
BY DEF Owner, Outcome, CodeExists

LEMMA AskedStays ==
    ASSUME UNCHANGED form
    PROVE  Asked' = Asked
BY DEF Asked

LEMMA VisitsStay ==
    ASSUME UNCHANGED <<visit, found, click>>
    PROVE  R!States' = R!States /\ R!Destinations' = R!Destinations /\ R!Owed' = R!Owed
<1>1. R!States' = R!States
  BY DEF R!States
<1>2. R!Destinations' = R!Destinations
  BY DEF R!Destinations
<1>3. R!Owed' = R!Owed
  BY DEF R!Owed, R!ClickInFlight
<1> QED
  BY <1>1, <1>2, <1>3

\* Steps that nobody sees.
LEMMA Hidden ==
    ASSUME UNCHANGED <<rows, clock, pc, form, visit, target, found, click, count>>
    PROVE  UNCHANGED mapped
BY LinksStay, RegisterStays, AskedStays, VisitsStay DEF mapped

-----------------------------------------------------------------------------
(* Creations are steps of the abstract shortener.                          *)

\* What a creation leaves alone.
Aside == <<clock, form, visit, target, found, click, count>>

\* Requests that fail together are one step of the register.
LEMMA FailRefines ==
    ASSUME NEW failing \in SUBSET Creates, UNCHANGED rows,
           \A r \in failing : C!InFlight(r) /\ pc'[r] \in {"503", "500", "lost"},
           \A r \in Creates \ failing : pc'[r] = pc[r]
    PROVE  Ideal!Registry!Fail(failing)
<1>1. \A r \in failing : Outcome[r] = "pending" /\ Outcome'[r] = "failed"
  BY DEF Outcome, C!InFlight, C!Answers
<1>2. \A r \in Creates \ failing : Outcome'[r] = Outcome[r]
  BY DEF Outcome
<1>3. Outcome' = [r \in Creates |-> IF r \in failing THEN "failed" ELSE Outcome[r]]
  <2>1. Outcome' = [r \in Creates |-> Outcome'[r]]
    BY DEF Outcome
  <2> QED
    BY <1>1, <1>2, <2>1
<1>4. Owner' = Owner
  BY DEF Owner, CodeExists
<1> QED
  BY <1>1, <1>3, <1>4 DEF Ideal!Registry!Fail, Owner, Outcome

\* A step of the register that leads no code anywhere else is one of the shortener.
LEMMA RegisterCreates ==
    ASSUME Registered, Ideal!Registry!Next, UNCHANGED <<rows, Aside>>
    PROVE  Ideal!Create
<1>1. R!LiveLinks' = R!LiveLinks /\ Asked' = Asked
  BY LinksStay, AskedStays DEF Aside
<1>2. R!LiveLinks \in [Codes -> LongUrls \cup {Miss}]
  BY DEF Registered, CreatesTyped, Row, R!LiveLinks, R!Resolvable, R!CodeExists
<1>3. UNCHANGED <<R!States, target, R!Destinations, R!Owed, count>>
  BY VisitsStay DEF Aside
<1> QED
  BY <1>1, <1>2, <1>3 DEF Ideal!Create, Ideal!following, Asked

\* A request that fails alone.
LEMMA AbortFails ==
    ASSUME Registered, NEW r \in Creates, NEW answer \in {"503", "500"},
           C!InFlight(r), C!Abort(r, answer), UNCHANGED Aside
    PROVE  Ideal!Create
<1>1. {r} \in SUBSET Creates /\ UNCHANGED rows
  BY DEF C!Abort
<1>2. pc'[r] = answer /\ \A s \in Creates \ {r} : pc'[s] = pc[s]
  BY DEF C!Abort, Registered, CreatesTyped
<1>3. Ideal!Registry!Fail({r})
  BY <1>1, <1>2, FailRefines
<1> QED
  BY <1>1, <1>3, RegisterCreates DEF Ideal!Registry!Next

\* A request that meets the row of another one.
LEMMA ConflictRefuses ==
    ASSUME Registered, NEW r \in Creates, NEW c \in Codes,
           C!InFlight(r), C!Abort(r, "409"), CodeExists(c), UNCHANGED Aside
    PROVE  Ideal!Create
<1>1. rows[c].by \in Creates /\ rows[c].by # r /\ rows[c].by # Nobody
  BY Instance DEF Registered, RowsRequested, Settled, C!InFlight, C!Answers
<1>2. Outcome[r] = "pending" /\ Owner[c] \notin {Nobody, r}
  BY <1>1 DEF Outcome, Owner, C!InFlight, C!Answers
<1>3. pc'[r] = "409" /\ \A s \in Creates \ {r} : pc'[s] = pc[s]
  BY DEF C!Abort, Registered, CreatesTyped
<1>4. Outcome'[r] = "conflict" /\ \A s \in Creates \ {r} : Outcome'[s] = Outcome[s]
  BY <1>3 DEF Outcome
<1>5. Outcome' = [Outcome EXCEPT ![r] = "conflict"]
  BY <1>4 DEF Outcome
<1>6. Owner' = Owner /\ UNCHANGED rows
  BY DEF Owner, CodeExists, C!Abort
<1>7. Ideal!Registry!Refuse(r, c)
  BY <1>2, <1>5, <1>6 DEF Ideal!Registry!Refuse, Owner, Outcome
<1> QED
  BY <1>6, <1>7, RegisterCreates DEF Ideal!Registry!Next

\* A commit binds the code, and from then on the code leads where it was asked to.
LEMMA CommitBinds ==
    ASSUME Registered, NEW r \in Creates, NEW answer \in {"201", "500", "lost"},
           C!CommitAs(r, answer), UNCHANGED Aside
    PROVE  Ideal!Create
<1> DEFINE told == IF answer = "201" THEN "created" ELSE "failed"
<1>0. CreatesTyped
  BY DEF Registered
<1>1. PICK mine \in Codes : mine = code[r]
  BY DEF Registered, IndexSound, C!CommitAs
<1>2. claim[mine] = r /\ ~CodeExists(mine) /\ pc[r] = "commit"
  BY <1>1, Instance DEF Registered, IndexSound, C!CommitAs
<1>3. C!NewRow(r) # NoRow /\ C!NewRow(r).by = r /\ C!NewRow(r).url = form[r].url
      /\ form[r].url \in LongUrls
  BY <1>0, Instance DEF CreatesTyped, C!NewRow, C!Form, Row
<1>4. /\ rows'[mine] = C!NewRow(r)
      /\ \A d \in Codes \ {mine} : rows'[d] = rows[d]
  BY <1>0, <1>1 DEF C!CommitAs, CreatesTyped
<1>5. pc'[r] = answer /\ \A s \in Creates \ {r} : pc'[s] = pc[s]
  BY <1>0 DEF C!CommitAs, CreatesTyped
<1>6. Outcome[r] = "pending" /\ Owner[mine] = Nobody
  BY <1>2 DEF Outcome, Owner
<1>7. Outcome'[r] = told /\ \A s \in Creates \ {r} : Outcome'[s] = Outcome[s]
  BY <1>5 DEF Outcome
<1>8. Outcome' = [Outcome EXCEPT ![r] = told]
  BY <1>7 DEF Outcome
<1>9. Owner'[mine] = r /\ \A d \in Codes \ {mine} : Owner'[d] = Owner[d]
  BY <1>2, <1>3, <1>4 DEF Owner, CodeExists
<1>10. Owner' = [Owner EXCEPT ![mine] = r]
  BY <1>9 DEF Owner
<1>11. told \in {"created", "failed"}
  OBVIOUS
<1> HIDE DEF told
<1>12. Ideal!Registry!Next
  <2>1. Ideal!Registry!Bind(r, mine)
    BY <1>6, <1>8, <1>10, <1>11 DEF Ideal!Registry!Bind, Owner, Outcome
  <2> QED
    BY <2>1 DEF Ideal!Registry!Next
<1>13. /\ R!LiveLinks'[mine] \in {form[r].url, Miss}
       /\ R!LiveLinks[mine] = Miss
       /\ \A d \in Codes \ {mine} : R!LiveLinks'[d] = R!LiveLinks[d]
  BY <1>2, <1>3, <1>4 DEF R!LiveLinks, R!Resolvable, R!CodeExists, R!IsExpired,
     CodeExists, Aside
<1>14. R!LiveLinks \in [Codes -> LongUrls \cup {Miss}]
  BY <1>0 DEF CreatesTyped, Row, R!LiveLinks, R!Resolvable, R!CodeExists
<1>15. R!LiveLinks' \in [Codes -> LongUrls \cup {Miss}]
  <2>1. R!LiveLinks' = [c \in Codes |-> R!LiveLinks'[c]]
    BY DEF R!LiveLinks
  <2> QED
    BY <1>3, <1>13, <1>14, <2>1
<1>16. \A c \in Codes : R!LiveLinks'[c] # R!LiveLinks[c] =>
         Owner'[c] # Owner[c] /\ R!LiveLinks'[c] = Asked[Owner'[c]]
  BY <1>6, <1>9, <1>13, Instance DEF Asked
<1>17. UNCHANGED <<R!States, target, R!Destinations, R!Owed, count>> /\ Asked' = Asked
  BY VisitsStay, AskedStays DEF Aside
<1> QED
  BY <1>12, <1>15, <1>16, <1>17
     DEF Ideal!Create, Ideal!following, Asked, Owner

\* A request that moves from one statement to the next shows nothing.
LEMMA MoveHidden ==
    ASSUME Registered, NEW r \in Creates, pc[r] \notin C!Answers,
           NEW stage, stage \notin C!Answers, pc' = [pc EXCEPT ![r] = stage],
           UNCHANGED <<rows, Aside>>
    PROVE  UNCHANGED mapped
<1>1. \A s \in Creates : Outcome'[s] = Outcome[s]
  BY DEF Outcome, Registered, CreatesTyped, C!Answers
<1>2. Outcome' = Outcome
  BY <1>1 DEF Outcome
<1>3. Owner' = Owner
  BY DEF Owner, CodeExists
<1> QED
  BY <1>2, <1>3, LinksStay, AskedStays, VisitsStay DEF mapped, Aside

LEMMA CreationRefines ==
    ASSUME Registered, CreationMoves
    PROVE  [Ideal!Create]_mapped
<1>0. PICK r \in Creates :
        \/ C!Submit(r) \/ C!Step(r)
        \/ C!CommitInDoubt(r) \/ C!DbError(r) \/ C!TimedOut(r)
  BY DEF CreationMoves
<1>1. UNCHANGED Aside
  <2>1. UNCHANGED <<clock, form>>
    BY <1>0 DEF C!Submit, C!Step, C!CheckCustom, C!TryCode, C!Insert, C!Commit, C!CommitAs,
       C!CommitInDoubt, C!DbError, C!TimedOut, C!Proceed, C!Abort, C!database
  <2> QED
    BY <2>1 DEF CreationMoves, redirect, Aside
<1>2. ASSUME NEW c \in Codes, C!Proceed(r, c), pc[r] \notin C!Answers
      PROVE  UNCHANGED mapped
  BY <1>1, <1>2, MoveHidden DEF C!Proceed, C!Answers
<1>3. CASE C!Submit(r)
  <2>1. PICK stage \in {"check", "generate"} : pc' = [pc EXCEPT ![r] = stage]
    BY <1>3 DEF C!Submit
  <2>2. pc[r] \notin C!Answers /\ stage \notin C!Answers /\ UNCHANGED rows
    BY <1>3 DEF C!Submit, C!database, C!Answers
  <2> QED
    BY <1>1, <2>1, <2>2, MoveHidden
<1>4. CASE C!CheckCustom(r)
  <2>1. form[r].custom \in Codes /\ pc[r] \notin C!Answers /\ C!InFlight(r)
    BY <1>4 DEF C!CheckCustom, Registered, IndexSound, C!InFlight, C!Answers
  <2>2. CASE C!Proceed(r, form[r].custom)
    BY <1>2, <2>1, <2>2
  <2>3. CASE CodeExists(form[r].custom) /\ C!Abort(r, "409")
    BY <1>1, <2>1, <2>3, ConflictRefuses
  <2> QED
    BY <1>4, <2>2, <2>3 DEF C!CheckCustom, C!CodeExists, CodeExists
<1>5. CASE C!TryCode(r)
  <2>1. pc[r] = "generate" /\ pc[r] \notin C!Answers /\ C!InFlight(r)
    BY <1>5 DEF C!TryCode, C!InFlight, C!Answers
  <2>2. PICK c \in Codes : C!Proceed(r, c) \/ UNCHANGED <<pc, rows>> \/ C!Abort(r, "503")
    BY <1>5 DEF C!TryCode
  <2>3. CASE UNCHANGED <<pc, rows>>
    <3>1. pc' = [pc EXCEPT ![r] = "generate"]
      BY <2>1, <2>3 DEF Registered, CreatesTyped
    <3> QED
      BY <1>1, <2>1, <2>3, <3>1, MoveHidden
  <2>4. CASE C!Abort(r, "503")
    BY <1>1, <2>1, <2>4, AbortFails
  <2> QED
    BY <1>2, <2>1, <2>2, <2>3, <2>4
<1>6. CASE C!Insert(r)
  <2>1. code[r] \in Codes /\ pc[r] \notin C!Answers /\ C!InFlight(r)
    BY <1>6 DEF C!Insert, Registered, IndexSound, C!InFlight, C!Answers
  <2>2. CASE pc' = [pc EXCEPT ![r] = "commit"] /\ UNCHANGED rows
    BY <1>1, <2>1, <2>2, MoveHidden DEF C!Answers
  <2>3. CASE CodeExists(code[r]) /\ C!Abort(r, "409")
    BY <1>1, <2>1, <2>3, ConflictRefuses
  <2> QED
    BY <1>6, <2>2, <2>3 DEF C!Insert, C!CodeExists, CodeExists
<1>7. CASE C!Commit(r) \/ C!CommitInDoubt(r)
  BY <1>1, <1>7, CommitBinds DEF C!Commit, C!CommitInDoubt
<1>8. CASE C!DbError(r) \/ C!TimedOut(r)
  <2>1. C!InFlight(r) /\ C!Abort(r, "500")
    BY <1>8 DEF C!DbError, C!TimedOut, C!InFlight, C!Answers
  <2> QED
    BY <1>1, <2>1, AbortFails
<1> QED
  BY <1>0, <1>3, <1>4, <1>5, <1>6, <1>7, <1>8 DEF C!Step

-----------------------------------------------------------------------------
(* Visits and clicks are steps of the abstract shortener.                  *)

ClicksTyped == click \in [Visits -> {"none", "queued", "updating", "commit", "counted", "dropped"}]

LEMMA StepClicksTyped == ClicksTyped /\ [Next]_vars => ClicksTyped'
<1> SUFFICES ASSUME ClicksTyped, [Next]_vars PROVE ClicksTyped'
  OBVIOUS
<1> USE DEF ClicksTyped
<1>1. CASE UNCHANGED click
  BY <1>1
<1>2. ASSUME NEW v \in Visits, NEW stage \in {"queued", "updating", "commit", "counted", "dropped"},
             click' = [click EXCEPT ![v] = stage]
      PROVE  ClicksTyped'
  BY <1>2
<1>3. CASE Redirection
  BY <1>1, <1>2, <1>3
     DEF Redirection, R!RedirectNext, R!Arrive, R!VisitStep, R!ClickStep, R!ReaderStep,
         R!CacheGet, R!CacheGetFails, R!Lookup, R!NotFound, R!CacheFill, R!CacheFillFails,
         R!Close, R!RollBack, R!VisitDbError, R!VisitPoolTimeout, R!OpenTask, R!LockRow,
         R!CommitClick,
         R!ClickFails, R!AskReport, R!ReadUrl, R!ReadRecent, R!ReadTop, R!ReaderFails,
         R!CacheExpire, R!RedisBecomes, R!clicks
<1>4. CASE Crash
  BY <1>4 DEF Crash, R!RedirectCrash
<1> QED
  BY <1>1, <1>3, <1>4 DEF Next, Creation, Starvation, OtherRoute, redirect, vars

\* What is seen of a visit when it goes to another place.
LEMMA StatesAfter ==
    ASSUME visit \in [Visits -> Places], NEW v \in Visits, NEW place,
           visit' = [visit EXCEPT ![v] = place]
    PROVE  R!States' = [R!States EXCEPT ![v] = R!StateAt(place)]
<1>1. \A w \in Visits : visit'[w] = IF w = v THEN place ELSE visit[w]
  OBVIOUS
<1>2. R!States' = [w \in Visits |-> IF w = v THEN R!StateAt(place) ELSE R!StateAt(visit[w])]
  BY <1>1 DEF R!States
<1> QED
  BY <1>2 DEF R!States

LEMMA OwedStays ==
    ASSUME UNCHANGED click
    PROVE  R!Owed' = R!Owed
BY DEF R!Owed, R!ClickInFlight

\* A step of the links that sends nobody to a reserved code is one of the shortener.
LEMMA LinksFollow ==
    ASSUME Ideal!Links!Next, UNCHANGED <<rows, create>>,
           \A v \in Visits : target'[v] # target[v] => target'[v] \notin Reserved
    PROVE  Ideal!Follow
<1>1. Owner' = Owner /\ Outcome' = Outcome /\ Asked' = Asked
  BY RegisterStays, AskedStays DEF create
<1> QED
  BY <1>1 DEF Ideal!Follow, Ideal!register, Owner, Outcome, Asked

LEMMA VisitHidden ==
    ASSUME ServiceInv, UNCHANGED create, NEW v \in Visits,
           \/ R!CacheGet(v) /\ cache[target[v]] = Miss
           \/ R!CacheGetFails(v) \/ R!CacheFill(v) \/ R!CacheFillFails(v)
    PROVE  UNCHANGED mapped
<1>0. visit \in [Visits -> Places] /\ found \in [Visits -> LongUrls \cup {Miss}]
  BY DEF ServiceInv, Faithful, VisitsTyped
<1>1. /\ UNCHANGED <<rows, clock, target, click, count>>
  BY DEF R!CacheGet, R!CacheGetFails, R!CacheFill, R!CacheFillFails, R!clicks, R!database
<1>2. /\ R!LiveLinks' = R!LiveLinks /\ R!Owed' = R!Owed
      /\ Owner' = Owner /\ Outcome' = Outcome /\ Asked' = Asked
  BY <1>1, LinksStay, OwedStays, RegisterStays, AskedStays DEF create
<1>3. CASE visit[v] \in {"cache", "lookup"} /\ visit' = [visit EXCEPT ![v] = "lookup"]
  <2>1. R!States' = R!States
    BY <1>0, <1>3 DEF R!States, R!StateAt
  <2>2. \A w \in Visits : w # v => found'[w] = found[w]
    BY <1>0 DEF R!CacheGet, R!CacheGetFails, R!CacheFill, R!CacheFillFails
  <2>3. R!Destinations' = R!Destinations
    BY <1>0, <1>3, <2>2 DEF R!Destinations
  <2> QED
    BY <1>1, <1>2, <2>1, <2>3 DEF mapped
<1>4. CASE /\ visit[v] = "fill" /\ visit' = [visit EXCEPT ![v] = "close"]
           /\ UNCHANGED found
  <2>1. R!States' = R!States
    BY <1>0, <1>4 DEF R!States, R!StateAt
  <2>2. R!Destinations' = R!Destinations
    BY <1>0, <1>4 DEF R!Destinations
  <2> QED
    BY <1>1, <1>2, <2>1, <2>2 DEF mapped
<1> QED
  BY <1>3, <1>4 DEF R!CacheGet, R!CacheGetFails, R!CacheFill, R!CacheFillFails, R!Goto

LEMMA ArriveAsks ==
    ASSUME ServiceInv, NEW v \in Visits, R!Arrive(v)
    PROVE  Ideal!Links!Ask(v)
<1>0. /\ visit \in [Visits -> Places] /\ visit[v] = "idle"
      /\ visit' = [visit EXCEPT ![v] = "cache"]
      /\ UNCHANGED <<rows, clock, found, click, count>>
  BY DEF ServiceInv, Faithful, VisitsTyped, R!Arrive, R!Goto, R!database, R!clicks
<1>1. R!States[v] = "idle" /\ R!States' = [R!States EXCEPT ![v] = "asked"]
  BY <1>0, StatesAfter DEF R!States, R!StateAt
<1>2. R!LiveLinks' = R!LiveLinks /\ R!Owed' = R!Owed
  BY <1>0, LinksStay, OwedStays
<1>3. R!Destinations' = R!Destinations
  BY <1>0 DEF R!Destinations
<1> QED
  BY <1>0, <1>1, <1>2, <1>3 DEF Ideal!Links!Ask, R!Arrive

LEMMA SettlingResolves ==
    ASSUME ServiceInv, NEW v \in Visits, NEW place \in {"fill", "close"},
           visit[v] \in {"cache", "lookup"}, visit' = [visit EXCEPT ![v] = place],
           R!Resolvable(target[v]), NEW url \in LongUrls, url = rows[target[v]].url,
           found' = [found EXCEPT ![v] = url],
           UNCHANGED <<rows, clock, target, click, count>>
    PROVE  Ideal!Links!Resolve(v)
<1>0. /\ visit \in [Visits -> Places] /\ found \in [Visits -> LongUrls \cup {Miss}]
      /\ target[v] \in Codes
  BY DEF ServiceInv, Faithful, VisitsTyped
<1>1. R!States[v] = "asked" /\ R!States' = [R!States EXCEPT ![v] = "going"]
  BY <1>0, StatesAfter DEF R!States, R!StateAt
<1>2. R!LiveLinks' = R!LiveLinks /\ R!Owed' = R!Owed
  BY LinksStay, OwedStays
<1>3. R!LiveLinks[target[v]] = url /\ url # Miss
  BY <1>0, Parts DEF R!LiveLinks
<1>4. R!Destinations' = [R!Destinations EXCEPT ![v] = url]
  <2>1. \A w \in Visits : visit'[w] = (IF w = v THEN place ELSE visit[w])
                         /\ found'[w] = (IF w = v THEN url ELSE found[w])
    BY <1>0
  <2> QED
    BY <2>1 DEF R!Destinations
<1> QED
  BY <1>1, <1>2, <1>3, <1>4 DEF Ideal!Links!Resolve

\* A hit is a look at the table: what is cached is the destination of a row that
\* never expires.
LEMMA HitResolves ==
    ASSUME ServiceInv, NEW v \in Visits, R!CacheGet(v), cache[target[v]] # Miss
    PROVE  Ideal!Links!Resolve(v)
<1>0. /\ target[v] \in Codes /\ cache \in [Codes -> LongUrls \cup {Miss}]
  BY DEF ServiceInv, Faithful, VisitsTyped, R!CacheGet
<1>1. PICK url \in LongUrls : url = cache[target[v]]
  BY <1>0
<1>2. R!Resolvable(target[v]) /\ url = rows[target[v]].url
  BY <1>0, <1>1 DEF ServiceInv, Faithful, CacheSound, R!Resolvable, R!CodeExists,
     CodeExists, R!IsExpired, R!Never, Never
<1>3. /\ visit[v] = "cache" /\ visit' = [visit EXCEPT ![v] = "close"]
      /\ found' = [found EXCEPT ![v] = url]
      /\ UNCHANGED <<rows, clock, target, click, count>>
  BY <1>1 DEF R!CacheGet, R!Goto, R!database, R!clicks
<1> QED
  BY <1>2, <1>3, SettlingResolves

LEMMA LookupResolves ==
    ASSUME ServiceInv, NEW v \in Visits, R!Lookup(v)
    PROVE  Ideal!Links!Resolve(v)
<1>0. /\ target[v] \in Codes /\ rows \in [Codes -> Row \cup {NoRow}]
  BY DEF ServiceInv, Registered, CreatesTyped, Faithful, VisitsTyped, R!Lookup
<1>1. PICK url \in LongUrls : url = rows[target[v]].url
  BY <1>0 DEF R!Lookup, R!Resolvable, R!CodeExists, Row
<1>2. PICK place \in {"fill", "close"} : visit' = [visit EXCEPT ![v] = place]
  BY DEF R!Lookup, R!Goto
<1>3. /\ visit[v] = "lookup" /\ R!Resolvable(target[v])
      /\ found' = [found EXCEPT ![v] = url]
      /\ UNCHANGED <<rows, clock, target, click, count>>
  BY <1>1 DEF R!Lookup, R!clicks
<1> QED
  BY <1>1, <1>2, <1>3, SettlingResolves

LEMMA NotFoundRefuses ==
    ASSUME ServiceInv, NEW v \in Visits, R!NotFound(v)
    PROVE  Ideal!Links!Refuse(v)
<1>0. /\ visit \in [Visits -> Places] /\ target[v] \in Codes /\ visit[v] = "lookup"
      /\ UNCHANGED <<rows, clock, target, found, click, count>>
  BY DEF ServiceInv, Faithful, VisitsTyped, R!NotFound, R!clicks
<1>1. PICK place \in {"outdated", "absent"} : visit' = [visit EXCEPT ![v] = place]
  BY DEF R!NotFound, R!Goto
<1>2. R!States[v] = "asked" /\ R!States' = [R!States EXCEPT ![v] = "refusing"]
  BY <1>0, <1>1, StatesAfter DEF R!States, R!StateAt
<1>3. R!LiveLinks' = R!LiveLinks /\ R!Owed' = R!Owed
  BY <1>0, LinksStay, OwedStays
<1>4. R!LiveLinks[target[v]] = Miss
  BY <1>0 DEF R!LiveLinks, R!NotFound
<1>5. R!Destinations' = R!Destinations
  BY <1>0, <1>1 DEF R!Destinations
<1> QED
  BY <1>0, <1>2, <1>3, <1>4, <1>5 DEF Ideal!Links!Refuse

LEMMA RollBackDenies ==
    ASSUME ServiceInv, NEW v \in Visits, R!RollBack(v)
    PROVE  Ideal!Links!Deny(v)
<1>0. /\ visit \in [Visits -> Places] /\ visit[v] \in {"absent", "outdated"}
      /\ UNCHANGED <<rows, clock, target, found, click, count>>
  BY DEF ServiceInv, Faithful, VisitsTyped, R!RollBack, R!clicks
<1>1. PICK place \in {"expired", "404"} : visit' = [visit EXCEPT ![v] = place]
  BY DEF R!RollBack, R!Goto
<1>2. R!States[v] = "refusing" /\ R!States' = [R!States EXCEPT ![v] = "404"]
  BY <1>0, <1>1, StatesAfter DEF R!States, R!StateAt
<1>3. R!LiveLinks' = R!LiveLinks /\ R!Owed' = R!Owed
  BY <1>0, LinksStay, OwedStays
<1>4. R!Destinations' = R!Destinations
  BY <1>0, <1>1 DEF R!Destinations
<1> QED
  BY <1>0, <1>2, <1>3, <1>4 DEF Ideal!Links!Deny

LEMMA CloseRedirects ==
    ASSUME ServiceInv, ClicksTyped, NEW v \in Visits, R!Close(v)
    PROVE  Ideal!Links!Redirect(v)
<1>0. /\ visit \in [Visits -> Places] /\ visit[v] = "close"
      /\ visit' = [visit EXCEPT ![v] = "302"]
      /\ click' = [click EXCEPT ![v] = "queued"] /\ DOMAIN click = Visits
      /\ UNCHANGED <<rows, clock, target, found, count>>
  BY DEF ServiceInv, Faithful, VisitsTyped, ClicksTyped, R!Close, R!Goto
<1>1. R!States[v] = "going" /\ R!States' = [R!States EXCEPT ![v] = "302"]
  BY <1>0, StatesAfter DEF R!States, R!StateAt
<1>2. R!LiveLinks' = R!LiveLinks
  BY <1>0, LinksStay
<1>3. R!Owed' = R!Owed \cup {v}
  BY <1>0 DEF R!Owed, R!ClickInFlight
<1>4. R!Destinations' = R!Destinations
  BY <1>0 DEF R!Destinations
<1> QED
  BY <1>0, <1>1, <1>2, <1>3, <1>4 DEF Ideal!Links!Redirect

LEMMA ErrorFails ==
    ASSUME ServiceInv, NEW v \in Visits, R!VisitDbError(v) \/ R!VisitPoolTimeout(v)
    PROVE  Ideal!Links!Fail({v}, {})
<1>0. /\ visit \in [Visits -> Places]
      /\ visit[v] \in {"lookup", "close", "absent", "outdated"}
      /\ visit' = [visit EXCEPT ![v] = "500"]
      /\ UNCHANGED <<rows, clock, target, found, click, count>>
  BY DEF ServiceInv, Faithful, VisitsTyped, R!VisitDbError, R!VisitPoolTimeout,
     R!Goto, R!clicks
<1>1. /\ R!States[v] \in {"asked", "going", "refusing"}
      /\ R!States' = [w \in Visits |-> IF w \in {v} THEN "failed" ELSE R!States[w]]
  BY <1>0, StatesAfter DEF R!States, R!StateAt
<1>2. R!LiveLinks' = R!LiveLinks /\ R!Owed' = R!Owed \ {}
  BY <1>0, LinksStay, OwedStays
<1>3. R!Destinations' = [w \in Visits |-> IF w \in {v} THEN Miss ELSE R!Destinations[w]]
  BY <1>0 DEF R!Destinations
<1> QED
  BY <1>0, <1>1, <1>2, <1>3 DEF Ideal!Links!Fail

LEMMA CommitCounts ==
    ASSUME ClicksTyped, NEW v \in Visits, R!CommitClick(v)
    PROVE  Ideal!Links!Count(v)
<1>0. /\ click[v] = "commit" /\ click' = [click EXCEPT ![v] = "counted"]
      /\ DOMAIN click = Visits
      /\ count' = [count EXCEPT ![target[v]] = @ + 1]
      /\ UNCHANGED <<rows, clock, visit, target, found>>
  BY DEF ClicksTyped, R!CommitClick, R!visits
<1>1. v \in R!Owed /\ R!Owed' = R!Owed \ {v}
  BY <1>0 DEF R!Owed, R!ClickInFlight
<1>2. R!LiveLinks' = R!LiveLinks
  BY <1>0, LinksStay
<1>3. R!States' = R!States /\ R!Destinations' = R!Destinations
  BY <1>0 DEF R!States, R!Destinations
<1> QED
  BY <1>0, <1>1, <1>2, <1>3 DEF Ideal!Links!Count

LEMMA ClickFailsLoses ==
    ASSUME ClicksTyped, NEW v \in Visits, R!ClickFails(v)
    PROVE  Ideal!Links!Fail({}, {v})
<1>0. /\ click[v] \in {"queued", "updating", "commit"}
      /\ click' = [click EXCEPT ![v] = "dropped"]
      /\ DOMAIN click = Visits
      /\ UNCHANGED <<rows, clock, visit, target, found, count>>
  BY DEF ClicksTyped, R!ClickFails, R!visits
<1>1. {v} \subseteq R!Owed /\ R!Owed' = R!Owed \ {v}
  BY <1>0 DEF R!Owed, R!ClickInFlight
<1>2. R!LiveLinks' = R!LiveLinks
  BY <1>0, LinksStay
<1>3. /\ R!States' = [w \in Visits |-> IF w \in {} THEN "failed" ELSE R!States[w]]
      /\ R!Destinations' = [w \in Visits |-> IF w \in {} THEN Miss ELSE R!Destinations[w]]
  BY <1>0 DEF R!States, R!Destinations
<1> QED
  BY <1>0, <1>1, <1>2, <1>3 DEF Ideal!Links!Fail

LEMMA TaskHidden ==
    ASSUME ClicksTyped, UNCHANGED create, NEW v \in Visits, R!OpenTask(v) \/ R!LockRow(v)
    PROVE  UNCHANGED mapped
<1>0. /\ DOMAIN click = Visits /\ UNCHANGED <<rows, clock, visit, target, found, count>>
  BY DEF ClicksTyped, R!OpenTask, R!LockRow, R!visits, R!database
<1>1. R!Owed' = R!Owed
  BY <1>0 DEF R!Owed, R!ClickInFlight, R!OpenTask, R!LockRow
<1>2. /\ R!LiveLinks' = R!LiveLinks
      /\ Owner' = Owner /\ Outcome' = Outcome /\ Asked' = Asked
  BY <1>0, LinksStay, RegisterStays, AskedStays DEF create
<1>3. R!States' = R!States /\ R!Destinations' = R!Destinations
  BY <1>0 DEF R!States, R!Destinations
<1> QED
  BY <1>0, <1>1, <1>2, <1>3 DEF mapped

LEMMA RedirectionRefines ==
    ASSUME ServiceInv, ClicksTyped, Redirection
    PROVE  [Ideal!Follow]_mapped
<1>0. /\ UNCHANGED create
      /\ \A v \in Visits : target'[v] # target[v] => target'[v] \notin Reserved
  BY DEF Redirection
<1>1. UNCHANGED <<rows, clock>>
  BY DEF Redirection, R!RedirectNext, R!Arrive, R!VisitStep, R!ClickStep,
     R!ReaderStep, R!CacheGet, R!CacheGetFails, R!Lookup, R!NotFound, R!CacheFill,
     R!CacheFillFails, R!Close, R!RollBack, R!VisitDbError, R!VisitPoolTimeout, R!OpenTask,
     R!LockRow, R!CommitClick, R!ClickFails, R!AskReport, R!ReadUrl, R!ReadRecent,
     R!ReadTop, R!ReaderFails, R!CacheExpire, R!RedisBecomes, R!database
<1>2. ASSUME Ideal!Links!Next PROVE Ideal!Follow
  BY <1>0, <1>1, <1>2, LinksFollow
<1>3. ASSUME UNCHANGED <<visit, target, found, click, count>> PROVE UNCHANGED mapped
  BY <1>0, <1>1, <1>3, Hidden DEF create
<1>4. ASSUME NEW v \in Visits, R!Arrive(v) \/ R!VisitStep(v) PROVE [Ideal!Follow]_mapped
  <2>1. CASE \/ R!CacheGet(v) /\ cache[target[v]] = Miss
             \/ R!CacheGetFails(v) \/ R!CacheFill(v) \/ R!CacheFillFails(v)
    BY <1>0, <2>1, VisitHidden
  <2>2. CASE \/ R!Arrive(v) \/ R!Lookup(v) \/ R!NotFound(v) \/ R!Close(v) \/ R!RollBack(v)
             \/ R!CacheGet(v) /\ cache[target[v]] # Miss
    BY <1>2, <2>2, ArriveAsks, HitResolves, LookupResolves, NotFoundRefuses, CloseRedirects,
       RollBackDenies
       DEF Ideal!Links!Next
  <2> QED
    BY <1>4, <2>1, <2>2 DEF R!VisitStep
<1>5. ASSUME NEW v \in Visits,
             R!VisitDbError(v) \/ R!VisitPoolTimeout(v) \/ R!ClickFails(v)
      PROVE  Ideal!Follow
  <2>1. {v} \in SUBSET Visits /\ {} \in SUBSET Visits
    OBVIOUS
  <2> QED
    BY <1>2, <1>5, <2>1, ErrorFails, ClickFailsLoses DEF Ideal!Links!Next
<1>6. ASSUME NEW v \in Visits, R!ClickStep(v) PROVE [Ideal!Follow]_mapped
  BY <1>0, <1>2, <1>6, TaskHidden, CommitCounts DEF R!ClickStep, Ideal!Links!Next
<1>7. ASSUME NEW s \in Readers, R!AskReport(s) \/ R!ReaderStep(s) \/ R!ReaderFails(s)
      PROVE  UNCHANGED mapped
  BY <1>3, <1>7 DEF R!AskReport, R!ReaderStep, R!ReadUrl, R!ReadRecent, R!ReadTop,
     R!ReaderFails, R!visits, R!clicks
<1>8. ASSUME NEW c \in Codes, R!CacheExpire(c) PROVE UNCHANGED mapped
  BY <1>3, <1>8 DEF R!CacheExpire, R!visits, R!clicks
<1>9. ASSUME NEW place \in RedisStates, R!RedisBecomes(place) PROVE UNCHANGED mapped
  BY <1>3, <1>9 DEF R!RedisBecomes, R!visits, R!clicks
<1> QED
  BY <1>4, <1>5, <1>6, <1>7, <1>8, <1>9 DEF Redirection, R!RedirectNext

-----------------------------------------------------------------------------
(* The other steps, and the refinement.                                    *)

LEMMA OtherRouteRefines ==
    ASSUME ServiceInv, NEW v \in Visits, OtherRoute(v)
    PROVE  Ideal!Elsewhere(v)
<1>0. /\ visit \in [Visits -> Places] /\ visit[v] = "idle"
      /\ visit' = [visit EXCEPT ![v] = "other"]
      /\ UNCHANGED <<rows, clock, create, found, click, count>>
  BY DEF ServiceInv, Faithful, VisitsTyped, OtherRoute, database
<1>1. R!States[v] = "idle" /\ R!States' = [R!States EXCEPT ![v] = "other"]
  BY <1>0, StatesAfter DEF R!States, R!StateAt
<1>2. R!LiveLinks' = R!LiveLinks /\ R!Owed' = R!Owed
  BY <1>0, LinksStay, OwedStays
<1>3. R!Destinations' = R!Destinations
  BY <1>0 DEF R!Destinations
<1>4. Owner' = Owner /\ Outcome' = Outcome /\ Asked' = Asked
  BY <1>0, RegisterStays, AskedStays DEF create
<1> QED
  BY <1>0, <1>1, <1>2, <1>3, <1>4
     DEF Ideal!Elsewhere, Ideal!register, OtherRoute, Owner, Outcome, Asked

\* A crash takes creations, visits and clicks in one step.
LEMMA CrashFails ==
    ASSUME ServiceInv, ClicksTyped, Crash
    PROVE  Ideal!Fail
<1> DEFINE failed == {v \in Visits : R!VisitInFlight(v)}
<1>0. /\ visit \in [Visits -> Places]
      /\ visit' = [v \in Visits |-> IF R!VisitInFlight(v) THEN "lost" ELSE visit[v]]
      /\ click' = [v \in Visits |-> IF R!ClickInFlight(v) THEN "dropped" ELSE click[v]]
      /\ UNCHANGED <<rows, clock, form, target, found, count>>
  BY DEF ServiceInv, Faithful, VisitsTyped, Crash, R!RedirectCrash, C!CreateCrash
<1>1. PICK dying \in SUBSET Creates : Ideal!Registry!Fail(dying)
  <2>0. PICK dying \in SUBSET Creates : dying = {r \in Creates : C!InFlight(r)}
    OBVIOUS
  <2>1. /\ \A r \in dying : C!InFlight(r) /\ pc'[r] = "lost"
        /\ \A r \in Creates \ dying : pc'[r] = pc[r]
    BY <2>0 DEF Crash, C!CreateCrash
  <2>2. Ideal!Registry!Fail(dying)
    BY <1>0, <2>1, FailRefines
  <2> QED
    BY <2>2
<1>2. /\ \A v \in failed : R!States[v] \in {"asked", "going", "refusing"}
      /\ R!States' = [v \in Visits |-> IF v \in failed THEN "failed" ELSE R!States[v]]
  BY <1>0 DEF R!States, R!StateAt, R!VisitInFlight
<1>3. R!Destinations' = [v \in Visits |-> IF v \in failed THEN Miss ELSE R!Destinations[v]]
  BY <1>0 DEF R!Destinations, R!VisitInFlight
<1>4. R!LiveLinks' = R!LiveLinks /\ Asked' = Asked
  BY <1>0, LinksStay, AskedStays
<1>5. R!Owed' = R!Owed \ R!Owed
  BY <1>0 DEF R!Owed, R!ClickInFlight
<1>6. Ideal!Links!Fail(failed, R!Owed)
  BY <1>0, <1>2, <1>3, <1>4, <1>5 DEF Ideal!Links!Fail
<1>7. \E gone, lost \in SUBSET Visits : Ideal!Links!Fail(gone, lost)
  <2>1. failed \in SUBSET Visits /\ R!Owed \in SUBSET Visits
    BY DEF R!Owed
  <2> HIDE DEF failed
  <2> QED
    BY <1>6, <2>1
<1> QED
  BY <1>1, <1>4, <1>7 DEF Ideal!Fail, Asked

\* The clock only ever ends links.
LEMMA TickExpires ==
    ASSUME ServiceInv, Tick, UNCHANGED <<create, redirect>>
    PROVE  Ideal!Follow
<1> DEFINE expired == {c \in Codes : ~R!Resolvable(c)'}
<1>1. UNCHANGED <<rows, visit, target, found, click, count>>
  BY DEF Tick, redirect
<1>2. R!States' = R!States /\ R!Destinations' = R!Destinations /\ R!Owed' = R!Owed
  BY <1>1, VisitsStay
<1>3. \A c \in Codes : R!Resolvable(c)' => R!Resolvable(c)
  <2>1. clock \in Nat /\ clock' = clock + 1
    BY DEF ServiceInv, Registered, CreatesTyped, Tick
  <2>2. \A c \in Codes : rows[c] # NoRow => rows[c].expires_at \in Nat
    BY DEF ServiceInv, Registered, CreatesTyped, Row
  <2> QED
    BY <1>1, <2>1, <2>2 DEF R!Resolvable, R!CodeExists, R!IsExpired
<1>4. R!LiveLinks' = [c \in Codes |-> IF c \in expired THEN Miss ELSE R!LiveLinks[c]]
  BY <1>1, <1>3 DEF R!LiveLinks
<1>5. Ideal!Links!Expire(expired)
  BY <1>1, <1>2, <1>4 DEF Ideal!Links!Expire
<1>6. Ideal!Links!Next
  BY <1>5 DEF Ideal!Links!Next
<1> QED
  BY <1>1, <1>6, LinksFollow

LEMMA InitMaps == Init => Ideal!Init
<1> SUFFICES ASSUME Init PROVE Ideal!Init
  OBVIOUS
<1> USE DEF Init, C!CreateInit, R!RedirectInit
<1>1. Asked \in [Creates -> LongUrls]
  BY DEF Asked, C!Form
<1>2. Owner = [c \in Codes |-> Nobody]
  BY DEF Owner, CodeExists
<1>3. Outcome = [r \in Creates |-> "pending"]
  <2>1. \A r \in Creates : Outcome[r] = "pending"
    BY DEF Outcome
  <2> QED
    BY <2>1 DEF Outcome
<1>4. R!LiveLinks = [c \in Codes |-> Miss]
  BY DEF R!LiveLinks, R!Resolvable, R!CodeExists
<1>5. /\ R!States = [v \in Visits |-> "idle"]
      /\ R!Destinations = [v \in Visits |-> Miss]
      /\ R!Owed = {}
  BY DEF R!States, R!StateAt, R!Destinations, R!Owed, R!ClickInFlight
<1> QED
  BY <1>1, <1>2, <1>3, <1>4, <1>5
     DEF Ideal!Init, Ideal!Registry!Init, Ideal!Links!Init, Asked, Owner, Outcome

LEMMA StepMaps == ServiceInv /\ ClicksTyped /\ [Next]_vars => [Ideal!Next]_mapped
<1> SUFFICES ASSUME ServiceInv, ClicksTyped, [Next]_vars PROVE [Ideal!Next]_mapped
  OBVIOUS
<1>1. CASE Creation \/ Starvation
  BY <1>1, CreationsMove, CreationRefines DEF ServiceInv, Ideal!Next
<1>2. CASE Redirection
  BY <1>2, RedirectionRefines DEF Ideal!Next
<1>3. CASE \E v \in Visits : OtherRoute(v)
  BY <1>3, OtherRouteRefines DEF Ideal!Next
<1>4. CASE Crash
  BY <1>4, CrashFails DEF Ideal!Next
<1>5. CASE Tick /\ UNCHANGED <<create, redirect, known>>
  BY <1>5, TickExpires DEF Ideal!Next
<1>6. CASE UNCHANGED vars
  BY <1>6, Hidden DEF vars
<1> QED
  BY <1>1, <1>2, <1>3, <1>4, <1>5, <1>6 DEF Next

(***************************************************************************)
(* The application implements one abstract shortener: whatever creations,  *)
(* visits, clicks, statistics, Redis, the clock and failures do to each    *)
(* other over one table and one pool, a code is bound in one step, leads   *)
(* where the creation that bound it asked, and is followed in one step.    *)
(***************************************************************************)
THEOREM ServiceRefinesIdealService == Spec => RefinesIdealService
<1>1. Init => ClicksTyped
  BY DEF Init, R!RedirectInit, ClicksTyped
<1>2. ServiceInv /\ ClicksTyped /\ [Next]_vars => [Ideal!Next]_(Ideal!vars)
  BY StepMaps DEF mapped, Ideal!vars, Asked, Owner, Outcome
<1> QED
  BY <1>1, <1>2, InitMaps, StepClicksTyped, ServiceInvHolds, PTL
     DEF Spec, RefinesIdealService, Ideal!Spec

-----------------------------------------------------------------------------
(* The pool and the locks that everybody shares.                           *)

LEMMA SessionsDiffer ==
    /\ \A r, q \in Creates : C!Session(r) = C!Session(q) => r = q
    /\ \A v, w \in Visits : R!RequestOf(v) = R!RequestOf(w) => v = w
    /\ \A v, w \in Visits : R!TaskOf(v) = R!TaskOf(w) => v = w
    /\ \A s, t \in Readers : R!RequestOf(s) = R!RequestOf(t) => s = t
    /\ \A r \in Creates, v \in Visits :
         C!Session(r) # R!RequestOf(v) /\ C!Session(r) # R!TaskOf(v)
    /\ \A r \in Creates, s \in Readers : C!Session(r) # R!RequestOf(s)
    /\ \A v \in Visits, s \in Readers :
         R!RequestOf(v) # R!RequestOf(s) /\ R!TaskOf(v) # R!RequestOf(s)
    /\ \A v, w \in Visits : R!RequestOf(v) # R!TaskOf(w)
BY Parts DEF C!Session, R!RequestOf, R!TaskOf

PoolKept == IsFiniteSet(conns) /\ Cardinality(conns) <= PoolSize

CreatesHold ==
    \A r \in Creates :
        /\ pc[r] \in {"insert", "commit"} => C!Session(r) \in conns
        /\ C!Session(r) \in conns => pc[r] \in {"generate", "insert", "commit"}

VisitsHold ==
    \A v \in Visits :
        /\ visit[v] \in {"fill", "absent", "outdated"} => R!RequestOf(v) \in conns
        /\ R!RequestOf(v) \in conns => visit[v] \in {"fill", "close", "absent", "outdated"}

TasksHold ==
    \A v \in Visits : R!TaskOf(v) \in conns <=> click[v] \in {"updating", "commit"}

ReadersHold ==
    \A s \in Readers : R!RequestOf(s) \in conns <=> reader[s] \in {"recent", "top"}

Sessions ==
    {C!Session(r) : r \in Creates} \cup {R!RequestOf(v) : v \in Visits}
    \cup {R!TaskOf(v) : v \in Visits} \cup {R!RequestOf(s) : s \in Readers}

Holds == CreatesHold /\ VisitsHold /\ TasksHold /\ ReadersHold /\ conns \subseteq Sessions

\* Who holds a code in the index is about to commit it.
ClaimsHeld ==
    \A c \in Codes : claim[c] # Nobody => pc[claim[c]] = "commit" /\ code[claim[c]] = c

\* Who holds the lock of a row is about to commit its click.
RowLocksHeld ==
    \A c \in Codes : rowlock[c] # Nobody =>
        click[rowlock[c]] = "commit" /\ target[rowlock[c]] = c

RestTyped ==
    /\ rowlock \in [Codes -> Visits \cup {Nobody}]
    /\ reader \in [Readers -> {"idle", "url", "recent", "top", "200", "404", "500", "lost"}]

\* Only a visit that was redirected has a click.
ClicksFollow == \A v \in Visits : click[v] # "none" => visit[v] = "302"

\* Only the session s takes or returns a connection.
OnlyMoves(s) == conns' \ {s} = conns \ {s}

LEMMA CreateMoves ==
    ASSUME CreatesTyped, Holds, NEW r \in Creates, OnlyMoves(C!Session(r)),
           NEW stage, pc' = [pc EXCEPT ![r] = stage],
           stage \in {"insert", "commit"} => C!Session(r) \in conns',
           C!Session(r) \in conns' => stage \in {"generate", "insert", "commit"},
           UNCHANGED <<visit, click, reader>>
    PROVE  Holds'
<1>1. \A q \in Creates : pc'[q] = IF q = r THEN stage ELSE pc[q]
  BY DEF CreatesTyped
<1>2. CreatesHold'
  BY <1>1, SessionsDiffer DEF Holds, CreatesHold, OnlyMoves
<1>3. VisitsHold'
  BY SessionsDiffer DEF Holds, VisitsHold, OnlyMoves
<1>4. TasksHold'
  BY SessionsDiffer DEF Holds, TasksHold, OnlyMoves
<1>5. ReadersHold'
  BY SessionsDiffer DEF Holds, ReadersHold, OnlyMoves
<1>6. (conns \subseteq Sessions)'
  BY DEF Holds, OnlyMoves, Sessions
<1> QED
  BY <1>2, <1>3, <1>4, <1>5, <1>6 DEF Holds

LEMMA VisitMoves ==
    ASSUME VisitsTyped, ClicksTyped, Holds, NEW v \in Visits, OnlyMoves(R!RequestOf(v)),
           NEW place, visit' = [visit EXCEPT ![v] = place],
           place \in {"fill", "absent", "outdated"} => R!RequestOf(v) \in conns',
           R!RequestOf(v) \in conns' => place \in {"fill", "close", "absent", "outdated"},
           click' = click \/ (click[v] = "none" /\ click' = [click EXCEPT ![v] = "queued"]),
           UNCHANGED <<pc, reader>>
    PROVE  Holds'
<1>1. \A w \in Visits : visit'[w] = IF w = v THEN place ELSE visit[w]
  BY DEF VisitsTyped
<1>2. CreatesHold'
  BY SessionsDiffer DEF Holds, CreatesHold, OnlyMoves
<1>3. VisitsHold'
  BY <1>1, SessionsDiffer DEF Holds, VisitsHold, OnlyMoves
<1>4. TasksHold'
  <2>1. \A w \in Visits :
          click'[w] \in {"updating", "commit"} <=> click[w] \in {"updating", "commit"}
    BY DEF ClicksTyped
  <2> QED
    BY <2>1, SessionsDiffer DEF Holds, TasksHold, OnlyMoves
<1>5. ReadersHold'
  BY SessionsDiffer DEF Holds, ReadersHold, OnlyMoves
<1>6. (conns \subseteq Sessions)'
  BY DEF Holds, OnlyMoves, Sessions
<1> QED
  BY <1>2, <1>3, <1>4, <1>5, <1>6 DEF Holds

LEMMA TaskMoves ==
    ASSUME ClicksTyped, Holds, NEW v \in Visits, OnlyMoves(R!TaskOf(v)),
           NEW stage, click' = [click EXCEPT ![v] = stage],
           R!TaskOf(v) \in conns' <=> stage \in {"updating", "commit"},
           UNCHANGED <<pc, visit, reader>>
    PROVE  Holds'
<1>1. \A w \in Visits : click'[w] = IF w = v THEN stage ELSE click[w]
  BY DEF ClicksTyped
<1>2. CreatesHold'
  BY SessionsDiffer DEF Holds, CreatesHold, OnlyMoves
<1>3. VisitsHold'
  BY SessionsDiffer DEF Holds, VisitsHold, OnlyMoves
<1>4. TasksHold'
  BY <1>1, SessionsDiffer DEF Holds, TasksHold, OnlyMoves
<1>5. ReadersHold'
  BY SessionsDiffer DEF Holds, ReadersHold, OnlyMoves
<1>6. (conns \subseteq Sessions)'
  BY DEF Holds, OnlyMoves, Sessions
<1> QED
  BY <1>2, <1>3, <1>4, <1>5, <1>6 DEF Holds

LEMMA ReaderMoves ==
    ASSUME RestTyped, Holds, NEW s \in Readers, OnlyMoves(R!RequestOf(s)),
           NEW query, reader' = [reader EXCEPT ![s] = query],
           R!RequestOf(s) \in conns' <=> query \in {"recent", "top"},
           UNCHANGED <<pc, visit, click>>
    PROVE  Holds'
<1>1. \A t \in Readers : reader'[t] = IF t = s THEN query ELSE reader[t]
  BY DEF RestTyped
<1>2. CreatesHold'
  BY SessionsDiffer DEF Holds, CreatesHold, OnlyMoves
<1>3. VisitsHold'
  BY SessionsDiffer DEF Holds, VisitsHold, OnlyMoves
<1>4. TasksHold'
  BY SessionsDiffer DEF Holds, TasksHold, OnlyMoves
<1>5. ReadersHold'
  BY <1>1, SessionsDiffer DEF Holds, ReadersHold, OnlyMoves
<1>6. (conns \subseteq Sessions)'
  BY DEF Holds, OnlyMoves, Sessions
<1> QED
  BY <1>2, <1>3, <1>4, <1>5, <1>6 DEF Holds

\* A connection is taken from a pool that is not full, or returned.
LEMMA PoolStep ==
    ASSUME PoolKept,
           \/ conns' = conns \/ conns' = {}
           \/ \E s : Connect(s) \/ Disconnect(s)
    PROVE  PoolKept'
<1>1. CASE \E s : Connect(s) \/ Disconnect(s)
  BY <1>1, ConnectKeepsLimit, DisconnectKeepsLimit DEF PoolKept
<1>2. CASE conns' = {}
  BY <1>2, Instance, FS_EmptySet DEF PoolKept
<1> QED
  BY <1>1, <1>2 DEF PoolKept

\* What the parts do to the pool is what the database does.
LEMMA SamePool ==
    /\ \A s : C!Connect(s) <=> Connect(s)
    /\ \A s : R!Connect(s) <=> Connect(s)
    /\ \A s : C!Disconnect(s) <=> Disconnect(s)
    /\ \A s : R!Disconnect(s) <=> Disconnect(s)
<1> SUFFICES ASSUME NEW s
             PROVE  /\ C!Connect(s) <=> Connect(s)
                    /\ R!Connect(s) <=> Connect(s)
                    /\ C!Disconnect(s) <=> Disconnect(s)
                    /\ R!Disconnect(s) <=> Disconnect(s)
  OBVIOUS
<1>0. C!Cardinality(conns) = Cardinality(conns) /\ R!Cardinality(conns) = Cardinality(conns)
  BY Zenon DEF C!Cardinality, R!Cardinality, Cardinality
<1>1. C!Connect(s) <=> Connect(s)
  BY <1>0 DEF C!Connect, Connect, C!PoolFull, PoolFull
<1>2. R!Connect(s) <=> Connect(s)
  BY <1>0 DEF R!Connect, Connect, R!PoolFull, PoolFull
<1>3. (C!Disconnect(s) <=> Disconnect(s)) /\ (R!Disconnect(s) <=> Disconnect(s))
  BY DEF C!Disconnect, R!Disconnect, Disconnect
<1> QED
  BY <1>1, <1>2, <1>3

HoldInv ==
    /\ ServiceInv /\ ClicksTyped /\ RestTyped /\ ClicksFollow
    /\ PoolKept /\ Holds /\ ClaimsHeld /\ RowLocksHeld

-----------------------------------------------------------------------------
(* Creations hold what they should.                                        *)

\* A step of creation r, as far as pool and index are concerned: it gets ready, asks
\* about a code, gives up, inserts, or commits.
Shape(r, stage) ==
    /\ pc' = [pc EXCEPT ![r] = stage]
    /\ \A q \in Creates : q # r => code'[q] = code[q]
    /\ \/ /\ pc[r] = "idle" /\ stage \in {"check", "generate"}
          /\ UNCHANGED <<claim, conns>>
       \/ /\ pc[r] \in {"check", "generate"} /\ stage \in {"generate", "insert"}
          /\ Connect(C!Session(r)) /\ UNCHANGED claim
       \/ /\ stage \in C!Answers
          /\ Disconnect(C!Session(r)) /\ claim' = Released(r)
       \/ /\ pc[r] = "insert" /\ stage = "commit" /\ code[r] \in Codes
          /\ claim' = [claim EXCEPT ![code[r]] = r] /\ UNCHANGED <<conns, code>>
       \/ /\ pc[r] = "commit" /\ stage \in C!Answers
          /\ Disconnect(C!Session(r))
          /\ claim' = [claim EXCEPT ![code[r]] = Nobody] /\ UNCHANGED code

LEMMA CreationShape ==
    ASSUME Registered, NEW r \in Creates,
           \/ C!Submit(r) \/ C!Step(r)
           \/ C!CommitInDoubt(r) \/ C!DbError(r) \/ C!TimedOut(r)
    PROVE  \E stage \in Stages : Shape(r, stage)
<1>0. /\ CreatesTyped /\ IndexSound
      /\ \A stage \in C!Answers \cup {"check", "generate", "insert", "commit"} : stage \in Stages
  BY DEF Registered, Stages
<1>1. CASE C!Submit(r)
  <2>1. /\ pc[r] = "idle" /\ UNCHANGED <<claim, conns, code>>
        /\ \E stage \in {"check", "generate"} : pc' = [pc EXCEPT ![r] = stage]
    BY <1>1 DEF C!Submit, C!database
  <2> QED
    BY <1>0, <2>1 DEF Shape
<1>2. ASSUME NEW c \in Codes, C!Proceed(r, c), pc[r] \in {"check", "generate"}
      PROVE  Shape(r, "insert")
  BY <1>0, <1>2, SamePool DEF C!Proceed, Shape, CreatesTyped
<1>3. ASSUME NEW answer \in {"409", "503", "500"}, C!Abort(r, answer),
             code' = code \/ (\E c \in Codes : code' = [code EXCEPT ![r] = c])
      PROVE  Shape(r, answer)
  BY <1>0, <1>3, SamePool DEF C!Abort, Shape, Released, C!Answers, CreatesTyped
<1>4. CASE C!CheckCustom(r)
  <2>1. pc[r] = "check" /\ form[r].custom \in Codes
    BY <1>0, <1>4 DEF C!CheckCustom, IndexSound
  <2>2. C!Proceed(r, form[r].custom) \/ (C!Abort(r, "409") /\ code' = code)
    BY <1>4 DEF C!CheckCustom
  <2> QED
    BY <1>0, <1>2, <1>3, <2>1, <2>2 DEF C!Answers
<1>5. CASE C!TryCode(r)
  <2>1. PICK c \in Codes :
          \/ C!Proceed(r, c)
          \/ /\ code' = [code EXCEPT ![r] = c]
             /\ C!Connect(C!Session(r)) /\ UNCHANGED <<claim, pc>>
          \/ code' = [code EXCEPT ![r] = c] /\ C!Abort(r, "503")
    BY <1>5 DEF C!TryCode
  <2>2. pc[r] = "generate"
    BY <1>5 DEF C!TryCode
  <2>3. CASE /\ code' = [code EXCEPT ![r] = c]
             /\ C!Connect(C!Session(r)) /\ UNCHANGED <<claim, pc>>
    <3>1. pc' = [pc EXCEPT ![r] = "generate"]
      BY <1>0, <2>2, <2>3 DEF CreatesTyped
    <3>2. Shape(r, "generate")
      BY <1>0, <2>2, <2>3, <3>1, SamePool DEF Shape, CreatesTyped
    <3> QED
      BY <1>0, <3>2
  <2> QED
    BY <1>0, <1>2, <1>3, <2>1, <2>2, <2>3 DEF C!Answers
<1>6. CASE C!Insert(r)
  <2>1. pc[r] = "insert" /\ code[r] \in Codes
    BY <1>0, <1>6 DEF C!Insert, IndexSound
  <2>2. CASE /\ claim' = [claim EXCEPT ![code[r]] = r]
             /\ pc' = [pc EXCEPT ![r] = "commit"] /\ UNCHANGED <<conns, code>>
    BY <1>0, <2>1, <2>2 DEF Shape
  <2>3. CASE C!Abort(r, "409") /\ code' = code
    BY <1>0, <1>3, <2>3 DEF C!Answers
  <2> QED
    BY <1>6, <2>2, <2>3 DEF C!Insert
<1>7. CASE C!Commit(r) \/ C!CommitInDoubt(r)
  <2>1. PICK answer \in {"201", "500", "lost"} : C!CommitAs(r, answer)
    BY <1>7 DEF C!Commit, C!CommitInDoubt
  <2>2. answer \in C!Answers
    BY DEF C!Answers
  <2> QED
    BY <1>0, <2>1, <2>2, SamePool DEF C!CommitAs, Shape
<1>8. CASE C!DbError(r) \/ C!TimedOut(r)
  <2>1. C!Abort(r, "500") /\ code' = code
    BY <1>8 DEF C!DbError, C!TimedOut
  <2> QED
    BY <1>0, <1>3, <2>1 DEF C!Answers
<1> QED
  BY <1>1, <1>4, <1>5, <1>6, <1>7, <1>8 DEF C!Step

LEMMA CreationHolds ==
    ASSUME HoldInv, CreationMoves
    PROVE  PoolKept' /\ Holds' /\ ClaimsHeld'
<1>0. /\ CreatesTyped /\ PoolKept /\ Holds /\ ClaimsHeld
      /\ UNCHANGED <<visit, click, reader>>
  BY DEF HoldInv, ServiceInv, Registered, CreationMoves, redirect
<1>1. PICK r \in Creates, stage \in Stages : Shape(r, stage)
  BY CreationShape DEF HoldInv, ServiceInv, CreationMoves
<1>2. PoolKept'
  BY <1>0, <1>1, PoolStep DEF Shape
<1>3. Holds'
  <2>1. OnlyMoves(C!Session(r)) /\ pc' = [pc EXCEPT ![r] = stage]
    BY <1>1 DEF Shape, Connect, Disconnect, OnlyMoves
  <2>2. /\ stage \in {"insert", "commit"} => C!Session(r) \in conns'
        /\ C!Session(r) \in conns' => stage \in {"generate", "insert", "commit"}
    BY <1>0, <1>1 DEF Shape, Connect, Disconnect, C!Answers, Holds, CreatesHold
  <2> QED
    BY <1>0, <2>1, <2>2, CreateMoves
<1>4. ClaimsHeld'
  <2> SUFFICES ASSUME NEW c \in Codes, claim'[c] # Nobody
               PROVE  pc'[claim'[c]] = "commit" /\ code'[claim'[c]] = c
    BY DEF ClaimsHeld
  <2>1. claim \in [Codes -> Creates \cup {Nobody}] /\ pc \in [Creates -> Stages]
    BY <1>0 DEF CreatesTyped
  <2>2. pc'[r] = stage /\ \A q \in Creates : q # r => pc'[q] = pc[q] /\ code'[q] = code[q]
    BY <1>1, <2>1 DEF Shape
  <2>3. CASE claim'[c] = r
    BY <1>0, <1>1, <2>1, <2>2, <2>3, Instance
       DEF Shape, Released, ClaimsHeld, C!Answers
  <2>4. CASE claim'[c] # r
    <3>1. claim'[c] = claim[c] /\ claim[c] \in Creates
      BY <1>1, <2>1, <2>4 DEF Shape, Released
    <3> QED
      BY <1>0, <2>2, <2>4, <3>1 DEF ClaimsHeld
  <2> QED
    BY <2>3, <2>4
<1> QED
  BY <1>2, <1>3, <1>4

-----------------------------------------------------------------------------
(* So do redirects, clicks and reports.                                    *)

\* What HoldInv adds to the typing and to ServiceInv.
Kept == RestTyped /\ ClicksFollow /\ PoolKept /\ Holds /\ ClaimsHeld /\ RowLocksHeld

\* A step of visit v, as far as pool and clicks are concerned: it arrives, asks the
\* cache, finds a row, fills the cache, is redirected, or is refused.
VisitShape(v, place) ==
    /\ visit' = [visit EXCEPT ![v] = place]
    /\ \A w \in Visits : w # v => target'[w] = target[w]
    /\ UNCHANGED <<claim, rowlock, reader, pc, code>>
    /\ \/ /\ visit[v] \in {"idle", "cache", "fill"}
          /\ visit[v] = "fill" => place = "close"
          /\ place \in {"cache", "lookup", "close", "other"}
          /\ UNCHANGED <<conns, click>>
       \/ /\ visit[v] = "lookup" /\ place \in {"fill", "close", "absent", "outdated"}
          /\ Connect(R!RequestOf(v)) /\ UNCHANGED click
       \/ /\ visit[v] = "close" /\ place = "302"
          /\ Disconnect(R!RequestOf(v)) /\ click' = [click EXCEPT ![v] = "queued"]
       \/ /\ visit[v] \in {"lookup", "close", "absent", "outdated"}
          /\ place \in {"404", "expired", "500"}
          /\ Disconnect(R!RequestOf(v)) /\ UNCHANGED click

LEMMA VisitHasShape ==
    ASSUME HoldInv, NEW v \in Visits, UNCHANGED create,
           \/ R!Arrive(v) \/ R!VisitStep(v) \/ R!VisitDbError(v) \/ R!VisitPoolTimeout(v)
           \/ OtherRoute(v)
    PROVE  \E place : VisitShape(v, place)
<1>0. /\ target \in [Visits -> Codes \cup {NoCode}]
      /\ UNCHANGED <<pc, code>>
  BY DEF HoldInv, ServiceInv, Faithful, VisitsTyped, create
<1>1. CASE R!Arrive(v)
  <2>1. VisitShape(v, "cache")
    BY <1>0, <1>1 DEF R!Arrive, R!Goto, R!database, R!clicks, R!readers, VisitShape
  <2> QED
    BY <2>1
<1>2. CASE R!CacheGet(v) \/ R!CacheGetFails(v)
  <2>1. VisitShape(v, "close") \/ VisitShape(v, "lookup")
    BY <1>0, <1>2 DEF R!CacheGet, R!CacheGetFails, R!Goto, R!database, R!clicks, R!readers,
                      VisitShape
  <2> QED
    BY <2>1
<1>3. CASE R!Lookup(v)
  <2>1. VisitShape(v, "fill") \/ VisitShape(v, "close")
    BY <1>0, <1>3, SamePool DEF R!Lookup, R!Goto, R!clicks, R!readers, VisitShape
  <2> QED
    BY <2>1
<1>4. CASE R!NotFound(v)
  <2>1. VisitShape(v, "outdated") \/ VisitShape(v, "absent")
    BY <1>0, <1>4, SamePool DEF R!NotFound, R!Goto, R!clicks, R!readers, VisitShape
  <2> QED
    BY <2>1
<1>5. CASE R!CacheFill(v) \/ R!CacheFillFails(v)
  <2>1. VisitShape(v, "close")
    BY <1>0, <1>5 DEF R!CacheFill, R!CacheFillFails, R!Goto, R!database, R!clicks, R!readers,
                      VisitShape
  <2> QED
    BY <2>1
<1>6. CASE R!Close(v)
  <2>1. VisitShape(v, "302")
    BY <1>0, <1>6, SamePool DEF R!Close, R!Goto, R!readers, VisitShape
  <2> QED
    BY <2>1
<1>7. CASE R!VisitDbError(v)
  <2>1. VisitShape(v, "500")
    BY <1>0, <1>7, SamePool DEF R!VisitDbError, R!Goto, R!clicks, R!readers, VisitShape
  <2> QED
    BY <2>1
<1>8. CASE R!VisitPoolTimeout(v)
  <2>1. Disconnect(R!RequestOf(v))
    BY <1>8 DEF R!VisitPoolTimeout, R!PoolFull, Disconnect
  <2>2. VisitShape(v, "500")
    BY <1>0, <1>8, <2>1 DEF R!VisitPoolTimeout, R!Goto, R!clicks, R!readers, VisitShape
  <2> QED
    BY <2>2
<1>9. CASE OtherRoute(v)
  <2>1. VisitShape(v, "other")
    BY <1>0, <1>9 DEF OtherRoute, database, VisitShape
  <2> QED
    BY <2>1
<1>10. CASE R!RollBack(v)
  <2>1. VisitShape(v, "expired") \/ VisitShape(v, "404")
    BY <1>0, <1>10, SamePool DEF R!RollBack, R!Goto, R!clicks, R!readers, VisitShape
  <2> QED
    BY <2>1
<1> QED
  BY <1>1, <1>2, <1>3, <1>4, <1>5, <1>6, <1>7, <1>8, <1>9, <1>10 DEF R!VisitStep

LEMMA VisitHolds ==
    ASSUME HoldInv, NEW v \in Visits, NEW place, VisitShape(v, place)
    PROVE  Kept'
<1>0. /\ VisitsTyped /\ ClicksTyped /\ RestTyped /\ ClicksFollow
      /\ PoolKept /\ Holds /\ ClaimsHeld /\ RowLocksHeld
  BY DEF HoldInv, ServiceInv, Faithful
<1>1. click[v] = "none" /\ visit[v] # "302"
  BY <1>0 DEF ClicksFollow, VisitShape
<1>2. \A w \in Visits : visit'[w] = IF w = v THEN place ELSE visit[w]
  BY <1>0 DEF VisitShape, VisitsTyped
<1>3. \A w \in Visits : click'[w] = IF w = v /\ place = "302" THEN "queued" ELSE click[w]
  <2>1. CASE visit[v] = "close" /\ place = "302"
    BY <1>0, <2>1 DEF VisitShape, ClicksTyped
  <2>2. CASE place # "302" /\ UNCHANGED click
    BY <2>2
  <2> QED
    BY <2>1, <2>2 DEF VisitShape
<1>4. RestTyped' /\ ClaimsHeld'
  BY <1>0 DEF VisitShape, RestTyped, ClaimsHeld
<1>5. ClicksFollow'
  BY <1>0, <1>1, <1>2, <1>3 DEF ClicksFollow
<1>6. PoolKept'
  BY <1>0, PoolStep DEF VisitShape
<1>7. Holds'
  <2>1. /\ OnlyMoves(R!RequestOf(v)) /\ visit' = [visit EXCEPT ![v] = place]
        /\ UNCHANGED <<pc, reader>>
    BY DEF VisitShape, Connect, Disconnect, OnlyMoves
  <2>2. /\ place \in {"fill", "absent", "outdated"} => R!RequestOf(v) \in conns'
        /\ R!RequestOf(v) \in conns' => place \in {"fill", "close", "absent", "outdated"}
    BY <1>0 DEF VisitShape, Connect, Disconnect, Holds, VisitsHold
  <2>3. click' = click \/ (click[v] = "none" /\ click' = [click EXCEPT ![v] = "queued"])
    BY <1>1 DEF VisitShape
  <2> QED
    BY <1>0, <2>1, <2>2, <2>3, VisitMoves
<1>8. RowLocksHeld'
  <2>1. \A c \in Codes : rowlock'[c] = rowlock[c] /\ rowlock[c] \in Visits \cup {Nobody}
    BY <1>0 DEF VisitShape, RestTyped
  <2>2. \A w \in Visits : w # v => click'[w] = click[w] /\ target'[w] = target[w]
    BY <1>3 DEF VisitShape
  <2> QED
    BY <1>0, <1>1, <2>1, <2>2 DEF RowLocksHeld
<1> QED
  BY <1>4, <1>5, <1>6, <1>7, <1>8 DEF Kept

\* A step of the task of v: it opens its session, locks the row, commits, or fails.
TaskShape(v, stage) ==
    /\ click' = [click EXCEPT ![v] = stage]
    /\ UNCHANGED <<claim, visit, target, reader, pc, code>>
    /\ \/ /\ click[v] = "queued" /\ stage = "updating"
          /\ Connect(R!TaskOf(v)) /\ UNCHANGED rowlock
       \/ /\ click[v] = "updating" /\ stage = "commit" /\ rowlock[target[v]] = Nobody
          /\ rowlock' = [rowlock EXCEPT ![target[v]] = v] /\ UNCHANGED conns
       \/ /\ click[v] = "commit" /\ stage = "counted"
          /\ rowlock' = [rowlock EXCEPT ![target[v]] = Nobody] /\ Disconnect(R!TaskOf(v))
       \/ /\ click[v] \in {"queued", "updating", "commit"} /\ stage = "dropped"
          /\ rowlock' = [c \in Codes |-> IF rowlock[c] = v THEN Nobody ELSE rowlock[c]]
          /\ Disconnect(R!TaskOf(v))

LEMMA TaskHasShape ==
    ASSUME NEW v \in Visits, UNCHANGED create, R!ClickStep(v) \/ R!ClickFails(v)
    PROVE  \E stage : TaskShape(v, stage)
<1>0. UNCHANGED <<pc, code>>
  BY DEF create
<1>1. CASE R!OpenTask(v)
  <2>1. TaskShape(v, "updating")
    BY <1>0, <1>1, SamePool DEF R!OpenTask, R!visits, R!readers, TaskShape
  <2> QED
    BY <2>1
<1>2. CASE R!LockRow(v)
  <2>1. TaskShape(v, "commit")
    BY <1>0, <1>2 DEF R!LockRow, R!database, R!visits, R!readers, TaskShape
  <2> QED
    BY <2>1
<1>3. CASE R!CommitClick(v)
  <2>1. TaskShape(v, "counted")
    BY <1>0, <1>3, SamePool DEF R!CommitClick, R!visits, R!readers, TaskShape
  <2> QED
    BY <2>1
<1>4. CASE R!ClickFails(v)
  <2>1. TaskShape(v, "dropped")
    BY <1>0, <1>4, SamePool DEF R!ClickFails, R!visits, R!readers, TaskShape
  <2> QED
    BY <2>1
<1> QED
  BY <1>1, <1>2, <1>3, <1>4 DEF R!ClickStep

LEMMA TaskHolds ==
    ASSUME HoldInv, NEW v \in Visits, NEW stage, TaskShape(v, stage)
    PROVE  Kept'
<1>0. /\ VisitsTyped /\ ClicksTyped /\ RestTyped /\ ClicksFollow
      /\ PoolKept /\ Holds /\ ClaimsHeld /\ RowLocksHeld
  BY DEF HoldInv, ServiceInv, Faithful
<1>1. click[v] # "none" /\ target[v] \in Codes
  BY <1>0 DEF TaskShape, ClicksFollow, VisitsTyped
<1>2. \A w \in Visits : click'[w] = IF w = v THEN stage ELSE click[w]
  BY <1>0 DEF TaskShape, ClicksTyped
<1>3. RestTyped' /\ ClaimsHeld'
  BY <1>0 DEF TaskShape, RestTyped, ClaimsHeld
<1>4. ClicksFollow'
  BY <1>0, <1>1, <1>2 DEF TaskShape, ClicksFollow
<1>5. PoolKept'
  BY <1>0, PoolStep DEF TaskShape
<1>6. Holds'
  <2>1. OnlyMoves(R!TaskOf(v)) /\ click' = [click EXCEPT ![v] = stage]
    BY DEF TaskShape, Connect, Disconnect, OnlyMoves
  <2>2. R!TaskOf(v) \in conns' <=> stage \in {"updating", "commit"}
    BY <1>0 DEF TaskShape, Connect, Disconnect, Holds, TasksHold
  <2> QED
    BY <1>0, <2>1, <2>2, TaskMoves DEF TaskShape
<1>7. RowLocksHeld'
  <2>1. /\ rowlock \in [Codes -> Visits \cup {Nobody}] /\ UNCHANGED target
        /\ Nobody \notin Visits
    BY <1>0, Parts DEF TaskShape, RestTyped
  <2>2. CASE click[v] = "updating" /\ stage = "commit"
    BY <1>0, <1>1, <1>2, <2>1, <2>2 DEF TaskShape, RowLocksHeld
  <2>3. CASE stage # "commit"
    <3>1. \A c \in Codes : rowlock'[c] # Nobody => rowlock'[c] = rowlock[c] /\ rowlock[c] # v
      BY <1>0, <1>1, <2>1, <2>3 DEF TaskShape, RowLocksHeld
    <3> QED
      BY <1>0, <1>2, <2>1, <3>1 DEF RowLocksHeld
  <2> QED
    BY <2>2, <2>3 DEF TaskShape
<1> QED
  BY <1>3, <1>4, <1>5, <1>6, <1>7 DEF Kept

\* A step of reader s: it asks, reads on, or is answered.
ReaderShape(s, query) ==
    /\ reader' = [reader EXCEPT ![s] = query]
    /\ UNCHANGED <<claim, rowlock, visit, target, click, pc, code>>
    /\ \/ reader[s] = "idle" /\ query = "url" /\ UNCHANGED conns
       \/ reader[s] = "url" /\ query = "recent" /\ Connect(R!RequestOf(s))
       \/ reader[s] = "recent" /\ query = "top" /\ UNCHANGED conns
       \/ query \in {"404", "200", "500"} /\ Disconnect(R!RequestOf(s))

LEMMA ReaderHasShape ==
    ASSUME NEW s \in Readers, UNCHANGED create,
           R!AskReport(s) \/ R!ReaderStep(s) \/ R!ReaderFails(s)
    PROVE  \E query : ReaderShape(s, query)
<1>0. UNCHANGED <<pc, code>>
  BY DEF create
<1>1. CASE R!AskReport(s)
  <2>1. ReaderShape(s, "url")
    BY <1>0, <1>1 DEF R!AskReport, R!database, R!visits, R!clicks, ReaderShape
  <2> QED
    BY <2>1
<1>2. CASE R!ReadUrl(s)
  <2>1. ReaderShape(s, "recent") \/ ReaderShape(s, "404")
    BY <1>0, <1>2, SamePool DEF R!ReadUrl, R!visits, R!clicks, ReaderShape
  <2> QED
    BY <2>1
<1>3. CASE R!ReadRecent(s)
  <2>1. ReaderShape(s, "top")
    BY <1>0, <1>3 DEF R!ReadRecent, R!database, R!visits, R!clicks, ReaderShape
  <2> QED
    BY <2>1
<1>4. CASE R!ReadTop(s)
  <2>1. ReaderShape(s, "200")
    BY <1>0, <1>4, SamePool DEF R!ReadTop, R!visits, R!clicks, ReaderShape
  <2> QED
    BY <2>1
<1>5. CASE R!ReaderFails(s)
  <2>1. ReaderShape(s, "500")
    BY <1>0, <1>5, SamePool DEF R!ReaderFails, R!visits, R!clicks, ReaderShape
  <2> QED
    BY <2>1
<1> QED
  BY <1>1, <1>2, <1>3, <1>4, <1>5 DEF R!ReaderStep

LEMMA ReaderHolds ==
    ASSUME HoldInv, NEW s \in Readers, NEW query, ReaderShape(s, query)
    PROVE  Kept'
<1>0. /\ RestTyped /\ ClicksFollow /\ PoolKept /\ Holds /\ ClaimsHeld /\ RowLocksHeld
  BY DEF HoldInv
<1>1. RestTyped'
  BY <1>0 DEF ReaderShape, RestTyped
<1>2. ClicksFollow' /\ ClaimsHeld' /\ RowLocksHeld'
  BY <1>0 DEF ReaderShape, ClicksFollow, ClaimsHeld, RowLocksHeld
<1>3. PoolKept'
  BY <1>0, PoolStep DEF ReaderShape
<1>4. Holds'
  <2>1. OnlyMoves(R!RequestOf(s)) /\ reader' = [reader EXCEPT ![s] = query]
    BY DEF ReaderShape, Connect, Disconnect, OnlyMoves
  <2>2. R!RequestOf(s) \in conns' <=> query \in {"recent", "top"}
    BY <1>0 DEF ReaderShape, Connect, Disconnect, Holds, ReadersHold
  <2> QED
    BY <1>0, <2>1, <2>2, ReaderMoves DEF ReaderShape
<1> QED
  BY <1>1, <1>2, <1>3, <1>4 DEF Kept

\* What does not concern requests, tasks, pool or locks.
LEMMA KeptStays ==
    ASSUME Kept, UNCHANGED <<claim, rowlock, conns, visit, target, click, reader, pc, code>>
    PROVE  Kept'
BY DEF Kept, RestTyped, ClicksFollow, PoolKept, Holds, CreatesHold, VisitsHold, TasksHold,
       ReadersHold, Sessions, ClaimsHeld, RowLocksHeld

LEMMA RedirectionHolds ==
    ASSUME HoldInv, Redirection
    PROVE  Kept'
<1>0. UNCHANGED create /\ UNCHANGED <<pc, code>> /\ Kept
  BY DEF HoldInv, Kept, Redirection, create
<1>1. CASE \E v \in Visits : \/ R!Arrive(v) \/ R!VisitStep(v)
                             \/ R!VisitDbError(v) \/ R!VisitPoolTimeout(v)
  BY <1>0, <1>1, VisitHasShape, VisitHolds
<1>2. CASE \E v \in Visits : R!ClickStep(v) \/ R!ClickFails(v)
  BY <1>0, <1>2, TaskHasShape, TaskHolds
<1>3. CASE \E s \in Readers : R!AskReport(s) \/ R!ReaderStep(s) \/ R!ReaderFails(s)
  BY <1>0, <1>3, ReaderHasShape, ReaderHolds
<1>4. CASE \/ \E c \in Codes : R!CacheExpire(c)
           \/ \E state \in RedisStates : R!RedisBecomes(state)
  <2>1. UNCHANGED <<claim, rowlock, conns, visit, target, click, reader>>
    BY <1>4 DEF R!CacheExpire, R!RedisBecomes, R!database, R!visits, R!clicks, R!readers
  <2> QED
    BY <1>0, <2>1, KeptStays
<1> QED
  BY <1>1, <1>2, <1>3, <1>4 DEF Redirection, R!RedirectNext

LEMMA CrashHolds ==
    ASSUME HoldInv, Crash
    PROVE  Kept'
<1>0. /\ CreatesTyped /\ VisitsTyped /\ ClicksTyped /\ RestTyped /\ ClicksFollow
      /\ conns' = {}
  BY DEF HoldInv, ServiceInv, Registered, Faithful, Crash
<1>1. /\ \A r \in Creates : pc'[r] \notin {"insert", "commit"}
      /\ \A c \in Codes : claim'[c] = Nobody
  BY <1>0 DEF Crash, C!CreateCrash, C!InFlight, C!Answers, CreatesTyped, Stages
<1>2. /\ \A v \in Visits : /\ visit'[v] \notin {"fill", "absent", "outdated"}
                         /\ click'[v] \notin {"updating", "commit"}
      /\ \A s \in Readers : reader'[s] \notin {"recent", "top"}
      /\ \A c \in Codes : rowlock'[c] = Nobody
  BY DEF Crash, R!RedirectCrash, R!VisitInFlight, R!ClickInFlight, R!ReaderInFlight
<1>3. RestTyped'
  BY <1>0 DEF Crash, R!RedirectCrash, RestTyped
<1>4. ClicksFollow'
  BY <1>0 DEF Crash, R!RedirectCrash, R!VisitInFlight, R!ClickInFlight, ClicksFollow
<1>5. PoolKept'
  BY <1>0, PoolStep DEF HoldInv
<1>6. Holds'
  BY <1>0, <1>1, <1>2
     DEF Holds, CreatesHold, VisitsHold, TasksHold, ReadersHold
<1>7. ClaimsHeld' /\ RowLocksHeld'
  BY <1>1, <1>2 DEF ClaimsHeld, RowLocksHeld
<1> QED
  BY <1>3, <1>4, <1>5, <1>6, <1>7 DEF Kept

LEMMA InitHoldInv == Init => HoldInv
<1> SUFFICES ASSUME Init PROVE HoldInv
  OBVIOUS
<1>1. ServiceInv
  BY InitRegistered, InitFaithful DEF ServiceInv
<1>2. conns = {} /\ IsFiniteSet(conns) /\ Cardinality(conns) = 0
  BY FS_EmptySet DEF Init, C!CreateInit
<1>3. PoolKept
  BY <1>2, Instance DEF PoolKept
<1>4. ClicksTyped /\ RestTyped /\ ClicksFollow /\ ClaimsHeld /\ RowLocksHeld
  BY DEF Init, C!CreateInit, R!RedirectInit, ClicksTyped, RestTyped, ClicksFollow,
         ClaimsHeld, RowLocksHeld
<1>5. Holds
  BY <1>2 DEF Init, C!CreateInit, R!RedirectInit, Holds, CreatesHold, VisitsHold, TasksHold,
              ReadersHold
<1> QED
  BY <1>1, <1>3, <1>4, <1>5 DEF HoldInv

LEMMA StepHoldInv == HoldInv /\ [Next]_vars => HoldInv'
<1> SUFFICES ASSUME HoldInv, [Next]_vars PROVE HoldInv'
  OBVIOUS
<1>0. ServiceInv' /\ ClicksTyped' /\ Kept
  BY StepServiceInv, StepClicksTyped DEF HoldInv, Kept
<1>1. CASE Creation \/ Starvation
  <2>0. CreationMoves
    BY <1>1, CreationsMove
  <2>1. PoolKept' /\ Holds' /\ ClaimsHeld'
    BY <2>0, CreationHolds
  <2>2. RestTyped' /\ ClicksFollow' /\ RowLocksHeld'
    BY <1>0, <2>0 DEF Kept, CreationMoves, redirect, RestTyped, ClicksFollow, RowLocksHeld
  <2> QED
    BY <1>0, <2>1, <2>2 DEF HoldInv
<1>2. CASE Redirection
  BY <1>0, <1>2, RedirectionHolds DEF HoldInv, Kept
<1>3. ASSUME NEW v \in Visits, OtherRoute(v) PROVE HoldInv'
  <2>1. UNCHANGED create
    BY <1>3 DEF OtherRoute
  <2> QED
    BY <1>0, <1>3, <2>1, VisitHasShape, VisitHolds DEF HoldInv, Kept
<1>4. CASE Crash
  BY <1>0, <1>4, CrashHolds DEF HoldInv, Kept
<1>5. CASE Tick /\ UNCHANGED <<create, redirect, known>>
  BY <1>0, <1>5, KeptStays DEF Tick, create, redirect, HoldInv, Kept
<1>6. CASE UNCHANGED vars
  BY <1>0, <1>6, KeptStays DEF vars, HoldInv, Kept
<1> QED
  BY <1>1, <1>2, <1>3, <1>4, <1>5, <1>6 DEF Next

LEMMA HoldInvHolds == Spec => []HoldInv
BY InitHoldInv, StepHoldInv, PTL DEF Spec

\* What the locks and the pool say is HoldersGoOn.
LEMMA HoldInvGoesOn == HoldInv => HoldersGoOn
<1> SUFFICES ASSUME HoldInv PROVE HoldersGoOn
  OBVIOUS
<1>0. Holds /\ CreatesHold /\ VisitsHold /\ TasksHold /\ ReadersHold /\ conns \subseteq Sessions
  BY DEF HoldInv, Holds
<1>1. Working \subseteq conns
  BY <1>0 DEF Working, CreatesHold, VisitsHold, TasksHold, ReadersHold
<1>2. conns \subseteq Working \cup Between
  BY <1>0 DEF Working, Between, Sessions, CreatesHold, VisitsHold, TasksHold, ReadersHold
<1> QED
  BY <1>1, <1>2 DEF HoldInv, PoolKept, ClaimsHeld, RowLocksHeld, HoldersGoOn

(***************************************************************************)
(* For every pool, every number of requests and every failure: the         *)
(* connections are with sessions at work and never more than the pool has, *)
(* and whoever holds a code in the index or the lock of a row is about to  *)
(* commit, so that nobody waits in a circle (the sessions of               *)
(* app/db/database.py, as the handlers and the click task use them).       *)
(***************************************************************************)
THEOREM HoldersAlwaysGoOn == Spec => []HoldersGoOn
BY HoldInvHolds, HoldInvGoesOn, PTL

\* Who waits for a code or a row waits for somebody who is about to commit.
LEMMA LockHolderGoesOn ==
    ASSUME HoldInv, AwaitLock # {}
    PROVE  Busy \ (AwaitPool \cup AwaitLock) # {}
<1>0. /\ CreatesTyped /\ IndexSound /\ VisitsTyped /\ RestTyped /\ ClicksFollow
      /\ ClaimsHeld /\ RowLocksHeld
  BY DEF HoldInv, ServiceInv, Registered, Faithful
<1>1. ASSUME NEW q \in Creates, pc[q] = "commit"
      PROVE  C!Session(q) \in Busy \ (AwaitPool \cup AwaitLock)
  <2>1. C!Session(q) \in Busy
    BY <1>1 DEF Busy, C!InFlight, C!Answers
  <2>2. C!Session(q) \notin AwaitPool
    BY <1>1, SessionsDiffer DEF AwaitPool
  <2>3. C!Session(q) \notin AwaitLock
    BY <1>1, SessionsDiffer DEF AwaitLock
  <2> QED
    BY <2>1, <2>2, <2>3
<1>2. ASSUME NEW w \in Visits, click[w] = "commit"
      PROVE  R!TaskOf(w) \in Busy \ (AwaitPool \cup AwaitLock)
  <2>1. R!TaskOf(w) \in Busy
    BY <1>2 DEF Busy, R!ClickInFlight
  <2>2. R!TaskOf(w) \notin AwaitPool
    BY <1>2, SessionsDiffer DEF AwaitPool
  <2>3. R!TaskOf(w) \notin AwaitLock
    BY <1>2, SessionsDiffer DEF AwaitLock
  <2> QED
    BY <2>1, <2>2, <2>3
<1>3. ASSUME NEW r \in Creates, pc[r] = "insert", claim[code[r]] # Nobody
      PROVE  \E q \in Creates : pc[q] = "commit"
  <2>1. code[r] \in Codes /\ claim[code[r]] \in Creates
    BY <1>0, <1>3 DEF IndexSound, CreatesTyped
  <2> QED
    BY <1>0, <1>3, <2>1 DEF ClaimsHeld
<1>4. ASSUME NEW v \in Visits, click[v] = "updating", rowlock[target[v]] # Nobody
      PROVE  \E w \in Visits : click[w] = "commit"
  <2>1. target[v] \in Codes /\ rowlock[target[v]] \in Visits
    BY <1>0, <1>4 DEF ClicksFollow, VisitsTyped, RestTyped
  <2> QED
    BY <1>0, <1>4, <2>1 DEF RowLocksHeld
<1> QED
  BY <1>1, <1>2, <1>3, <1>4 DEF AwaitLock

LEMMA HoldInvSomebodyGoesOn == HoldInv => SomebodyGoesOn
<1> SUFFICES ASSUME HoldInv, NEW x \in Busy
             PROVE  Busy \ (AwaitPool \cup AwaitLock) # {}
  BY DEF SomebodyGoesOn
<1>1. CASE AwaitLock # {}
  BY <1>1, LockHolderGoesOn
<1>2. CASE AwaitLock = {} /\ x \in AwaitPool
  <2>1. conns # {}
    <3>1. Cardinality(conns) >= PoolSize /\ PoolSize \in Nat \ {0}
      BY <1>2, Instance DEF AwaitPool, PoolFull
    <3>2. conns = {} => Cardinality(conns) = 0
      BY FS_EmptySet
    <3> QED
      BY <3>1, <3>2
  <2>2. PICK s : s \in conns
    BY <2>1
  <2>3. s \in Working \cup Between
    BY <2>2, HoldInvGoesOn DEF HoldersGoOn
  <2>4. s \in Busy
    BY <2>3 DEF Working, Between, Busy, C!InFlight, C!Answers, R!VisitInFlight,
                R!ClickInFlight, R!ReaderInFlight
  <2>5. s \notin AwaitPool
    BY <2>2 DEF AwaitPool, PoolFull
  <2> QED
    BY <1>2, <2>4, <2>5
<1> QED
  BY <1>1, <1>2

(***************************************************************************)
(* For every pool of at least one connection nobody waits in a circle: as  *)
(* long as a request, a click task or a report is busy, one of them has    *)
(* the connections and the locks that it goes on with.                     *)
(***************************************************************************)
THEOREM SomebodyAlwaysGoesOn == Spec => []SomebodyGoesOn
BY HoldInvHolds, HoldInvSomebodyGoesOn, PTL

-----------------------------------------------------------------------------
(* What the parts promise on their own, they promise together.             *)

(***************************************************************************)
(* The promises of POST /api/urls hold also while redirects, click tasks   *)
(* and reports compete for the connections: a 201 names the row that was   *)
(* asked for, a 409 the row of another, a refusal leaves no row, and an    *)
(* answer holds nothing.                                                   *)
(***************************************************************************)
THEOREM CreationsKeepPromises ==
    Spec => [](/\ C!CreatedIsDurable /\ C!ConflictIsReal
               /\ C!RefusedLeavesNoRow /\ C!AnsweredHoldsNothing)
<1>1. HoldInv => /\ C!CreatedIsDurable /\ C!ConflictIsReal
                 /\ C!RefusedLeavesNoRow /\ C!AnsweredHoldsNothing
  <2> SUFFICES ASSUME HoldInv
               PROVE  /\ C!CreatedIsDurable /\ C!ConflictIsReal
                      /\ C!RefusedLeavesNoRow /\ C!AnsweredHoldsNothing
    OBVIOUS
  <2>0. /\ CreatesTyped /\ RowsRequested /\ PromisesKept /\ CreatesHold /\ ClaimsHeld
        /\ \A c \in Codes : C!CodeExists(c) <=> CodeExists(c)
    BY DEF HoldInv, ServiceInv, Registered, Holds, C!CodeExists, CodeExists
  <2>1. C!CreatedIsDurable
    <3> SUFFICES ASSUME NEW r \in Creates, pc[r] = "201"
                 PROVE  rows[code[r]] = C!NewRow(r)
      BY DEF C!CreatedIsDurable
    <3>1. /\ code[r] \in Codes /\ CodeExists(code[r]) /\ rows[code[r]].by = r
          /\ rows[code[r]].url = form[r].url /\ rows[code[r]].expires_at = expires[r]
      BY <2>0 DEF PromisesKept, RowsRequested
    <3>2. rows[code[r]] \in Row
      BY <2>0, <3>1 DEF CreatesTyped, CodeExists
    <3> QED
      BY <3>1, <3>2 DEF Row, C!NewRow
  <2>2. C!ConflictIsReal
    BY <2>0 DEF C!ConflictIsReal, PromisesKept, RowsRequested, Settled
  <2>3. C!RefusedLeavesNoRow
    BY <2>0 DEF C!RefusedLeavesNoRow, RowsRequested, Settled
  <2>4. C!AnsweredHoldsNothing
    BY <2>0, Instance DEF C!AnsweredHoldsNothing, C!Answers, CreatesHold, ClaimsHeld
  <2> QED
    BY <2>1, <2>2, <2>3, <2>4
<1> QED
  BY <1>1, HoldInvHolds, PTL

LEMMA StepRowsGrow == ServiceInv /\ [Next]_vars => RowsGrow
<1> SUFFICES ASSUME ServiceInv, [Next]_vars PROVE RowsGrow
  OBVIOUS
<1>1. CASE Creation \/ Starvation
  BY <1>1, CreationsMove, CreationRegistered DEF CreationMoves, ServiceInv
<1>2. CASE UNCHANGED rows
  BY <1>2 DEF RowsGrow
<1>3. CASE Redirection
  <2>1. UNCHANGED rows
    BY <1>3 DEF Redirection, R!RedirectNext, R!Arrive, R!VisitStep, R!ClickStep,
         R!ReaderStep, R!CacheGet, R!CacheGetFails, R!Lookup, R!NotFound, R!CacheFill,
         R!CacheFillFails, R!Close, R!RollBack, R!VisitDbError, R!VisitPoolTimeout,
         R!OpenTask, R!LockRow, R!CommitClick, R!ClickFails, R!AskReport, R!ReadUrl,
         R!ReadRecent, R!ReadTop, R!ReaderFails, R!CacheExpire, R!RedisBecomes, R!database
  <2> QED
    BY <1>2, <2>1
<1> QED
  BY <1>1, <1>2, <1>3 DEF Next, OtherRoute, Crash, Tick, database, vars

(***************************************************************************)
(* No step of the whole application changes or removes a row: the cache    *)
(* may rely on it without ever invalidating an entry.                      *)
(***************************************************************************)
THEOREM RowsNeverChange == Spec => C!RowsImmutable
<1>1. ServiceInv /\ [Next]_vars
        => [\A c \in Codes : C!CodeExists(c) => rows'[c] = rows[c]]_(C!createVars)
  BY StepRowsGrow DEF RowsGrow, CodeExists, C!CodeExists
<1> QED
  BY <1>1, ServiceInvHolds, PTL DEF Spec, C!RowsImmutable

(***************************************************************************)
(* "Only non-expiring URLs are cached", also while rows are created: what  *)
(* Redirect assumes of the table, creations see to.                        *)
(***************************************************************************)
THEOREM CacheStaysCoherent == Spec => []R!CacheCoherent
<1>1. ServiceInv => R!CacheCoherent
  BY DEF ServiceInv, Faithful, CacheSound, R!CacheCoherent, R!CodeExists, CodeExists,
         R!Never, Never
<1> QED
  BY <1>1, ServiceInvHolds, PTL

\* Only a hit and a look at the table settle a visit.
LEMMA WhoSettles ==
    ASSUME VisitsTyped, [Next]_vars, NEW v \in Visits,
           visit[v] \in {"cache", "lookup"}, visit'[v] \in {"fill", "close"}
    PROVE  R!CacheGet(v) \/ R!Lookup(v)
<1>1. ASSUME NEW w \in Visits, NEW place, visit' = [visit EXCEPT ![w] = place],
             w # v \/ place \notin {"fill", "close"}
      PROVE  FALSE
  BY <1>1 DEF VisitsTyped
<1>2. ~(UNCHANGED visit)
  OBVIOUS
<1>3. CASE Redirection
  <2>1. ASSUME NEW w \in Visits,
               \/ R!Arrive(w) \/ R!CacheGetFails(w) \/ R!NotFound(w)
               \/ R!Close(w) \/ R!RollBack(w) \/ R!VisitDbError(w) \/ R!VisitPoolTimeout(w)
        PROVE  FALSE
    <3>1. \E place : visit' = [visit EXCEPT ![w] = place] /\ place \notin {"fill", "close"}
      BY <2>1 DEF R!Arrive, R!CacheGetFails, R!NotFound, R!Close, R!RollBack,
                  R!VisitDbError, R!VisitPoolTimeout, R!Goto
    <3> QED
      BY <1>1, <3>1
  <2>2. ASSUME NEW w \in Visits, R!CacheFill(w) \/ R!CacheFillFails(w)
        PROVE  FALSE
    <3>1. visit[w] = "fill" /\ visit' = [visit EXCEPT ![w] = "close"]
      BY <2>2 DEF R!CacheFill, R!CacheFillFails, R!Goto
    <3> QED
      BY <1>1, <3>1
  <2>3. ASSUME NEW w \in Visits, R!CacheGet(w) \/ R!Lookup(w)
        PROVE  w = v
    <3>1. \E place : visit' = [visit EXCEPT ![w] = place]
      BY <2>3 DEF R!CacheGet, R!Lookup, R!Goto
    <3> QED
      BY <1>1, <3>1
  <2>4. ASSUME NEW w \in Visits, R!ClickStep(w) \/ R!ClickFails(w)
        PROVE  FALSE
    BY <1>2, <2>4 DEF R!ClickStep, R!OpenTask, R!LockRow, R!CommitClick, R!ClickFails, R!visits
  <2>5. ASSUME NEW s \in Readers, R!AskReport(s) \/ R!ReaderStep(s) \/ R!ReaderFails(s)
        PROVE  FALSE
    BY <1>2, <2>5 DEF R!AskReport, R!ReaderStep, R!ReadUrl, R!ReadRecent, R!ReadTop,
                      R!ReaderFails, R!visits
  <2>6. ~(\E c \in Codes : R!CacheExpire(c)) /\ ~(\E state \in RedisStates : R!RedisBecomes(state))
    BY <1>2 DEF R!CacheExpire, R!RedisBecomes, R!visits
  <2> QED
    BY <1>3, <2>1, <2>2, <2>3, <2>4, <2>5, <2>6 DEF Redirection, R!RedirectNext, R!VisitStep
<1>4. ASSUME NEW w \in Visits, OtherRoute(w)
      PROVE  FALSE
  <2>1. visit' = [visit EXCEPT ![w] = "other"]
    BY <1>4 DEF OtherRoute
  <2> QED
    BY <1>1, <2>1
<1>5. CASE Crash
  BY <1>5 DEF Crash, R!RedirectCrash, R!VisitInFlight
<1> QED
  BY <1>2, <1>3, <1>4, <1>5 DEF Next, Creation, Starvation, redirect, vars

(***************************************************************************)
(* "an expired link can never be served from a stale cache entry", also    *)
(* while links are created, expire and are looked up.                      *)
(***************************************************************************)
THEOREM ExpiredIsNeverServed == Spec => R!NeverServesExpired
<1>1. ASSUME ServiceInv, [Next]_vars, NEW v \in Visits,
             visit[v] \in {"cache", "lookup"}, visit'[v] \in {"fill", "close"}
      PROVE  R!Resolvable(target[v]) /\ found'[v] = rows[target[v]].url
  <2>0. /\ VisitsTyped /\ CacheSound /\ target[v] \in Codes
        /\ visit \in [Visits -> Places] /\ found \in [Visits -> LongUrls \cup {Miss}]
    BY <1>1 DEF ServiceInv, Faithful, VisitsTyped
  <2>1. CASE R!Lookup(v)
    BY <2>0, <2>1 DEF R!Lookup
  <2>2. CASE R!CacheGet(v)
    <3>1. visit'[v] = IF cache[target[v]] # Miss THEN "close" ELSE "lookup"
      BY <2>0, <2>2 DEF R!CacheGet, R!Goto
    <3>2. cache[target[v]] # Miss /\ found'[v] = cache[target[v]]
      BY <1>1, <2>0, <2>2, <3>1 DEF R!CacheGet
    <3> QED
      BY <2>0, <3>2 DEF CacheSound, R!Resolvable, R!CodeExists, CodeExists, R!IsExpired,
                        R!Never, Never
  <2> QED
    BY <1>1, <2>0, <2>1, <2>2, WhoSettles
<1>2. ServiceInv /\ [Next]_vars =>
        [\A v \in Visits :
           visit[v] \in {"cache", "lookup"} /\ visit'[v] \in {"fill", "close"} =>
             R!Resolvable(target[v]) /\ found'[v] = rows[target[v]].url]_(R!redirectVars)
  BY <1>1
<1> QED
  BY <1>2, ServiceInvHolds, PTL DEF Spec, R!NeverServesExpired

-----------------------------------------------------------------------------
(* Clicks and reports, while everybody shares the pool.                    *)

Counted(c) == {v \in Visits : click[v] = "counted" /\ target[v] = c}

\* Counter and events both say how many clicks of a code were counted, each event is
\* of one of them, and whoever was redirected has a click.
ClickCounts ==
    /\ count \in [Codes -> Nat] /\ events \in [Codes -> SUBSET R!ClickEvent]
    /\ \A v \in Visits : visit[v] = "302" => click[v] # "none"
    /\ \A c \in Codes :
         /\ count[c] = Cardinality(Counted(c)) /\ count[c] = Cardinality(events[c])
         /\ IsFiniteSet(events[c]) /\ \A e \in events[c] : e.of \in Counted(c)

\* What a reader has read so far is explained by the events there are.
ExplainsRecent(s) ==
    Cardinality(report[s].recent) < RecentLimit =>
        report[s].count <= Cardinality(report[s].recent)

ExplainsTop(s) ==
    LET listed == R!ReferrersOf(report[s].top) IN
    /\ Cardinality(listed) < TopLimit =>
         /\ report[s].recent \subseteq report[s].top
         /\ report[s].count <= Cardinality(report[s].top)
    /\ \A f \in listed, g \in Referrers : g = f \/ g \notin listed =>
         Cardinality(R!From(report[s].recent, g)) <= Cardinality(R!From(report[s].top, f))

Explained(s) ==
    /\ reader[s] \in {"recent", "top"} =>
         report[s].count <= Cardinality(events[subject[s]])
    /\ reader[s] = "top" => report[s].recent \subseteq events[subject[s]]
    /\ reader[s] \in {"top", "200"} => ExplainsRecent(s)
    /\ reader[s] = "200" => ExplainsTop(s)

Reports == [count : Nat, recent : SUBSET R!ClickEvent, top : SUBSET R!ClickEvent]

ReportsTyped ==
    /\ report \in [Readers -> Reports]
    /\ subject \in [Readers -> Codes \cup {NoCode}]
    /\ \A s \in Readers : reader[s] # "idle" => subject[s] \in Codes

Accounts == ClickCounts /\ ReportsTyped /\ \A s \in Readers : Explained(s)

LEMMA SameCardinality == \A S : R!Cardinality(S) = Cardinality(S)
BY Zenon DEF R!Cardinality, Cardinality

LEMMA AccountsExplain == Accounts => R!ReportNeverOverCounts
BY SameCardinality
   DEF Accounts, Explained, ExplainsRecent, ExplainsTop, R!ReportNeverOverCounts

\* A click of a code is counted, due, or dropped.
LEMMA ClicksAddUp == HoldInv /\ ClickCounts => R!ClicksAccountedFor
<1> SUFFICES ASSUME HoldInv, ClickCounts, NEW c \in Codes
             PROVE  /\ count[c] = R!Cardinality(events[c])
                    /\ count[c] + R!Cardinality(R!Due(c)) + R!Cardinality(R!Dropped(c))
                         = R!Cardinality(R!Redirected(c))
  BY DEF R!ClicksAccountedFor
<1>0. /\ ClicksTyped /\ ClicksFollow
      /\ count[c] = Cardinality(events[c]) /\ count[c] = Cardinality(Counted(c))
      /\ \A v \in Visits : visit[v] = "302" <=> click[v] # "none"
  BY DEF HoldInv, ClickCounts, ClicksFollow
<1> DEFINE counted == Counted(c)
           due == R!Due(c)
           dropped == R!Dropped(c)
           other == due \cup dropped
           redirected == R!Redirected(c)
<1>1. /\ counted \in SUBSET Visits /\ due \in SUBSET Visits /\ dropped \in SUBSET Visits
      /\ other \in SUBSET Visits /\ redirected \in SUBSET Visits
  BY DEF Counted, R!Due, R!Dropped, R!Redirected
<1>2. /\ IsFiniteSet(counted) /\ IsFiniteSet(due) /\ IsFiniteSet(dropped) /\ IsFiniteSet(other)
  BY <1>1, FS_Subset, Parts
<1>3. /\ due \cap dropped = {} /\ counted \cap other = {}
      /\ redirected = counted \cup other
  BY <1>0 DEF Counted, R!Due, R!Dropped, R!Redirected, R!ClickInFlight, ClicksTyped
<1> HIDE DEF counted, due, dropped, other, redirected
<1>4. /\ Cardinality(counted) \in Nat /\ Cardinality(due) \in Nat
      /\ Cardinality(dropped) \in Nat /\ Cardinality(other) \in Nat
  BY <1>2, FS_CardinalityType
<1>5. Cardinality(other) = Cardinality(due) + Cardinality(dropped)
  <2>1. Cardinality(due \cup dropped) =
          Cardinality(due) + Cardinality(dropped) - Cardinality(due \cap dropped)
    BY <1>2, FS_Union
  <2>2. Cardinality(due \cap dropped) = 0
    BY <1>3, FS_EmptySet
  <2> QED
    BY <1>4, <2>1, <2>2 DEF other
<1>6. Cardinality(redirected) = Cardinality(counted) + Cardinality(other)
  <2>1. Cardinality(counted \cup other) =
          Cardinality(counted) + Cardinality(other) - Cardinality(counted \cap other)
    BY <1>2, FS_Union
  <2>2. Cardinality(counted \cap other) = 0
    BY <1>3, FS_EmptySet
  <2> QED
    BY <1>3, <1>4, <2>1, <2>2
<1>7. /\ R!Cardinality(due) = Cardinality(due) /\ R!Cardinality(dropped) = Cardinality(dropped)
      /\ R!Cardinality(redirected) = Cardinality(redirected)
      /\ R!Cardinality(events[c]) = Cardinality(events[c])
  BY SameCardinality
<1>8. /\ count[c] = Cardinality(counted)
      /\ Cardinality(counted) + Cardinality(due) + Cardinality(dropped) = Cardinality(redirected)
  BY <1>0, <1>4, <1>5, <1>6 DEF counted
<1> QED
  BY <1>0, <1>7, <1>8 DEF due, dropped, redirected

\* Steps that commit no click.
LEMMA CountsStay ==
    ASSUME ClickCounts, UNCHANGED <<count, events>>,
           \A v \in Visits : click'[v] = "counted" <=> click[v] = "counted",
           \A v \in Visits : click[v] = "counted" => target'[v] = target[v],
           \A v \in Visits : visit'[v] = "302" => click'[v] # "none"
    PROVE  ClickCounts'
<1>1. \A c \in Codes : Counted(c)' = Counted(c)
  BY DEF Counted
<1> QED
  BY <1>1 DEF ClickCounts

LEMMA VisitCounts ==
    ASSUME HoldInv, ClickCounts, NEW v \in Visits, NEW place, VisitShape(v, place),
           UNCHANGED <<count, events>>
    PROVE  ClickCounts'
<1>0. VisitsTyped /\ ClicksTyped /\ ClicksFollow
  BY DEF HoldInv, ServiceInv, Faithful
<1>1. click[v] = "none"
  BY <1>0 DEF ClicksFollow, VisitShape
<1>2. /\ \A w \in Visits : visit'[w] = IF w = v THEN place ELSE visit[w]
      /\ \A w \in Visits : w # v => click'[w] = click[w] /\ target'[w] = target[w]
      /\ click'[v] = IF place = "302" THEN "queued" ELSE "none"
  BY <1>0, <1>1 DEF VisitShape, VisitsTyped, ClicksTyped
<1>3. \A w \in Visits : visit'[w] = "302" => click'[w] # "none"
  BY <1>2 DEF ClickCounts
<1>4. \A w \in Visits : click'[w] = "counted" <=> click[w] = "counted"
  BY <1>1, <1>2
<1>5. \A w \in Visits : click[w] = "counted" => target'[w] = target[w]
  BY <1>1, <1>2
<1> QED
  BY <1>3, <1>4, <1>5, CountsStay

LEMMA CommitAddsOne ==
    ASSUME HoldInv, ClickCounts, NEW v \in Visits, R!CommitClick(v)
    PROVE  ClickCounts' /\ \A c \in Codes : events[c] \subseteq events'[c]
<1>0. /\ click[v] = "commit" /\ click' = [click EXCEPT ![v] = "counted"]
      /\ DOMAIN click = Visits
      /\ UNCHANGED <<visit, target>> /\ target[v] \in Codes
      /\ count \in [Codes -> Nat] /\ events \in [Codes -> SUBSET R!ClickEvent]
  BY DEF HoldInv, ServiceInv, Faithful, VisitsTyped, ClicksTyped, ClicksFollow, ClickCounts,
         R!CommitClick, R!visits
<1>1. PICK f \in Referrers :
        events' = [events EXCEPT ![target[v]] = events[target[v]] \cup {[of |-> v, referrer |-> f]}]
  BY DEF R!CommitClick
<1>2. count' = [count EXCEPT ![target[v]] = count[target[v]] + 1]
  BY DEF R!CommitClick
<1> DEFINE event == [of |-> v, referrer |-> f]
<1>3. ASSUME NEW c \in Codes
      PROVE  /\ count'[c] = Cardinality(Counted(c)') /\ count'[c] = Cardinality(events'[c])
             /\ IsFiniteSet(events'[c]) /\ \A e \in events'[c] : e.of \in Counted(c)'
  <2> DEFINE before == Counted(c)
             after == Counted(c)'
  <2>1. /\ count[c] = Cardinality(before) /\ count[c] = Cardinality(events[c])
        /\ count[c] \in Nat /\ IsFiniteSet(events[c])
        /\ \A e \in events[c] : e.of \in before
    BY <1>0 DEF ClickCounts
  <2>2. before \in SUBSET Visits
    BY DEF Counted
  <2>3. IsFiniteSet(before)
    BY <2>2, FS_Subset, Parts
  <2>4. CASE c = target[v]
    <3>1. v \notin before /\ after = before \cup {v}
      BY <1>0, <2>4 DEF Counted
    <3>2. event \notin events[c] /\ events'[c] = events[c] \cup {event}
      BY <1>0, <1>1, <2>1, <2>4, <3>1
    <3>3. count'[c] = count[c] + 1
      BY <1>0, <1>2, <2>4
    <3>4. \A e \in events'[c] : e.of \in after
      BY <2>1, <3>1, <3>2
    <3> HIDE DEF before, after, event
    <3>5. Cardinality(after) = Cardinality(before) + 1
      BY <2>3, <3>1, FS_AddElement
    <3>6. /\ Cardinality(events'[c]) = Cardinality(events[c]) + 1
          /\ IsFiniteSet(events'[c])
      BY <2>1, <3>2, FS_AddElement
    <3>7. count'[c] = Cardinality(after) /\ count'[c] = Cardinality(events'[c])
      BY <2>1, <3>3, <3>5, <3>6
    <3> QED
      BY <3>4, <3>6, <3>7 DEF after
  <2>5. CASE c # target[v]
    <3>1. after = before
      BY <1>0, <2>5 DEF Counted
    <3>2. count'[c] = count[c] /\ events'[c] = events[c]
      BY <1>0, <1>1, <1>2, <2>5
    <3> QED
      BY <2>1, <3>1, <3>2
  <2> QED
    BY <2>4, <2>5
<1>4. \A w \in Visits : visit'[w] = "302" => click'[w] # "none"
  BY <1>0 DEF ClickCounts
<1>5. /\ count' \in [Codes -> Nat] /\ events' \in [Codes -> SUBSET R!ClickEvent]
      /\ \A c \in Codes : events[c] \subseteq events'[c]
  <2>1. event \in R!ClickEvent
    BY DEF R!ClickEvent
  <2> QED
    BY <1>0, <1>1, <1>2, <2>1
<1> QED
  BY <1>3, <1>4, <1>5 DEF ClickCounts

\* A list of the most frequent referrers explains what was read before it.
LEMMA ListExplains ==
    ASSUME NEW clicked \in SUBSET R!ClickEvent, IsFiniteSet(clicked),
           NEW listed, R!MostFrequent(listed, clicked),
           NEW recent \in SUBSET clicked,
           NEW n \in Nat, n <= Cardinality(clicked)
    PROVE  /\ R!ReferrersOf(R!TopEvents(clicked, listed)) = listed
           /\ Cardinality(listed) < TopLimit =>
                /\ recent \subseteq R!TopEvents(clicked, listed)
                /\ n <= Cardinality(R!TopEvents(clicked, listed))
           /\ \A f \in listed, g \in Referrers : g = f \/ g \notin listed =>
                Cardinality(R!From(recent, g))
                  <= Cardinality(R!From(R!TopEvents(clicked, listed), f))
<1> DEFINE top == R!TopEvents(clicked, listed)
           all == R!ReferrersOf(clicked)
<1>0. /\ listed \subseteq all
      /\ Cardinality(listed) = R!Cut(Cardinality(all), TopLimit)
      /\ \A f \in listed, g \in all \ listed :
           Cardinality(R!From(clicked, g)) <= Cardinality(R!From(clicked, f))
  BY SameCardinality DEF R!MostFrequent
<1>1. R!ReferrersOf(top) = listed
  BY <1>0 DEF R!ReferrersOf, R!TopEvents
<1>2. IsFiniteSet(all)
  <2> DEFINE referrer == [e \in clicked |-> e.referrer]
  <2>1. referrer \in Surjection(clicked, all)
    BY DEF Surjection, R!ReferrersOf
  <2> QED
    BY <2>1, FS_Surjection
<1>3. ASSUME Cardinality(listed) < TopLimit
      PROVE  recent \subseteq top /\ n <= Cardinality(top)
  <2>1. Cardinality(all) \in Nat
    BY <1>2, FS_CardinalityType
  <2>2. Cardinality(listed) = Cardinality(all)
    BY <1>0, <1>3, <2>1, Parts DEF R!Cut
  <2>3. listed = all
    BY <1>0, <1>2, <2>2, FS_Subset
  <2>4. top = clicked
    BY <2>3 DEF R!TopEvents, R!ReferrersOf
  <2> QED
    BY <2>4
<1>4. ASSUME NEW f \in listed, NEW g \in Referrers, g = f \/ g \notin listed
      PROVE  Cardinality(R!From(recent, g)) <= Cardinality(R!From(top, f))
  <2>1. R!From(top, f) = R!From(clicked, f)
    BY <1>4 DEF R!From, R!TopEvents
  <2>2. /\ R!From(recent, g) \in SUBSET R!From(clicked, g)
        /\ R!From(clicked, g) \in SUBSET clicked /\ R!From(clicked, f) \in SUBSET clicked
    BY DEF R!From
  <2>3. /\ Cardinality(R!From(recent, g)) \in Nat /\ Cardinality(R!From(clicked, g)) \in Nat
        /\ Cardinality(R!From(clicked, f)) \in Nat
        /\ Cardinality(R!From(recent, g)) <= Cardinality(R!From(clicked, g))
    <3>1. /\ IsFiniteSet(R!From(clicked, g)) /\ IsFiniteSet(R!From(clicked, f))
      BY <2>2, FS_Subset
    <3>2. /\ IsFiniteSet(R!From(recent, g))
          /\ Cardinality(R!From(recent, g)) <= Cardinality(R!From(clicked, g))
      BY <2>2, <3>1, FS_Subset
    <3> QED
      BY <3>1, <3>2, FS_CardinalityType
  <2>4. Cardinality(R!From(clicked, g)) <= Cardinality(R!From(clicked, f))
    <3>1. CASE g = f
      BY <2>3, <3>1
    <3>2. CASE g \in all \ listed
      BY <1>0, <1>4, <3>2
    <3>3. CASE g \notin all
      <4>1. R!From(clicked, g) = {}
        BY <3>3 DEF R!From, R!ReferrersOf
      <4> QED
        BY <2>3, <4>1, FS_EmptySet
    <3> QED
      BY <1>4, <3>1, <3>2, <3>3
  <2> HIDE DEF top
  <2> QED
    BY <2>1, <2>3, <2>4
<1> QED
  BY <1>1, <1>3, <1>4

\* Events are only added, and nobody else touches a report.
LEMMA ReportsStay ==
    ASSUME Accounts, ClickCounts', UNCHANGED <<reader, subject, report>>,
           \A c \in Codes : events[c] \subseteq events'[c]
    PROVE  Accounts'
<1>1. ReportsTyped'
  BY DEF Accounts, ReportsTyped
<1>2. ASSUME NEW s \in Readers PROVE Explained(s)'
  <2>0. /\ Explained(s) /\ UNCHANGED <<reader[s], subject[s], report[s]>>
        /\ reader[s] # "idle" => subject[s] \in Codes
        /\ report[s].count \in Nat
    BY DEF Accounts, ReportsTyped, Reports
  <2>1. ASSUME subject[s] \in Codes
        PROVE  /\ events[subject[s]] \subseteq events'[subject[s]]
               /\ report[s].count <= Cardinality(events[subject[s]]) =>
                    report[s].count <= Cardinality(events'[subject[s]])
    <3> DEFINE now == events[subject[s]]
               then == events'[subject[s]]
    <3>1. IsFiniteSet(then) /\ now \in SUBSET then
      BY <2>1 DEF ClickCounts
    <3>2. IsFiniteSet(now) /\ Cardinality(now) <= Cardinality(then)
      BY <3>1, FS_Subset
    <3>3. Cardinality(now) \in Nat /\ Cardinality(then) \in Nat
      BY <3>1, <3>2, FS_CardinalityType
    <3> HIDE DEF now, then
    <3>4. report[s].count <= Cardinality(now) => report[s].count <= Cardinality(then)
      BY <2>0, <3>2, <3>3
    <3> QED
      BY <3>1, <3>4 DEF now, then
  <2>2. ExplainsRecent(s)' = ExplainsRecent(s) /\ ExplainsTop(s)' = ExplainsTop(s)
    BY <2>0 DEF ExplainsRecent, ExplainsTop
  <2> QED
    BY <2>0, <2>1, <2>2 DEF Explained
<1> QED
  BY <1>1, <1>2 DEF Accounts

LEMMA ReaderExplained ==
    ASSUME Accounts, RestTyped, NEW s \in Readers,
           R!AskReport(s) \/ R!ReaderStep(s) \/ R!ReaderFails(s)
    PROVE  Accounts'
<1> DEFINE clicked == events[subject[s]]
<1>0. /\ UNCHANGED <<visit, target, click, count, events>>
      /\ count \in [Codes -> Nat] /\ events \in [Codes -> SUBSET R!ClickEvent]
      /\ report \in [Readers -> Reports] /\ subject \in [Readers -> Codes \cup {NoCode}]
      /\ DOMAIN reader = Readers
      /\ reader[s] # "idle" => subject[s] \in Codes
      /\ \A c \in Codes : count[c] = Cardinality(events[c]) /\ IsFiniteSet(events[c])
      /\ Explained(s)
  BY DEF Accounts, ClickCounts, ReportsTyped, RestTyped, R!AskReport, R!ReaderStep,
         R!ReadUrl, R!ReadRecent, R!ReadTop, R!ReaderFails, R!clicks, R!visits
<1>1. ASSUME NEW w \in Readers, w # s
      PROVE  /\ reader'[w] = reader[w] /\ subject'[w] = subject[w] /\ report'[w] = report[w]
             /\ Explained(w)'
  <2>1. reader'[w] = reader[w] /\ subject'[w] = subject[w] /\ report'[w] = report[w]
    BY <1>0, <1>1 DEF R!AskReport, R!ReaderStep, R!ReadUrl, R!ReadRecent, R!ReadTop,
       R!ReaderFails
  <2>2. ExplainsRecent(w)' = ExplainsRecent(w) /\ ExplainsTop(w)' = ExplainsTop(w)
    BY <2>1 DEF ExplainsRecent, ExplainsTop
  <2>3. Explained(w)
    BY <1>1 DEF Accounts
  <2> QED
    BY <1>0, <2>1, <2>2, <2>3 DEF Explained
<1>2. ClickCounts'
  BY <1>0, CountsStay DEF Accounts, ClickCounts
<1>3. ASSUME report' \in [Readers -> Reports], subject' \in [Readers -> Codes \cup {NoCode}],
             subject'[s] \in Codes, Explained(s)'
      PROVE  Accounts'
  BY <1>1, <1>2, <1>3 DEF Accounts, ReportsTyped
<1>4. CASE R!AskReport(s) \/ R!ReaderFails(s)
  <2>1. /\ reader'[s] \in {"url", "500"} /\ report' = report
        /\ subject' \in [Readers -> Codes \cup {NoCode}] /\ subject'[s] \in Codes
    BY <1>0, <1>4 DEF R!AskReport, R!ReaderFails
  <2> QED
    BY <1>0, <1>3, <2>1 DEF Explained
<1>5. CASE R!ReadUrl(s)
  <2>1. /\ reader'[s] \in {"recent", "404"} /\ subject' = subject /\ subject[s] \in Codes
        /\ report' \in [Readers -> Reports]
        /\ reader'[s] = "recent" => report'[s].count = count[subject[s]]
    BY <1>0, <1>5 DEF R!ReadUrl, Reports
  <2>2. reader'[s] = "recent" => report'[s].count <= Cardinality(events'[subject'[s]])
    <3>1. count[subject[s]] \in Nat
      BY <1>0, <2>1
    <3> QED
      BY <1>0, <2>1, <3>1
  <2>3. Explained(s)'
    BY <2>1, <2>2 DEF Explained
  <2> QED
    BY <1>0, <1>3, <2>1, <2>3
<1>6. CASE R!ReadRecent(s)
  <2>1. PICK latest \in SUBSET clicked :
          /\ Cardinality(latest) = R!Cut(Cardinality(clicked), RecentLimit)
          /\ report' = [report EXCEPT ![s].recent = latest]
    BY <1>6, SameCardinality DEF R!ReadRecent
  <2>2. /\ reader'[s] = "top" /\ subject' = subject /\ subject[s] \in Codes
        /\ report'[s].recent = latest /\ report'[s].count = report[s].count
        /\ report[s].count \in Nat /\ report[s].count <= Cardinality(clicked)
        /\ report' \in [Readers -> Reports]
    BY <1>0, <1>6, <2>1 DEF R!ReadRecent, Reports, Explained
  <2>3. Cardinality(latest) < RecentLimit => report[s].count <= Cardinality(latest)
    <3>1. Cardinality(clicked) \in Nat
      BY <1>0, <2>2, FS_CardinalityType
    <3> QED
      BY <2>1, <2>2, <3>1, Parts DEF R!Cut
  <2>4. ExplainsRecent(s)'
    BY <2>2, <2>3 DEF ExplainsRecent
  <2>5. Explained(s)'
    BY <1>0, <2>2, <2>4 DEF Explained
  <2> QED
    BY <1>0, <1>3, <2>2, <2>5
<1>7. CASE R!ReadTop(s)
  <2>1. PICK listed \in SUBSET Referrers :
          /\ R!MostFrequent(listed, clicked)
          /\ report' = [report EXCEPT ![s].top = R!TopEvents(clicked, listed)]
    BY <1>7 DEF R!ReadTop
  <2>2. /\ reader[s] = "top" /\ reader'[s] = "200" /\ subject[s] \in Codes
        /\ subject' = subject /\ clicked \in SUBSET R!ClickEvent /\ IsFiniteSet(clicked)
    BY <1>0, <1>7 DEF R!ReadTop
  <2>3. R!TopEvents(clicked, listed) \in SUBSET R!ClickEvent
    BY <2>2 DEF R!TopEvents
  <2>4. /\ report'[s].top = R!TopEvents(clicked, listed)
        /\ report'[s].recent = report[s].recent /\ report'[s].count = report[s].count
        /\ report[s].count \in Nat /\ report' \in [Readers -> Reports]
    BY <1>0, <2>1, <2>3 DEF Reports
  <2>5. /\ report[s].recent \in SUBSET clicked /\ report[s].count <= Cardinality(clicked)
        /\ ExplainsRecent(s)
    BY <1>0, <2>2 DEF Explained
  <2>6. ExplainsRecent(s)'
    BY <2>4, <2>5 DEF ExplainsRecent
  <2>7. PICK all, recent, n : all = clicked /\ recent = report[s].recent /\ n = report[s].count
    OBVIOUS
  <2>8. ExplainsTop(s)'
    <3>1. /\ all \in SUBSET R!ClickEvent /\ IsFiniteSet(all) /\ R!MostFrequent(listed, all)
          /\ recent \in SUBSET all /\ n \in Nat /\ n <= Cardinality(all)
      BY <2>1, <2>2, <2>4, <2>5, <2>7
    <3>2. /\ report'[s].top = R!TopEvents(all, listed)
          /\ report'[s].recent = recent /\ report'[s].count = n
      BY <2>4, <2>7
    <3> QED
      BY <3>1, <3>2, ListExplains DEF ExplainsTop
  <2>9. Explained(s)'
    BY <2>2, <2>6, <2>8 DEF Explained
  <2> QED
    BY <1>0, <1>3, <2>2, <2>4, <2>9
<1> QED
  BY <1>4, <1>5, <1>6, <1>7 DEF R!ReaderStep

LEMMA StepAccounts == HoldInv /\ Accounts /\ [Next]_vars => Accounts'
<1> SUFFICES ASSUME HoldInv, Accounts, [Next]_vars PROVE Accounts'
  OBVIOUS
<1>0. ClickCounts /\ RestTyped /\ events \in [Codes -> SUBSET R!ClickEvent]
  BY DEF Accounts, HoldInv, ClickCounts
<1>1. ASSUME ClickCounts', UNCHANGED <<events, reader, subject, report>>
      PROVE  Accounts'
  BY <1>0, <1>1, ReportsStay
<1>2. CASE UNCHANGED <<visit, target, click, count, events, reader, subject, report>>
  BY <1>0, <1>1, <1>2, CountsStay DEF ClickCounts
<1>3. ASSUME NEW v \in Visits, UNCHANGED create,
             \/ R!Arrive(v) \/ R!VisitStep(v) \/ R!VisitDbError(v) \/ R!VisitPoolTimeout(v)
             \/ OtherRoute(v)
      PROVE  Accounts'
  <2>1. UNCHANGED <<count, events, reader, subject, report>>
    BY <1>3 DEF R!Arrive, R!VisitStep, R!CacheGet, R!CacheGetFails, R!Lookup, R!NotFound,
         R!CacheFill, R!CacheFillFails, R!Close, R!RollBack, R!VisitDbError, R!VisitPoolTimeout,
         R!clicks, R!readers, OtherRoute
  <2> QED
    BY <1>0, <1>1, <1>3, <2>1, VisitHasShape, VisitCounts
<1>4. ASSUME NEW v \in Visits, R!OpenTask(v) \/ R!LockRow(v) \/ R!ClickFails(v)
      PROVE  Accounts'
  <2>1. UNCHANGED <<visit, target, count, events, reader, subject, report>>
    BY <1>4 DEF R!OpenTask, R!LockRow, R!ClickFails, R!visits, R!readers
  <2>2. \E stage \in {"updating", "commit", "dropped"} : click' = [click EXCEPT ![v] = stage]
    BY <1>4 DEF R!OpenTask, R!LockRow, R!ClickFails
  <2>3. click[v] \in {"queued", "updating", "commit"} /\ DOMAIN click = Visits
    BY <1>4 DEF R!OpenTask, R!LockRow, R!ClickFails, HoldInv, ClicksTyped
  <2>4. /\ \A w \in Visits : click'[w] = "counted" <=> click[w] = "counted"
        /\ \A w \in Visits : visit'[w] = "302" => click'[w] # "none"
    BY <1>0, <2>1, <2>2, <2>3 DEF ClickCounts
  <2> QED
    BY <1>0, <1>1, <2>1, <2>4, CountsStay
<1>5. ASSUME NEW v \in Visits, R!CommitClick(v)
      PROVE  Accounts'
  BY <1>0, <1>5, CommitAddsOne, ReportsStay DEF R!CommitClick, R!readers
<1>6. CASE Redirection
  <2>1. UNCHANGED create
    BY <1>6 DEF Redirection
  <2>2. ASSUME NEW s \in Readers, R!AskReport(s) \/ R!ReaderStep(s) \/ R!ReaderFails(s)
        PROVE  Accounts'
    BY <1>0, <2>2, ReaderExplained
  <2>3. ASSUME \/ \E c \in Codes : R!CacheExpire(c)
               \/ \E state \in RedisStates : R!RedisBecomes(state)
        PROVE  Accounts'
    BY <1>2, <2>3 DEF R!CacheExpire, R!RedisBecomes, R!visits, R!clicks, R!readers
  <2> QED
    BY <1>3, <1>4, <1>5, <1>6, <2>1, <2>2, <2>3 DEF Redirection, R!RedirectNext, R!ClickStep
<1>7. ASSUME NEW v \in Visits, OtherRoute(v)
      PROVE  Accounts'
  BY <1>3, <1>7 DEF OtherRoute
<1>8. CASE Crash
  <2>1. /\ UNCHANGED <<target, count, events, subject, report>>
        /\ \A v \in Visits : /\ click'[v] = "counted" <=> click[v] = "counted"
                             /\ visit'[v] = "302" => click'[v] # "none"
    BY <1>0, <1>8 DEF Crash, R!RedirectCrash, R!VisitInFlight, R!ClickInFlight, ClickCounts
  <2>2. ClickCounts'
    BY <1>0, <2>1, CountsStay
  <2>3. \A s \in Readers : /\ reader'[s] \notin {"recent", "top"}
                           /\ reader'[s] = "idle" <=> reader[s] = "idle"
                           /\ reader'[s] = "200" <=> reader[s] = "200"
    BY <1>8 DEF Crash, R!RedirectCrash, R!ReaderInFlight
  <2>4. ReportsTyped'
    BY <2>1, <2>3 DEF Accounts, ReportsTyped
  <2>5. \A s \in Readers : Explained(s)'
    BY <2>1, <2>3 DEF Accounts, Explained, ExplainsRecent, ExplainsTop
  <2> QED
    BY <2>2, <2>4, <2>5 DEF Accounts
<1> QED
  BY <1>2, <1>6, <1>7, <1>8 DEF Next, Creation, Starvation, redirect, Tick, vars

LEMMA InitAccounts == Init => Accounts
<1> SUFFICES ASSUME Init PROVE Accounts
  OBVIOUS
<1>1. ClickCounts
  <2>1. \A c \in Codes : Counted(c) = {}
    BY DEF Init, R!RedirectInit, Counted
  <2> QED
    BY <2>1, FS_EmptySet DEF Init, R!RedirectInit, ClickCounts
<1>2. ReportsTyped
  BY DEF Init, R!RedirectInit, R!NoReport, ReportsTyped, Reports
<1>3. \A s \in Readers : Explained(s)
  BY DEF Init, R!RedirectInit, Explained
<1> QED
  BY <1>1, <1>2, <1>3 DEF Accounts

(***************************************************************************)
(* Clicks and reports add up also while creations and visits compete for   *)
(* the connections that click tasks and reports need: every redirect is    *)
(* counted once, due or dropped by a failure, and a report never shows a   *)
(* count that its events do not explain.                                   *)
(***************************************************************************)
THEOREM ClicksAndReportsAddUp == Spec => [](R!ClicksAccountedFor /\ R!ReportNeverOverCounts)
<1>1. Init => HoldInv /\ Accounts
  BY InitHoldInv, InitAccounts
<1>2. HoldInv /\ Accounts /\ [Next]_vars => (HoldInv /\ Accounts)'
  BY StepHoldInv, StepAccounts
<1>3. HoldInv /\ Accounts => R!ClicksAccountedFor /\ R!ReportNeverOverCounts
  BY ClicksAddUp, AccountsExplain DEF Accounts
<1> QED
  BY <1>1, <1>2, <1>3, PTL DEF Spec
=============================================================================
