-------------------------- MODULE CreateUrlProofs --------------------------
(***************************************************************************)
(* Proofs about CreateUrl, for every set of codes, destinations and        *)
(* requests, every size of the pool and any number of failures.            *)
(***************************************************************************)
EXTENDS CreateUrl, DatabaseProofs

-----------------------------------------------------------------------------
(* The inductive invariant.                                                *)

\* The unique index holds a code for the one transaction that inserted it and
\* has yet to commit, and for no committed row.
ClaimsArePending ==
    \A c \in Codes : claim[c] # Nobody =>
        /\ pc[claim[c]] = "commit"
        /\ code[claim[c]] = c
        /\ rows[c] = NoRow

\* Who is about to commit has inserted, who is about to insert has a code, and
\* who is about to check has the code the body names.
InsertersHaveCodes ==
    \A r \in Creates :
        /\ pc[r] \in {"idle", "check"} => code[r] = form[r].custom
        /\ pc[r] = "check" => form[r].custom \in Codes
        /\ pc[r] = "insert" => code[r] \in Codes
        /\ pc[r] = "commit" => code[r] \in Codes /\ claim[code[r]] = r

\* A committed row is the row of the request that made it.
RowsAreOwned ==
    \A c \in Codes : rows[c] # NoRow =>
        /\ pc[rows[c].by] \in {"201", "500", "lost"}
        /\ code[rows[c].by] = c

\* A 201 names a code of the table.
CreatedHasRow ==
    \A r \in Creates : pc[r] = "201" => code[r] \in Codes /\ rows[code[r]] = NewRow(r)

\* A 409 names a code of the table that is somebody else's.
ConflictHasRow ==
    \A r \in Creates : pc[r] = "409" =>
        /\ code[r] \in Codes
        /\ rows[code[r]] # NoRow
        /\ rows[code[r]].by # r

\* What the other conjuncts rest on.
IndexConsistent == ClaimsArePending /\ InsertersHaveCodes /\ RowsAreOwned

-----------------------------------------------------------------------------
(* Types, and the pool.                                                    *)

Typed == TypeOK /\ IsFiniteSet(conns)

\* Sessions of different requests are different.
LEMMA SessionsDiffer ==
    ASSUME NEW r, NEW s, Session(r) = Session(s)
    PROVE  r = s
BY DEF Session

\* A request that aborts leaves well-typed state.
LEMMA AbortTyped ==
    ASSUME Typed, NEW r \in Creates, NEW answer \in Answers, Abort(r, answer)
    PROVE  /\ rows' \in [Codes -> Row \cup {NoRow}]
           /\ claim' \in [Codes -> Creates \cup {Nobody}]
           /\ IsFiniteSet(conns') /\ Cardinality(conns') <= PoolSize
           /\ conns' \subseteq {Session(s) : s \in Creates}
           /\ clock' \in 0 .. MaxTime
           /\ pc' \in [Creates -> {"idle", "check", "generate", "insert", "commit"} \cup Answers]
           /\ form' \in [Creates -> Form]
           /\ expires' \in [Creates -> Nat]
<1> USE DEF Typed, TypeOK, DatabaseTypeOK, Abort
<1>1. IsFiniteSet(conns') /\ Cardinality(conns') <= PoolSize
  BY DisconnectKeepsLimit
<1>2. conns' \subseteq {Session(s) : s \in Creates}
  BY DEF Disconnect
<1>3. claim' \in [Codes -> Creates \cup {Nobody}]
  OBVIOUS
<1>4. pc' \in [Creates -> {"idle", "check", "generate", "insert", "commit"} \cup Answers]
  OBVIOUS
<1> QED
  BY <1>1, <1>2, <1>3, <1>4

\* So does one whose code is free.
LEMMA ProceedTyped ==
    ASSUME Typed, NEW r \in Creates, NEW c \in Codes, Proceed(r, c)
    PROVE  Typed'
<1> USE DEF Typed, TypeOK, DatabaseTypeOK, Proceed
<1>1. IsFiniteSet(conns') /\ Cardinality(conns') <= PoolSize
  BY ConnectKeepsLimit
<1>2. conns' \subseteq {Session(s) : s \in Creates}
  BY DEF Connect
<1>3. expires' \in [Creates -> Nat]
  <2>1. form[r].days \in Lifetimes
    <3>1. form[r] \in Form
      OBVIOUS
    <3> QED
      BY <3>1 DEF Form
  <2>2. form[r].days \in Nat /\ clock \in Nat
    <3>1. form[r].days \in Nat
      BY <2>1, Creation, Zenon
    <3>2. clock \in 0 .. MaxTime /\ MaxTime \in Nat
      BY Instance, Zenon
    <3> QED
      BY <3>1, <3>2
  <2>3. clock + form[r].days \in Nat
    BY <2>2
  <2> QED
    BY <2>2, <2>3 DEF Never
<1>4. pc' \in [Creates -> {"idle", "check", "generate", "insert", "commit"} \cup Answers]
  OBVIOUS
<1>5. code' \in [Creates -> Codes \cup {Generated}]
  OBVIOUS
<1> QED
  BY <1>1, <1>2, <1>3, <1>4, <1>5

LEMMA InitTyped == CreateInit => Typed
<1> SUFFICES ASSUME CreateInit PROVE Typed
  OBVIOUS
<1>1. IsFiniteSet(conns) /\ Cardinality(conns) = 0
  BY FS_EmptySet DEF CreateInit
<1>2. DatabaseTypeOK
  BY <1>1, Instance DEF CreateInit, DatabaseTypeOK
<1>3. code \in [Creates -> Codes \cup {Generated}]
  BY DEF CreateInit, Form
<1>4. /\ attempts \in [Creates -> 0 .. MaxRetries]
      /\ expires \in [Creates -> Nat]
  BY Creation DEF CreateInit, Never
<1> QED
  BY <1>1, <1>2, <1>3, <1>4 DEF CreateInit, Typed, TypeOK

LEMMA CheckCustomTyped ==
    ASSUME Typed, NEW r \in Creates, CheckCustom(r), InsertersHaveCodes
    PROVE  Typed'
<1>1. CASE ~CodeExists(form[r].custom)
  BY <1>1, ProceedTyped DEF CheckCustom, InsertersHaveCodes
<1>2. CASE CodeExists(form[r].custom)
  <2>1. Abort(r, "409") /\ UNCHANGED <<code, attempts, faults>>
    BY <1>2 DEF CheckCustom
  <2> QED
    BY <2>1, AbortTyped DEF Typed, TypeOK, DatabaseTypeOK, Answers
<1> QED
  BY <1>1, <1>2

LEMMA TryCodeTyped ==
    ASSUME Typed, NEW r \in Creates, TryCode(r)
    PROVE  Typed'
<1>1. PICK c \in Codes :
        \/ ~CodeExists(c) /\ Proceed(r, c)
        \/ /\ CodeExists(c)
           /\ attempts' = [attempts EXCEPT ![r] = @ + 1]
           /\ code' = [code EXCEPT ![r] = c]
           /\ \/ /\ attempts[r] + 1 < MaxRetries
                 /\ Connect(Session(r))
                 /\ UNCHANGED <<rows, claim, clock, faults, pc, form, expires>>
              \/ /\ attempts[r] + 1 = MaxRetries
                 /\ Abort(r, "503")
                 /\ UNCHANGED faults
  BY DEF TryCode
<1>2. CASE ~CodeExists(c)
  BY <1>1, <1>2, ProceedTyped
<1>3. CASE CodeExists(c)
  <2>1. attempts' \in [Creates -> 0 .. MaxRetries]
    <3>1. attempts[r] + 1 <= MaxRetries /\ attempts[r] \in Nat /\ MaxRetries \in Nat
      BY <1>1, <1>3, Creation DEF Typed, TypeOK
    <3>2. attempts[r] + 1 \in 0 .. MaxRetries
      BY <3>1
    <3> QED
      BY <1>1, <1>3, <3>2 DEF Typed, TypeOK
  <2>2. code' \in [Creates -> Codes \cup {Generated}]
    BY <1>1, <1>3 DEF Typed, TypeOK
  <2>3. CASE Abort(r, "503") /\ UNCHANGED faults
    BY <2>1, <2>2, <2>3, AbortTyped DEF Typed, TypeOK, DatabaseTypeOK, Answers
  <2>4. CASE Connect(Session(r)) /\ UNCHANGED <<rows, claim, clock, faults, pc, form, expires>>
    <3>1. IsFiniteSet(conns') /\ Cardinality(conns') <= PoolSize
      BY <2>4, ConnectKeepsLimit DEF Typed, TypeOK, DatabaseTypeOK
    <3>2. conns' \subseteq {Session(s) : s \in Creates}
      BY <2>4 DEF Connect, Typed, TypeOK
    <3> QED
      BY <2>1, <2>2, <2>4, <3>1, <3>2 DEF Typed, TypeOK, DatabaseTypeOK
  <2> QED
    BY <1>1, <1>3, <2>3, <2>4
<1> QED
  BY <1>2, <1>3

LEMMA InsertTyped ==
    ASSUME Typed, NEW r \in Creates, Insert(r)
    PROVE  Typed'
<1>1. CASE ~CodeExists(code[r])
  BY <1>1 DEF Insert, Typed, TypeOK, DatabaseTypeOK
<1>2. CASE CodeExists(code[r])
  <2>1. Abort(r, "409") /\ UNCHANGED <<code, attempts, faults>>
    BY <1>2 DEF Insert
  <2> QED
    BY <2>1, AbortTyped DEF Typed, TypeOK, DatabaseTypeOK, Answers
<1> QED
  BY <1>1, <1>2

LEMMA CommitTyped ==
    ASSUME Typed, NEW r \in Creates, NEW answer \in Answers, CommitAs(r, answer),
           faults' \in 0 .. MaxFaults
    PROVE  Typed'
<1> USE DEF Typed, TypeOK, DatabaseTypeOK, CommitAs
<1>1. IsFiniteSet(conns') /\ Cardinality(conns') <= PoolSize
  BY DisconnectKeepsLimit
<1>2. conns' \subseteq {Session(s) : s \in Creates}
  BY DEF Disconnect
<1>3. NewRow(r) \in Row
  BY DEF NewRow, Row, Form
<1>4. rows' \in [Codes -> Row \cup {NoRow}]
  BY <1>3
<1>5. claim' \in [Codes -> Creates \cup {Nobody}]
  OBVIOUS
<1>6. pc' \in [Creates -> {"idle", "check", "generate", "insert", "commit"} \cup Answers]
  OBVIOUS
<1> QED
  BY <1>1, <1>2, <1>4, <1>5, <1>6

LEMMA TypedStep ==
    ASSUME Typed, InsertersHaveCodes, [Next]_createVars
    PROVE  Typed'
<1> USE DEF Typed, TypeOK, DatabaseTypeOK
<1>1. ASSUME NEW r \in Creates, Submit(r) PROVE Typed'
  BY <1>1 DEF Submit, database
<1>2. ASSUME NEW r \in Creates, CheckCustom(r) PROVE Typed'
  BY <1>2, CheckCustomTyped
<1>3. ASSUME NEW r \in Creates, TryCode(r) PROVE Typed'
  BY <1>3, TryCodeTyped
<1>4. ASSUME NEW r \in Creates, Insert(r) PROVE Typed'
  BY <1>4, InsertTyped
<1>5. ASSUME NEW r \in Creates, Commit(r) PROVE Typed'
  BY <1>5, CommitTyped DEF Commit, Answers
<1>6. ASSUME NEW r \in Creates, CommitInDoubt(r) PROVE Typed'
  BY <1>6, CommitTyped, FaultTyped DEF CommitInDoubt, Answers
<1>7. ASSUME NEW r \in Creates, PoolTimeout(r) \/ DbError(r) PROVE Typed'
  <2>1. Abort(r, "500") /\ UNCHANGED <<code, attempts>> /\ Fault
    BY <1>7 DEF PoolTimeout, TimedOut, DbError
  <2> QED
    BY <2>1, AbortTyped, FaultTyped DEF Answers
<1>8. CASE Crash
  <2>1. IsFiniteSet(conns') /\ Cardinality(conns') <= PoolSize
    BY <1>8, FS_EmptySet, Instance DEF Crash
  <2>2. faults' \in 0 .. MaxFaults
    BY <1>8, FaultTyped DEF Crash
  <2>3. pc' \in [Creates -> {"idle", "check", "generate", "insert", "commit"} \cup Answers]
    BY <1>8 DEF Crash, CreateCrash, Answers
  <2> QED
    BY <1>8, <2>1, <2>2, <2>3 DEF Crash, CreateCrash
<1>9. CASE Tick /\ UNCHANGED create
  BY <1>9, Instance DEF Tick, create
<1>10. CASE UNCHANGED createVars
  BY <1>10 DEF createVars
<1> QED
  BY <1>1, <1>2, <1>3, <1>4, <1>5, <1>6, <1>7, <1>8, <1>9, <1>10
     DEF Next, CreateNext, Step

-----------------------------------------------------------------------------
(* The index.                                                              *)

\* A request that has not inserted leaves the index and the table consistent
\* when it moves on to another statement but the INSERT, or ends.
LEMMA Bystander ==
    ASSUME Typed, IndexConsistent, NEW r \in Creates,
           NEW to \in {"check", "generate", "insert", "409", "503", "500"},
           pc[r] \notin {"commit", "201", "500", "lost"},
           pc' = [pc EXCEPT ![r] = to],
           code' \in [Creates -> Codes \cup {Generated}],
           \A s \in Creates : s # r => code'[s] = code[s],
           to = "insert" => code'[r] \in Codes,
           to = "check" => code'[r] = form[r].custom /\ form[r].custom \in Codes,
           claim' = claim, rows' = rows, form' = form
    PROVE  IndexConsistent'
<1> USE DEF Typed, TypeOK, DatabaseTypeOK, IndexConsistent
<1>1. \A s \in Creates : pc'[s] = IF s = r THEN to ELSE pc[s]
  OBVIOUS
<1>2. \A c \in Codes : claim[c] # Nobody => claim[c] \in Creates /\ claim[c] # r
  BY DEF ClaimsArePending
<1>3. ClaimsArePending'
  BY <1>1, <1>2 DEF ClaimsArePending
<1>4. InsertersHaveCodes'
  BY <1>1 DEF InsertersHaveCodes
<1>5. \A c \in Codes : rows[c] # NoRow => rows[c].by \in Creates /\ rows[c].by # r
  BY DEF RowsAreOwned, Row
<1>6. RowsAreOwned'
  BY <1>1, <1>5 DEF RowsAreOwned
<1> QED
  BY <1>3, <1>4, <1>6

\* A request that aborts takes its claim with it, if it has one.
LEMMA AbortIndex ==
    ASSUME Typed, IndexConsistent, NEW r \in Creates, InFlight(r),
           NEW answer \in {"409", "503", "500"}, Abort(r, answer),
           code' \in [Creates -> Codes \cup {Generated}],
           \A s \in Creates : s # r => code'[s] = code[s]
    PROVE  IndexConsistent'
<1> USE DEF Typed, TypeOK, DatabaseTypeOK, IndexConsistent, Abort
<1>1. \A s \in Creates : pc'[s] = IF s = r THEN answer ELSE pc[s]
  OBVIOUS
<1>2. \A c \in Codes : claim'[c] = IF claim[c] = r THEN Nobody ELSE claim[c]
  OBVIOUS
<1>3. ClaimsArePending'
  BY <1>1, <1>2 DEF ClaimsArePending
<1>4. InsertersHaveCodes'
  BY <1>1, <1>2 DEF InsertersHaveCodes
<1>5. \A c \in Codes : rows[c] # NoRow => rows[c].by \in Creates /\ rows[c].by # r
  BY DEF RowsAreOwned, Row, InFlight, Answers
<1>6. RowsAreOwned'
  BY <1>1, <1>5 DEF RowsAreOwned
<1> QED
  BY <1>3, <1>4, <1>6

\* A commit turns the claim into a row.
LEMMA CommitIndex ==
    ASSUME Typed, IndexConsistent, NEW r \in Creates,
           NEW answer \in {"201", "500", "lost"}, CommitAs(r, answer)
    PROVE  IndexConsistent'
<1> USE DEF Typed, TypeOK, DatabaseTypeOK, IndexConsistent, CommitAs
<1>1. \A s \in Creates : pc'[s] = IF s = r THEN answer ELSE pc[s]
  OBVIOUS
<1>2. code[r] \in Codes /\ claim[code[r]] = r
  BY DEF InsertersHaveCodes
<1>3. \A c \in Codes : claim'[c] = IF c = code[r] THEN Nobody ELSE claim[c]
  BY <1>2
<1>4. \A c \in Codes : rows'[c] = IF c = code[r] THEN NewRow(r) ELSE rows[c]
  BY <1>2
<1>5. NewRow(r) # NoRow /\ NewRow(r).by = r
  BY Instance DEF NewRow, Row, Form
<1>6. ClaimsArePending'
  <2> SUFFICES ASSUME NEW c \in Codes, claim'[c] # Nobody
               PROVE  pc'[claim'[c]] = "commit" /\ code'[claim'[c]] = c /\ rows'[c] = NoRow
    BY DEF ClaimsArePending
  <2>1. c # code[r] /\ claim'[c] = claim[c]
    BY <1>3
  <2>2. claim[c] # r
    BY <2>1 DEF ClaimsArePending
  <2> QED
    BY <1>1, <1>4, <2>1, <2>2 DEF ClaimsArePending
<1>7. InsertersHaveCodes'
  BY <1>1, <1>2, <1>3 DEF InsertersHaveCodes
<1>8. RowsAreOwned'
  <2> SUFFICES ASSUME NEW c \in Codes, rows'[c] # NoRow
               PROVE  pc'[rows'[c].by] \in {"201", "500", "lost"} /\ code'[rows'[c].by] = c
    BY DEF RowsAreOwned
  <2>1. CASE c = code[r]
    BY <1>1, <1>4, <1>5, <2>1
  <2>2. CASE c # code[r]
    BY <1>1, <1>4, <2>2 DEF RowsAreOwned, Row
  <2> QED
    BY <2>1, <2>2
<1> QED
  BY <1>6, <1>7, <1>8

LEMMA CheckCustomIndex ==
    ASSUME Typed, IndexConsistent, NEW r \in Creates, CheckCustom(r)
    PROVE  IndexConsistent'
<1>1. form[r].custom \in Codes
  BY DEF CheckCustom, IndexConsistent, InsertersHaveCodes
<1>2. CASE Proceed(r, form[r].custom)
  <2>1. /\ code' \in [Creates -> Codes \cup {Generated}]
        /\ code'[r] \in Codes
        /\ \A s \in Creates : s # r => code'[s] = code[s]
    BY <1>1, <1>2 DEF Proceed, Typed, TypeOK
  <2> QED
    BY <1>2, <2>1, Bystander DEF Proceed, CheckCustom
<1>3. CASE Abort(r, "409") /\ UNCHANGED code
  <2>1. InFlight(r)
    BY DEF CheckCustom, InFlight, Answers
  <2> QED
    BY <1>3, <2>1, AbortIndex DEF Typed, TypeOK
<1> QED
  BY <1>2, <1>3 DEF CheckCustom

LEMMA TryCodeIndex ==
    ASSUME Typed, IndexConsistent, NEW r \in Creates, TryCode(r)
    PROVE  IndexConsistent'
<1>1. PICK c \in Codes :
        /\ code' = [code EXCEPT ![r] = c]
        /\ \/ Proceed(r, c)
           \/ UNCHANGED <<rows, claim, pc, form>>
           \/ Abort(r, "503")
  BY DEF TryCode, Proceed
<1>2. /\ code' \in [Creates -> Codes \cup {Generated}]
      /\ code'[r] \in Codes
      /\ \A s \in Creates : s # r => code'[s] = code[s]
  BY <1>1 DEF Typed, TypeOK
<1>3. CASE Proceed(r, c)
  BY <1>2, <1>3, Bystander DEF Proceed, TryCode
<1>4. CASE UNCHANGED <<rows, claim, pc, form>>
  BY <1>2, <1>4 DEF IndexConsistent, ClaimsArePending, InsertersHaveCodes, RowsAreOwned,
                    TryCode, Typed, TypeOK, DatabaseTypeOK, Row
<1>5. CASE Abort(r, "503")
  <2>1. InFlight(r)
    BY DEF TryCode, InFlight, Answers
  <2> QED
    BY <1>2, <1>5, <2>1, AbortIndex
<1> QED
  BY <1>1, <1>3, <1>4, <1>5

LEMMA InsertIndex ==
    ASSUME Typed, IndexConsistent, NEW r \in Creates, Insert(r)
    PROVE  IndexConsistent'
<1> USE DEF Typed, TypeOK, DatabaseTypeOK, IndexConsistent
<1>1. code[r] \in Codes /\ claim[code[r]] = Nobody /\ pc[r] = "insert"
  BY DEF Insert, InsertersHaveCodes
<1>2. CASE ~CodeExists(code[r])
  <2>1. /\ rows' = rows /\ form' = form /\ code' = code
        /\ rows[code[r]] = NoRow
        /\ \A s \in Creates : pc'[s] = IF s = r THEN "commit" ELSE pc[s]
        /\ \A c \in Codes : claim'[c] = IF c = code[r] THEN r ELSE claim[c]
    BY <1>1, <1>2 DEF Insert, CodeExists
  <2>2. ClaimsArePending'
    BY <1>1, <2>1 DEF ClaimsArePending
  <2>3. InsertersHaveCodes'
    BY <1>1, <2>1, Instance DEF InsertersHaveCodes
  <2>4. RowsAreOwned'
    BY <1>1, <2>1 DEF RowsAreOwned, Row
  <2> QED
    BY <2>2, <2>3, <2>4
<1>3. CASE CodeExists(code[r])
  <2>1. Abort(r, "409") /\ code' = code
    BY <1>3 DEF Insert
  <2>2. InFlight(r)
    BY <1>1 DEF InFlight, Answers
  <2> QED
    BY <2>1, <2>2, AbortIndex
<1> QED
  BY <1>2, <1>3

LEMMA CrashIndex ==
    ASSUME Typed, IndexConsistent, Crash
    PROVE  IndexConsistent'
<1> USE DEF Typed, TypeOK, DatabaseTypeOK, IndexConsistent, Crash, CreateCrash
<1>1. ClaimsArePending'
  BY DEF ClaimsArePending
<1>2. InsertersHaveCodes'
  BY DEF InsertersHaveCodes, InFlight, Answers
<1>3. RowsAreOwned'
  BY DEF RowsAreOwned, Row, InFlight, Answers
<1> QED
  BY <1>1, <1>2, <1>3

LEMMA IndexStep ==
    ASSUME Typed, IndexConsistent, [Next]_createVars
    PROVE  IndexConsistent'
<1>1. ASSUME NEW r \in Creates, Submit(r) PROVE IndexConsistent'
  <2> DEFINE to == IF form[r].custom = Generated THEN "generate" ELSE "check"
  <2>1. form[r].custom \in Codes \cup {Generated}
    BY DEF Typed, TypeOK, Form
  <2>2. /\ pc[r] = "idle" /\ code[r] = form[r].custom
        /\ pc' = [pc EXCEPT ![r] = to]
        /\ UNCHANGED <<code, form, claim, rows>>
    BY <1>1 DEF Submit, database, IndexConsistent, InsertersHaveCodes
  <2>3. to = "check" => form[r].custom \in Codes
    BY <2>1
  <2>4. to \in {"generate", "check"}
    OBVIOUS
  <2> HIDE DEF to
  <2>5. code' \in [Creates -> Codes \cup {Generated}]
    BY <2>2 DEF Typed, TypeOK
  <2> QED
    BY <2>2, <2>3, <2>4, <2>5, Bystander
<1>2. ASSUME NEW r \in Creates, CheckCustom(r) PROVE IndexConsistent'
  BY <1>2, CheckCustomIndex
<1>3. ASSUME NEW r \in Creates, TryCode(r) PROVE IndexConsistent'
  BY <1>3, TryCodeIndex
<1>4. ASSUME NEW r \in Creates, Insert(r) PROVE IndexConsistent'
  BY <1>4, InsertIndex
<1>5. ASSUME NEW r \in Creates, Commit(r) \/ CommitInDoubt(r) PROVE IndexConsistent'
  BY <1>5, CommitIndex DEF Commit, CommitInDoubt
<1>6. ASSUME NEW r \in Creates, PoolTimeout(r) \/ DbError(r) PROVE IndexConsistent'
  <2>1. Abort(r, "500") /\ code' = code /\ InFlight(r)
    BY <1>6 DEF PoolTimeout, TimedOut, DbError, InFlight, Answers
  <2> QED
    BY <2>1, AbortIndex DEF Typed, TypeOK
<1>7. CASE Crash
  BY <1>7, CrashIndex
<1>8. CASE (Tick /\ UNCHANGED create) \/ UNCHANGED createVars
  BY <1>8 DEF Tick, create, createVars, IndexConsistent, ClaimsArePending,
              InsertersHaveCodes, RowsAreOwned
<1> QED
  BY <1>1, <1>2, <1>3, <1>4, <1>5, <1>6, <1>7, <1>8 DEF Next, CreateNext, Step

LEMMA InitIndex == CreateInit => IndexConsistent
<1> SUFFICES ASSUME CreateInit PROVE IndexConsistent
  OBVIOUS
<1>1. ClaimsArePending /\ RowsAreOwned
  BY DEF CreateInit, ClaimsArePending, RowsAreOwned
<1>2. InsertersHaveCodes
  BY DEF CreateInit, InsertersHaveCodes
<1> QED
  BY <1>1, <1>2 DEF IndexConsistent

-----------------------------------------------------------------------------
(* The answers.                                                            *)

\* The register is monotonic: rows stay.
LEMMA RowsStay ==
    ASSUME Typed, IndexConsistent, [Next]_createVars, NEW c \in Codes, rows[c] # NoRow
    PROVE  rows'[c] = rows[c]
<1>1. ASSUME NEW r \in Creates, NEW answer, CommitAs(r, answer) PROVE rows'[c] = rows[c]
  <2>1. code[r] \in Codes /\ rows[code[r]] = NoRow
    BY <1>1, Instance DEF CommitAs, IndexConsistent, InsertersHaveCodes, ClaimsArePending
  <2> QED
    BY <1>1, <2>1 DEF CommitAs, Typed, TypeOK, DatabaseTypeOK
<1>2. ASSUME NEW r \in Creates, CommitInDoubt(r) \/ Commit(r) PROVE rows'[c] = rows[c]
  BY <1>1, <1>2 DEF CommitInDoubt, Commit
<1>3. ASSUME NEW r \in Creates,
             Submit(r) \/ CheckCustom(r) \/ TryCode(r) \/ Insert(r) \/ PoolTimeout(r) \/ DbError(r)
      PROVE  rows' = rows
  BY <1>3 DEF Submit, CheckCustom, TryCode, Insert, PoolTimeout, TimedOut, DbError, Proceed, Abort, database
<1>4. Crash \/ Tick \/ UNCHANGED createVars => rows' = rows
  BY DEF Crash, Tick, createVars
<1> QED
  BY <1>2, <1>3, <1>4 DEF Next, CreateNext, Step

\* A request that aborts, or proceeds, changes nothing of another one.
LEMMA OthersUntouched ==
    ASSUME Typed, [Next]_createVars, NEW r \in Creates, pc[r] \in Answers
    PROVE  /\ pc'[r] = pc[r] /\ code'[r] = code[r]
           /\ expires'[r] = expires[r] /\ form'[r] = form[r]
<1> USE DEF Typed, TypeOK, Answers
<1>1. ASSUME NEW s \in Creates, Submit(s) PROVE s # r /\ UNCHANGED <<code, expires, form>>
                                                /\ pc'[r] = pc[r]
  BY <1>1 DEF Submit
<1>2. ASSUME NEW s \in Creates, NEW c \in Codes, Proceed(s, c), s # r
      PROVE  pc'[r] = pc[r] /\ code'[r] = code[r] /\ expires'[r] = expires[r] /\ form' = form
  BY <1>2 DEF Proceed
<1>3. ASSUME NEW s \in Creates, NEW answer, Abort(s, answer), s # r
      PROVE  pc'[r] = pc[r] /\ UNCHANGED <<expires, form>>
  BY <1>3 DEF Abort
<1>4. ASSUME NEW s \in Creates, CheckCustom(s)
      PROVE  pc'[r] = pc[r] /\ code'[r] = code[r] /\ expires'[r] = expires[r] /\ form' = form
  <2>1. s # r
    BY <1>4 DEF CheckCustom
  <2>2. CASE Abort(s, "409") /\ UNCHANGED code
    BY <1>3, <2>1, <2>2
  <2>3. CASE Proceed(s, form[s].custom)
    BY <2>1, <2>3 DEF Proceed
  <2> QED
    BY <1>4, <2>2, <2>3 DEF CheckCustom
<1>5. ASSUME NEW s \in Creates, TryCode(s)
      PROVE  pc'[r] = pc[r] /\ code'[r] = code[r] /\ expires'[r] = expires[r] /\ form' = form
  <2>1. s # r
    BY <1>5 DEF TryCode
  <2>2. PICK c \in Codes :
          \/ Proceed(s, c)
          \/ /\ code' = [code EXCEPT ![s] = c]
             /\ UNCHANGED <<pc, form, expires>> \/ Abort(s, "503")
    BY <1>5 DEF TryCode
  <2> QED
    BY <1>2, <1>3, <2>1, <2>2
<1>6. ASSUME NEW s \in Creates, Insert(s)
      PROVE  pc'[r] = pc[r] /\ UNCHANGED <<code, expires, form>>
  <2>1. s # r
    BY <1>6 DEF Insert
  <2>2. CASE Abort(s, "409") /\ UNCHANGED code
    BY <1>3, <2>1, <2>2
  <2>3. CASE pc' = [pc EXCEPT ![s] = "commit"] /\ UNCHANGED <<form, code, expires>>
    BY <2>1, <2>3
  <2> QED
    BY <1>6, <2>2, <2>3 DEF Insert
<1>7. ASSUME NEW s \in Creates, Commit(s) \/ CommitInDoubt(s)
      PROVE  pc'[r] = pc[r] /\ UNCHANGED <<code, expires, form>>
  BY <1>7 DEF Commit, CommitInDoubt, CommitAs
<1>8. ASSUME NEW s \in Creates, PoolTimeout(s) \/ DbError(s)
      PROVE  pc'[r] = pc[r] /\ UNCHANGED <<code, expires, form>>
  <2>1. s # r /\ Abort(s, "500") /\ UNCHANGED code
    BY <1>8 DEF PoolTimeout, TimedOut, DbError, InFlight
  <2> QED
    BY <1>3, <2>1
<1>9. CASE Crash
  BY <1>9 DEF Crash, CreateCrash, InFlight
<1>10. CASE (Tick /\ UNCHANGED create) \/ UNCHANGED createVars
  BY <1>10 DEF Tick, create, createVars
<1> QED
  BY <1>1, <1>4, <1>5, <1>6, <1>7, <1>8, <1>9, <1>10 DEF Next, CreateNext, Step

\* An answer is given for a reason.
LEMMA NewAnswers ==
    ASSUME Typed, IndexConsistent, [Next]_createVars, NEW r \in Creates, pc[r] \notin Answers
    PROVE  /\ pc'[r] = "201" => code'[r] \in Codes /\ rows'[code'[r]] = NewRow(r)'
           /\ pc'[r] = "409" => /\ code'[r] \in Codes
                                /\ rows'[code'[r]] # NoRow
                                /\ rows'[code'[r]].by # r
<1> USE DEF Typed, TypeOK, DatabaseTypeOK, Answers
<1> DEFINE Truthful ==
      /\ pc'[r] = "201" => code'[r] \in Codes /\ rows'[code'[r]] = NewRow(r)'
      /\ pc'[r] = "409" => /\ code'[r] \in Codes
                           /\ rows'[code'[r]] # NoRow
                           /\ rows'[code'[r]].by # r
<1>1. ASSUME NEW c \in Codes, rows[c] # NoRow PROVE rows[c].by # r
  BY <1>1 DEF IndexConsistent, RowsAreOwned
<1>2. ASSUME NEW s \in Creates, NEW answer, answer \notin {"201", "409"}, Abort(s, answer)
      PROVE  Truthful
  BY <1>2 DEF Abort
<1>3. ASSUME NEW s \in Creates, NEW c \in Codes, Proceed(s, c) PROVE Truthful
  BY <1>3 DEF Proceed
<1>4. ASSUME NEW s \in Creates, Abort(s, "409"), UNCHANGED code,
             code[s] \in Codes, rows[code[s]] # NoRow
      PROVE  Truthful
  BY <1>1, <1>4 DEF Abort
<1>5. ASSUME NEW s \in Creates, Submit(s) PROVE Truthful
  BY <1>5 DEF Submit
<1>6. ASSUME NEW s \in Creates, CheckCustom(s) PROVE Truthful
  <2>1. code[s] = form[s].custom /\ form[s].custom \in Codes
    BY <1>6 DEF CheckCustom, IndexConsistent, InsertersHaveCodes
  <2> QED
    BY <1>3, <1>4, <1>6, <2>1 DEF CheckCustom, CodeExists
<1>7. ASSUME NEW s \in Creates, TryCode(s) PROVE Truthful
  <2>1. PICK c \in Codes : Proceed(s, c) \/ UNCHANGED pc \/ Abort(s, "503")
    BY <1>7 DEF TryCode
  <2> QED
    BY <1>2, <1>3, <2>1
<1>8. ASSUME NEW s \in Creates, Insert(s) PROVE Truthful
  <2>1. code[s] \in Codes
    BY <1>8 DEF Insert, IndexConsistent, InsertersHaveCodes
  <2>2. CASE pc' = [pc EXCEPT ![s] = "commit"]
    BY <2>2
  <2> QED
    BY <1>4, <1>8, <2>1, <2>2 DEF Insert, CodeExists
<1>9. ASSUME NEW s \in Creates, Commit(s) PROVE Truthful
  <2>1. /\ code[s] \in Codes /\ code' = code
        /\ pc' = [pc EXCEPT ![s] = "201"]
        /\ rows' = [rows EXCEPT ![code[s]] = NewRow(s)]
        /\ NewRow(s)' = NewRow(s)
    BY <1>9 DEF Commit, CommitAs, IndexConsistent, InsertersHaveCodes, NewRow
  <2> QED
    BY <2>1
<1>10. ASSUME NEW s \in Creates, CommitInDoubt(s) PROVE Truthful
  BY <1>10 DEF CommitInDoubt, CommitAs
<1>11. ASSUME NEW s \in Creates, PoolTimeout(s) \/ DbError(s) PROVE Truthful
  BY <1>2, <1>11 DEF PoolTimeout, TimedOut, DbError
<1>12. CASE Crash
  BY <1>12 DEF Crash, CreateCrash
<1>13. CASE (Tick /\ UNCHANGED create) \/ UNCHANGED createVars
  BY <1>13 DEF Tick, create, createVars
<1> QED
  BY <1>5, <1>6, <1>7, <1>8, <1>9, <1>10, <1>11, <1>12, <1>13 DEF Next, CreateNext, Step

LEMMA CreatedStep ==
    ASSUME Typed, IndexConsistent, CreatedHasRow, [Next]_createVars
    PROVE  CreatedHasRow'
<1> SUFFICES ASSUME NEW r \in Creates, pc'[r] = "201"
             PROVE  code'[r] \in Codes /\ rows'[code'[r]] = NewRow(r)'
  BY DEF CreatedHasRow
<1>1. CASE pc[r] \notin Answers
  BY <1>1, NewAnswers
<1>2. CASE pc[r] \in Answers
  <2>1. /\ pc[r] = "201" /\ code'[r] = code[r]
        /\ expires'[r] = expires[r] /\ form'[r] = form[r]
    BY <1>2, OthersUntouched
  <2>2. code[r] \in Codes /\ rows[code[r]] = NewRow(r) /\ NewRow(r)' = NewRow(r)
    BY <2>1 DEF CreatedHasRow, NewRow
  <2>3. NewRow(r) # NoRow
    <3>1. form[r].url \in LongUrls /\ expires[r] \in Nat
      BY DEF Typed, TypeOK, Form
    <3> QED
      BY <3>1, Instance DEF NewRow, Row
  <2> QED
    BY <2>1, <2>2, <2>3, RowsStay
<1> QED
  BY <1>1, <1>2

LEMMA ConflictStep ==
    ASSUME Typed, IndexConsistent, ConflictHasRow, [Next]_createVars
    PROVE  ConflictHasRow'
<1> SUFFICES ASSUME NEW r \in Creates, pc'[r] = "409"
             PROVE  /\ code'[r] \in Codes
                    /\ rows'[code'[r]] # NoRow
                    /\ rows'[code'[r]].by # r
  BY DEF ConflictHasRow
<1>1. CASE pc[r] \notin Answers
  BY <1>1, NewAnswers
<1>2. CASE pc[r] \in Answers
  <2>1. pc[r] = "409" /\ code'[r] = code[r]
    BY <1>2, OthersUntouched
  <2> QED
    BY <2>1, RowsStay DEF ConflictHasRow
<1> QED
  BY <1>1, <1>2

-----------------------------------------------------------------------------
(* What a request holds.                                                   *)

\* Only a request that is being handled has a connection.
SessionsOpen == \A r \in Creates : Session(r) \in conns => InFlight(r)

\* A step of one request that closes its session, or leaves it being handled,
\* keeps SessionsOpen.
LEMMA SessionMoves ==
    ASSUME Typed, SessionsOpen, NEW s \in Creates, NEW to,
           pc' = [pc EXCEPT ![s] = to],
           \/ Disconnect(Session(s))
           \/ /\ conns' = conns \/ Connect(Session(s))
              /\ to \notin Answers \cup {"idle"}
    PROVE  SessionsOpen'
<1> SUFFICES ASSUME NEW r \in Creates, Session(r) \in conns'
             PROVE  InFlight(r)'
  BY DEF SessionsOpen
<1>1. CASE r = s
  <2>1. to \notin Answers \cup {"idle"}
    BY <1>1 DEF Disconnect
  <2> QED
    BY <1>1, <2>1 DEF InFlight, Typed, TypeOK
<1>2. CASE r # s
  <2>1. Session(r) \in conns
    BY <1>2, SessionsDiffer DEF Connect, Disconnect
  <2> QED
    BY <1>2, <2>1 DEF SessionsOpen, InFlight, Typed, TypeOK
<1> QED
  BY <1>1, <1>2

LEMMA SessionsStep ==
    ASSUME Typed, SessionsOpen, [Next]_createVars
    PROVE  SessionsOpen'
<1>1. ASSUME NEW s \in Creates, NEW c \in Codes, Proceed(s, c) PROVE SessionsOpen'
  BY <1>1, SessionMoves DEF Proceed, Answers
<1>2. ASSUME NEW s \in Creates, NEW answer, Abort(s, answer) PROVE SessionsOpen'
  BY <1>2, SessionMoves DEF Abort
<1>3. ASSUME NEW s \in Creates, Submit(s) PROVE SessionsOpen'
  <2>1. PICK to \in {"check", "generate"} : pc' = [pc EXCEPT ![s] = to]
    BY <1>3 DEF Submit
  <2> QED
    BY <1>3, <2>1, SessionMoves DEF Submit, database, Answers
<1>4. ASSUME NEW s \in Creates, CheckCustom(s) PROVE SessionsOpen'
  <2>1. CASE Abort(s, "409")
    BY <1>2, <2>1
  <2>2. CASE Proceed(s, form[s].custom)
    BY <2>2, SessionMoves DEF Proceed, Answers
  <2> QED
    BY <1>4, <2>1, <2>2 DEF CheckCustom
<1>5. ASSUME NEW s \in Creates, TryCode(s) PROVE SessionsOpen'
  <2>1. PICK c \in Codes : \/ Proceed(s, c)
                           \/ Connect(Session(s)) /\ UNCHANGED pc
                           \/ Abort(s, "503")
    BY <1>5 DEF TryCode
  <2>2. CASE Connect(Session(s)) /\ UNCHANGED pc
    <3>1. pc' = [pc EXCEPT ![s] = "generate"]
      BY <1>5, <2>2 DEF TryCode, Typed, TypeOK
    <3> QED
      BY <2>2, <3>1, SessionMoves DEF Answers
  <2> QED
    BY <1>1, <1>2, <2>1, <2>2
<1>6. ASSUME NEW s \in Creates, Insert(s) PROVE SessionsOpen'
  <2>1. CASE pc' = [pc EXCEPT ![s] = "commit"] /\ UNCHANGED conns
    BY <2>1, SessionMoves DEF Answers
  <2> QED
    BY <1>2, <1>6, <2>1 DEF Insert
<1>7. ASSUME NEW s \in Creates, Commit(s) \/ CommitInDoubt(s) PROVE SessionsOpen'
  BY <1>7, SessionMoves DEF Commit, CommitInDoubt, CommitAs
<1>8. ASSUME NEW s \in Creates, PoolTimeout(s) \/ DbError(s) PROVE SessionsOpen'
  BY <1>2, <1>8 DEF PoolTimeout, TimedOut, DbError
<1>9. CASE Crash
  BY <1>9 DEF Crash, SessionsOpen
<1>10. CASE (Tick /\ UNCHANGED create) \/ UNCHANGED createVars
  BY <1>10 DEF Tick, create, createVars, SessionsOpen, InFlight
<1> QED
  BY <1>3, <1>4, <1>5, <1>6, <1>7, <1>8, <1>9, <1>10 DEF Next, CreateNext, Step

-----------------------------------------------------------------------------
(* The register.                                                           *)

\* The table and the answers, read as a register of codes.
Owner == [c \in Codes |-> IF CodeExists(c) THEN rows[c].by ELSE Nobody]
Outcome == [r \in Creates |-> CASE pc[r] = "201" -> "created"
                                [] pc[r] = "409" -> "conflict"
                                [] pc[r] \in {"503", "500", "lost"} -> "failed"
                                [] OTHER -> "pending"]

LEMMA RegistryInit == CreateInit => Registry!Init
<1> SUFFICES ASSUME CreateInit PROVE Registry!Init
  OBVIOUS
<1>1. Owner = [c \in Codes |-> Nobody]
  BY DEF CreateInit, Owner, CodeExists
<1>2. \A r \in Creates : Outcome[r] = "pending"
  BY DEF CreateInit, Outcome
<1>3. Outcome = [r \in Creates |-> "pending"]
  BY <1>2 DEF Outcome
<1> QED
  BY <1>1, <1>3 DEF Registry!Init, Owner, Outcome

\* Requests that fail together are one step of the register.
LEMMA FailRefines ==
    ASSUME Typed, NEW failing \in SUBSET Creates, UNCHANGED rows,
           \A r \in failing : InFlight(r) /\ pc'[r] \in {"503", "500", "lost"},
           \A r \in Creates \ failing : pc'[r] = pc[r]
    PROVE  Registry!Fail(failing)
<1>1. \A r \in failing : Outcome[r] = "pending" /\ Outcome'[r] = "failed"
  BY DEF Outcome, InFlight, Answers
<1>2. \A r \in Creates \ failing : Outcome'[r] = Outcome[r]
  BY DEF Outcome
<1>3. Outcome' = [r \in Creates |-> IF r \in failing THEN "failed" ELSE Outcome[r]]
  <2>1. Outcome' = [r \in Creates |-> Outcome'[r]]
    BY DEF Outcome
  <2> QED
    BY <1>1, <1>2, <2>1
<1>4. Owner' = Owner
  BY DEF Owner, CodeExists
<1> QED
  BY <1>1, <1>3, <1>4 DEF Registry!Fail, Owner, Outcome

\* A request that fails alone.
LEMMA AbortRefines ==
    ASSUME Typed, NEW r \in Creates, NEW answer \in {"503", "500"},
           InFlight(r), Abort(r, answer)
    PROVE  Registry!Next
<1>1. {r} \in SUBSET Creates /\ UNCHANGED rows
  BY DEF Abort
<1>2. pc'[r] = answer /\ \A s \in Creates \ {r} : pc'[s] = pc[s]
  BY DEF Abort, Typed, TypeOK
<1>3. Registry!Fail({r})
  BY <1>1, <1>2, FailRefines
<1> QED
  BY <1>1, <1>3 DEF Registry!Next

\* A request that meets the row of another one.
LEMMA ConflictRefines ==
    ASSUME Typed, IndexConsistent, NEW r \in Creates, NEW c \in Codes,
           InFlight(r), Abort(r, "409"), CodeExists(c)
    PROVE  Registry!Next
<1>1. rows[c].by \in Creates /\ rows[c].by # r /\ rows[c].by # Nobody
  BY Instance DEF IndexConsistent, RowsAreOwned, CodeExists, InFlight, Answers,
                  Typed, TypeOK, DatabaseTypeOK, Row
<1>2. Outcome[r] = "pending" /\ Owner[c] \notin {Nobody, r}
  BY <1>1 DEF Outcome, Owner, InFlight, Answers
<1>3. pc'[r] = "409" /\ \A s \in Creates \ {r} : pc'[s] = pc[s]
  BY DEF Abort, Typed, TypeOK
<1>4. Outcome'[r] = "conflict" /\ \A s \in Creates \ {r} : Outcome'[s] = Outcome[s]
  BY <1>3 DEF Outcome
<1>5. Outcome' = [Outcome EXCEPT ![r] = "conflict"]
  BY <1>4 DEF Outcome
<1>6. Owner' = Owner
  BY DEF Owner, CodeExists, Abort
<1>7. Registry!Refuse(r, c)
  BY <1>2, <1>5, <1>6 DEF Registry!Refuse, Owner, Outcome
<1> QED
  BY <1>7 DEF Registry!Next

\* A commit binds the code.
LEMMA CommitRefines ==
    ASSUME Typed, IndexConsistent, NEW r \in Creates, NEW answer \in {"201", "500", "lost"},
           CommitAs(r, answer)
    PROVE  Registry!Next
<1> DEFINE told == IF answer = "201" THEN "created" ELSE "failed"
<1>1. PICK mine \in Codes : mine = code[r]
  BY DEF CommitAs, IndexConsistent, InsertersHaveCodes
<1>2. claim[mine] = r /\ rows[mine] = NoRow /\ pc[r] = "commit"
  BY <1>1, Instance DEF CommitAs, IndexConsistent, InsertersHaveCodes, ClaimsArePending
<1>3. NewRow(r) # NoRow /\ NewRow(r).by = r
  <2>1. form[r].url \in LongUrls /\ expires[r] \in Nat
    BY DEF Typed, TypeOK, Form
  <2> QED
    BY <2>1, Instance DEF NewRow, Row
<1>4. /\ rows'[mine] = NewRow(r)
      /\ \A d \in Codes \ {mine} : rows'[d] = rows[d]
  BY <1>1 DEF CommitAs, Typed, TypeOK, DatabaseTypeOK
<1>5. pc'[r] = answer /\ \A s \in Creates \ {r} : pc'[s] = pc[s]
  BY DEF CommitAs, Typed, TypeOK
<1>6. Outcome[r] = "pending" /\ Owner[mine] = Nobody
  BY <1>2 DEF Outcome, Owner, CodeExists
<1>7. Outcome'[r] = told /\ \A s \in Creates \ {r} : Outcome'[s] = Outcome[s]
  BY <1>5 DEF Outcome
<1>8. Outcome' = [Outcome EXCEPT ![r] = told]
  BY <1>7 DEF Outcome
<1>9. Owner'[mine] = r /\ \A d \in Codes \ {mine} : Owner'[d] = Owner[d]
  BY <1>2, <1>3, <1>4 DEF Owner, CodeExists
<1>10. Owner' = [Owner EXCEPT ![mine] = r]
  BY <1>9 DEF Owner
<1>11. told \in {"created", "failed"}
  OBVIOUS
<1> HIDE DEF told
<1>12. Registry!Bind(r, mine)
  BY <1>6, <1>8, <1>10, <1>11 DEF Registry!Bind, Owner, Outcome
<1> QED
  BY <1>12 DEF Registry!Next

\* A request that moves from one statement to the next, before its commit, does
\* not show in the register.
LEMMA MoveRefines ==
    ASSUME Typed, NEW r \in Creates, pc[r] \notin Answers, NEW to, to \notin Answers,
           pc' = [pc EXCEPT ![r] = to], UNCHANGED rows
    PROVE  UNCHANGED Registry!vars
<1>1. \A s \in Creates : Outcome'[s] = Outcome[s]
  BY DEF Outcome, Typed, TypeOK, Answers
<1>2. Outcome' = Outcome
  BY <1>1 DEF Outcome
<1>3. Owner' = Owner
  BY DEF Owner, CodeExists
<1> QED
  BY <1>2, <1>3 DEF Registry!vars, Owner, Outcome

\* Every step of the handlers is a step of the register, or a stutter.
LEMMA RegistryStep ==
    ASSUME Typed, IndexConsistent, [Next]_createVars
    PROVE  [Registry!Next]_Registry!vars
<1>1. ASSUME NEW r \in Creates, NEW c \in Codes, Proceed(r, c), pc[r] \notin Answers
      PROVE  UNCHANGED Registry!vars
  BY <1>1, MoveRefines DEF Proceed, Answers
<1>2. ASSUME NEW r \in Creates, Submit(r) PROVE UNCHANGED Registry!vars
  <2>1. PICK to \in {"check", "generate"} : pc' = [pc EXCEPT ![r] = to]
    BY <1>2 DEF Submit
  <2> QED
    BY <1>2, <2>1, MoveRefines DEF Submit, database, Answers
<1>3. ASSUME NEW r \in Creates, CheckCustom(r) PROVE [Registry!Next]_Registry!vars
  <2>1. form[r].custom \in Codes /\ pc[r] \notin Answers /\ InFlight(r)
    BY <1>3 DEF CheckCustom, IndexConsistent, InsertersHaveCodes, InFlight, Answers
  <2>2. CASE Proceed(r, form[r].custom)
    BY <1>1, <2>1, <2>2
  <2>3. CASE CodeExists(form[r].custom) /\ Abort(r, "409")
    BY <2>1, <2>3, ConflictRefines
  <2> QED
    BY <1>3, <2>2, <2>3 DEF CheckCustom
<1>4. ASSUME NEW r \in Creates, TryCode(r) PROVE [Registry!Next]_Registry!vars
  <2>1. pc[r] = "generate" /\ pc[r] \notin Answers /\ InFlight(r)
    BY <1>4 DEF TryCode, InFlight, Answers
  <2>2. PICK c \in Codes : Proceed(r, c) \/ UNCHANGED <<pc, rows>> \/ Abort(r, "503")
    BY <1>4 DEF TryCode
  <2>3. CASE UNCHANGED <<pc, rows>>
    <3>1. pc' = [pc EXCEPT ![r] = "generate"]
      BY <2>1, <2>3 DEF Typed, TypeOK
    <3> QED
      BY <2>1, <2>3, <3>1, MoveRefines
  <2>4. CASE Abort(r, "503")
    BY <2>1, <2>4, AbortRefines
  <2> QED
    BY <1>1, <2>1, <2>2, <2>3, <2>4
<1>5. ASSUME NEW r \in Creates, Insert(r) PROVE [Registry!Next]_Registry!vars
  <2>1. code[r] \in Codes /\ pc[r] \notin Answers /\ InFlight(r)
    BY <1>5 DEF Insert, IndexConsistent, InsertersHaveCodes, InFlight, Answers
  <2>2. CASE pc' = [pc EXCEPT ![r] = "commit"] /\ UNCHANGED rows
    BY <2>1, <2>2, MoveRefines DEF Answers
  <2>3. CASE CodeExists(code[r]) /\ Abort(r, "409")
    BY <2>1, <2>3, ConflictRefines
  <2> QED
    BY <1>5, <2>2, <2>3 DEF Insert
<1>6. ASSUME NEW r \in Creates, Commit(r) \/ CommitInDoubt(r) PROVE Registry!Next
  BY <1>6, CommitRefines DEF Commit, CommitInDoubt
<1>7. ASSUME NEW r \in Creates, PoolTimeout(r) \/ DbError(r) PROVE Registry!Next
  <2>1. InFlight(r) /\ Abort(r, "500")
    BY <1>7 DEF PoolTimeout, TimedOut, DbError, InFlight, Answers
  <2> QED
    BY <2>1, AbortRefines
<1>8. CASE Crash
  <2>1. PICK dying \in SUBSET Creates : dying = {r \in Creates : InFlight(r)}
    OBVIOUS
  <2>2. /\ UNCHANGED rows
        /\ \A r \in dying : InFlight(r) /\ pc'[r] = "lost"
        /\ \A r \in Creates \ dying : pc'[r] = pc[r]
    BY <1>8, <2>1 DEF Crash, CreateCrash, Typed, TypeOK
  <2>3. Registry!Fail(dying)
    BY <2>2, FailRefines
  <2> QED
    BY <2>3 DEF Registry!Next
<1>9. CASE (Tick /\ UNCHANGED create) \/ UNCHANGED createVars
  <2>1. UNCHANGED <<rows, pc>>
    BY <1>9 DEF Tick, create, createVars
  <2> QED
    BY <2>1 DEF Registry!vars, CodeExists
<1> QED
  BY <1>2, <1>3, <1>4, <1>5, <1>6, <1>7, <1>8, <1>9 DEF Next, CreateNext, Step

-----------------------------------------------------------------------------
(* The theorems.                                                           *)

\* The part of the invariant the others rest on.
LEMMA Inductive == Spec => [](Typed /\ IndexConsistent)
<1>1. CreateInit => Typed /\ IndexConsistent
  BY InitTyped, InitIndex
<1>2. Typed /\ IndexConsistent /\ [Next]_createVars => (Typed /\ IndexConsistent)'
  BY TypedStep, IndexStep DEF IndexConsistent
<1> QED
  BY <1>1, <1>2, PTL DEF Spec

(***************************************************************************)
(* The handler, the table, its index and the pool keep their types for     *)
(* every instance; in particular no more sessions hold connections than    *)
(* the pool has.                                                           *)
(***************************************************************************)
THEOREM TypeCorrect == Spec => []TypeOK
<1>1. Typed => TypeOK
  BY DEF Typed
<1> QED
  BY <1>1, Inductive, PTL

(***************************************************************************)
(* A 201 of create_url is the truth and stays it: however many requests    *)
(* race between the check, the INSERT and the commit, and whatever fails,  *)
(* the returned code has the row that was asked for.                       *)
(***************************************************************************)
THEOREM CreatedStaysDurable == Spec => []CreatedIsDurable
<1>1. CreateInit => CreatedHasRow
  BY DEF CreateInit, CreatedHasRow
<1>2. Typed /\ IndexConsistent /\ CreatedHasRow /\ [Next]_createVars => CreatedHasRow'
  BY CreatedStep
<1>3. CreatedHasRow => CreatedIsDurable
  BY DEF CreatedHasRow, CreatedIsDurable
<1> QED
  BY <1>1, <1>2, <1>3, Inductive, PTL DEF Spec

(***************************************************************************)
(* A 409 of create_url, from the check or from the index, names a code     *)
(* that another request has a committed row for.                           *)
(***************************************************************************)
THEOREM ConflictStaysReal == Spec => []ConflictIsReal
<1>1. CreateInit => ConflictHasRow
  BY DEF CreateInit, ConflictHasRow
<1>2. Typed /\ IndexConsistent /\ ConflictHasRow /\ [Next]_createVars => ConflictHasRow'
  BY ConflictStep
<1>3. ConflictHasRow => ConflictIsReal
  BY DEF ConflictHasRow, ConflictIsReal, CodeExists
<1> QED
  BY <1>1, <1>2, <1>3, Inductive, PTL DEF Spec

(***************************************************************************)
(* Only a request that was told 201, or that failed in doubt about its     *)
(* commit, has a row: what get_db_session rolls back leaves nothing.       *)
(***************************************************************************)
THEOREM RefusalLeavesNoRow == Spec => []RefusedLeavesNoRow
<1>1. IndexConsistent => RefusedLeavesNoRow
  BY DEF IndexConsistent, RowsAreOwned, RefusedLeavesNoRow, CodeExists
<1> QED
  BY <1>1, Inductive, PTL

(***************************************************************************)
(* A request that was answered has returned its connection and holds no    *)
(* code in the unique index.                                               *)
(***************************************************************************)
THEOREM AnsweredHasReturned == Spec => []AnsweredHoldsNothing
<1>1. CreateInit => SessionsOpen
  BY DEF CreateInit, SessionsOpen
<1>2. Typed /\ SessionsOpen /\ [Next]_createVars => SessionsOpen'
  BY SessionsStep
<1>3. Typed /\ IndexConsistent /\ SessionsOpen => AnsweredHoldsNothing
  BY Instance DEF IndexConsistent, ClaimsArePending, SessionsOpen, InFlight, Answers,
                  AnsweredHoldsNothing
<1> QED
  BY <1>1, <1>2, <1>3, Inductive, PTL DEF Spec

(***************************************************************************)
(* No statement of create_url changes or removes a committed row.          *)
(***************************************************************************)
THEOREM RowsNeverChange == Spec => RowsImmutable
<1>1. Typed /\ IndexConsistent /\ [Next]_createVars
        => [\A c \in Codes : CodeExists(c) => rows'[c] = rows[c]]_createVars
  BY RowsStay DEF CodeExists
<1> QED
  BY <1>1, Inductive, PTL DEF Spec, RowsImmutable

(***************************************************************************)
(* create_url implements the register of codes, for any number of codes,   *)
(* requests, connections and failures: check, INSERT and commit cannot be  *)
(* told from one step that binds a free code.                              *)
(***************************************************************************)
THEOREM CreateRefinesCodeRegistry == Spec => RefinesCodeRegistry
<1>1. CreateInit => Registry!Init
  BY RegistryInit
<1>2. Typed /\ IndexConsistent /\ [Next]_createVars => [Registry!Next]_Registry!vars
  BY RegistryStep
<1> QED
  BY <1>1, <1>2, Inductive, PTL DEF Spec, RefinesCodeRegistry, Registry!Spec
=============================================================================
