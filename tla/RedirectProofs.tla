--------------------------- MODULE RedirectProofs ---------------------------
(***************************************************************************)
(* Proofs about Redirect, for every finite set of visits, every set of     *)
(* codes, destinations and reports, every size of the pool and any number  *)
(* of failures.                                                            *)
(***************************************************************************)
EXTENDS Redirect, DatabaseProofs

-----------------------------------------------------------------------------
(* Types, and the pool.                                                    *)

Sessions == {RequestOf(q) : q \in Visits \cup Readers} \cup {TaskOf(v) : v \in Visits}

PoolTyped ==
    /\ IsFiniteSet(conns) /\ Cardinality(conns) <= PoolSize
    /\ conns \subseteq Sessions

StoreTyped ==
    /\ rows \in [Codes -> Row \cup {NoRow}]
    /\ claim \in [Codes -> Creates \cup {Nobody}]
    /\ clock \in 0 .. MaxTime
    /\ faults \in 0 .. MaxFaults
    /\ redis \in RedisStates
    /\ cache \in [Codes -> LongUrls \cup {Miss}]

Places ==
    {"idle", "cache", "lookup", "fill", "close", "absent", "outdated"} \cup VisitAnswers

VisitsTyped ==
    /\ visit \in [Visits -> Places]
    /\ target \in [Visits -> Codes \cup {NoCode}]
    /\ found \in [Visits -> LongUrls \cup {Miss}]

\* A visit that has arrived has a code.
VisitsHaveTargets == \A v \in Visits : visit[v] # "idle" => target[v] \in Codes

ClicksTyped ==
    /\ click \in [Visits -> {"none", "queued", "updating", "commit", "counted", "dropped"}]
    /\ rowlock \in [Codes -> Visits \cup {Nobody}]
    /\ count \in [Codes -> Nat] /\ events \in [Codes -> SUBSET ClickEvent]

Reports == [count : Nat, recent : SUBSET ClickEvent, top : SUBSET ClickEvent]

ReadersTyped ==
    /\ reader \in [Readers -> {"idle", "url", "recent", "top", "200", "404", "500", "lost"}]
    /\ subject \in [Readers -> Codes \cup {NoCode}]
    /\ report \in [Readers -> Reports]

ReadersHaveSubjects == \A s \in Readers : reader[s] # "idle" => subject[s] \in Codes

\* Exactly the visits that were answered with a 302 have a click.
ClicksFollowRedirects == \A v \in Visits : visit[v] = "302" <=> click[v] # "none"

Typed ==
    /\ PoolTyped /\ StoreTyped /\ VisitsTyped /\ ClicksTyped /\ ReadersTyped
    /\ VisitsHaveTargets /\ ReadersHaveSubjects /\ ClicksFollowRedirects

LEMMA TypedIsTypeOK == Typed => TypeOK
BY DEF Typed, PoolTyped, StoreTyped, VisitsTyped, ClicksTyped, ReadersTyped,
       TypeOK, DatabaseTypeOK, Sessions, Places, Reports

LEMMA ConnectTyped ==
    ASSUME PoolTyped, NEW session \in Sessions, Connect(session)
    PROVE  PoolTyped'
<1>1. IsFiniteSet(conns') /\ Cardinality(conns') <= PoolSize
  BY ConnectKeepsLimit DEF PoolTyped
<1>2. conns' \subseteq Sessions
  BY DEF PoolTyped, Connect
<1> QED
  BY <1>1, <1>2 DEF PoolTyped, Sessions

LEMMA DisconnectTyped ==
    ASSUME PoolTyped, NEW session, Disconnect(session)
    PROVE  PoolTyped'
<1>1. IsFiniteSet(conns') /\ Cardinality(conns') <= PoolSize
  BY DisconnectKeepsLimit DEF PoolTyped
<1>2. conns' \subseteq Sessions
  BY DEF PoolTyped, Disconnect
<1> QED
  BY <1>1, <1>2 DEF PoolTyped, Sessions

LEMMA PoolUnchanged ==
    ASSUME PoolTyped, UNCHANGED conns
    PROVE  PoolTyped'
BY DEF PoolTyped, Sessions

LEMMA InitTyped == Init => Typed
<1> SUFFICES ASSUME Init PROVE Typed
  OBVIOUS
<1> USE DEF Init, RedirectInit
<1>1. PoolTyped
  BY FS_EmptySet, Instance DEF PoolTyped
<1>2. StoreTyped
  <2>1. StoredRows \subseteq Row
    BY Limits DEF StoredRows, Row
  <2> QED
    BY <2>1, Limits, Instance DEF StoreTyped
<1>3. VisitsTyped /\ VisitsHaveTargets
  BY DEF VisitsTyped, VisitsHaveTargets, Places
<1>4. ClicksTyped /\ ClicksFollowRedirects
  BY DEF ClicksTyped, ClicksFollowRedirects
<1>5. ReadersTyped /\ ReadersHaveSubjects
  BY Limits DEF ReadersTyped, ReadersHaveSubjects, NoReport, Reports
<1> QED
  BY <1>1, <1>2, <1>3, <1>4, <1>5 DEF Typed

-----------------------------------------------------------------------------
(* What the actions leave alone.                                           *)

LEMMA SessionsOfRequests ==
    /\ \A v \in Visits : RequestOf(v) \in Sessions /\ TaskOf(v) \in Sessions
    /\ \A s \in Readers : RequestOf(s) \in Sessions
BY DEF Sessions

\* A visit moves on to a place that is no 302, and nothing else but the pool, the
\* cache, the budget and what it has found changes.
Moves(v, place) ==
    /\ visit[v] \notin {"idle", "302"}
    /\ visit' = [visit EXCEPT ![v] = place]
    /\ UNCHANGED <<target, clicks, readers, rows, claim, clock, redis>>

LEMMA MoveTyped ==
    ASSUME Typed, NEW v \in Visits, NEW place \in Places \ {"idle", "302"},
           Moves(v, place), PoolTyped', faults' \in 0 .. MaxFaults,
           cache' \in [Codes -> LongUrls \cup {Miss}],
           found' \in [Visits -> LongUrls \cup {Miss}]
    PROVE  Typed'
<1> USE DEF Typed, Moves, clicks, readers
<1>1. StoreTyped'
  BY DEF StoreTyped, Row
<1>2. VisitsTyped' /\ VisitsHaveTargets'
  BY DEF VisitsTyped, VisitsHaveTargets, Places, VisitAnswers
<1>3. ClicksTyped'
  BY DEF ClicksTyped
<1>4. ClicksFollowRedirects'
  BY DEF ClicksFollowRedirects, VisitsTyped
<1>5. ReadersTyped' /\ ReadersHaveSubjects'
  BY DEF ReadersTyped, ReadersHaveSubjects
<1> QED
  BY <1>1, <1>2, <1>3, <1>4, <1>5

\* The click of a redirect moves on.
ClickMoves(v, place) ==
    /\ click[v] # "none"
    /\ click' = [click EXCEPT ![v] = place]
    /\ UNCHANGED <<visits, readers, rows, claim, clock, redis, cache>>

LEMMA ClickMoveTyped ==
    ASSUME Typed, NEW v \in Visits,
           NEW place \in {"updating", "commit", "counted", "dropped"},
           ClickMoves(v, place), PoolTyped', faults' \in 0 .. MaxFaults,
           rowlock' \in [Codes -> Visits \cup {Nobody}],
           count' \in [Codes -> Nat], events' \in [Codes -> SUBSET ClickEvent]
    PROVE  Typed'
<1> USE DEF Typed, ClickMoves, visits, readers
<1>1. StoreTyped'
  BY DEF StoreTyped, Row
<1>2. VisitsTyped' /\ VisitsHaveTargets'
  BY DEF VisitsTyped, VisitsHaveTargets, Places, VisitAnswers
<1>3. ClicksTyped'
  BY DEF ClicksTyped
<1>4. ClicksFollowRedirects'
  BY DEF ClicksFollowRedirects, ClicksTyped
<1>5. ReadersTyped' /\ ReadersHaveSubjects'
  BY DEF ReadersTyped, ReadersHaveSubjects
<1> QED
  BY <1>1, <1>2, <1>3, <1>4, <1>5

\* A reader moves on.
ReaderMoves(s, place) ==
    /\ reader[s] # "idle"
    /\ reader' = [reader EXCEPT ![s] = place]
    /\ UNCHANGED <<visits, clicks, subject, rows, claim, clock, redis, cache>>

LEMMA ReaderMoveTyped ==
    ASSUME Typed, NEW s \in Readers,
           NEW place \in {"recent", "top", "200", "404", "500"},
           ReaderMoves(s, place), PoolTyped', faults' \in 0 .. MaxFaults,
           report' \in [Readers -> Reports]
    PROVE  Typed'
<1> USE DEF Typed, ReaderMoves, visits, clicks
<1>1. StoreTyped'
  BY DEF StoreTyped, Row
<1>2. VisitsTyped' /\ VisitsHaveTargets'
  BY DEF VisitsTyped, VisitsHaveTargets, Places, VisitAnswers
<1>3. ClicksTyped' /\ ClicksFollowRedirects'
  BY DEF ClicksTyped, ClicksFollowRedirects
<1>4. ReadersTyped' /\ ReadersHaveSubjects'
  BY DEF ReadersTyped, ReadersHaveSubjects
<1> QED
  BY <1>1, <1>2, <1>3, <1>4

-----------------------------------------------------------------------------
(* Every step keeps the types.                                             *)

LEMMA VisitStepTyped ==
    ASSUME Typed, NEW v \in Visits,
           VisitStep(v) \/ VisitDbError(v) \/ VisitPoolTimeout(v)
    PROVE  Typed'
<1> USE DEF Goto, database, Moves
<1>0. /\ PoolTyped /\ faults \in 0 .. MaxFaults
      /\ cache \in [Codes -> LongUrls \cup {Miss}]
      /\ found \in [Visits -> LongUrls \cup {Miss}]
      /\ rows \in [Codes -> Row \cup {NoRow}]
      /\ visit[v] # "idle" => target[v] \in Codes
      /\ RequestOf(v) \in Sessions
  BY SessionsOfRequests DEF Typed, StoreTyped, VisitsTyped, VisitsHaveTargets
<1>p. {"cache", "lookup", "fill", "close", "absent", "outdated", "404", "expired", "500"}
         \subseteq Places \ {"idle", "302"}
  BY DEF Places, VisitAnswers
<1>1. CASE CacheGet(v)
  <2>1. PICK place \in {"close", "lookup"} : Moves(v, place)
    BY <1>1 DEF CacheGet
  <2>2. PoolTyped' /\ faults' = faults /\ cache' = cache
    BY <1>0, <1>1, PoolUnchanged DEF CacheGet
  <2>3. found' \in [Visits -> LongUrls \cup {Miss}]
    BY <1>0, <1>1 DEF CacheGet
  <2> QED
    BY <1>0, <1>p, <2>1, <2>2, <2>3, MoveTyped
<1>2. CASE CacheGetFails(v)
  <2>1. Moves(v, "lookup") /\ UNCHANGED <<conns, faults, cache, found>>
    BY <1>2 DEF CacheGetFails
  <2> QED
    BY <1>0, <1>p, <2>1, PoolUnchanged, MoveTyped
<1>3. CASE Lookup(v)
  <2>1. PICK place \in {"fill", "close"} : Moves(v, place)
    BY <1>3 DEF Lookup
  <2>2. PoolTyped' /\ faults' = faults /\ cache' = cache
    BY <1>0, <1>3, ConnectTyped DEF Lookup
  <2>3. rows[target[v]] \in Row
    BY <1>0, <1>3 DEF Lookup, Resolvable, CodeExists
  <2>4. found' \in [Visits -> LongUrls \cup {Miss}]
    BY <1>0, <1>3, <2>3 DEF Lookup, Row
  <2> QED
    BY <1>0, <1>p, <2>1, <2>2, <2>4, MoveTyped
<1>4. CASE NotFound(v)
  <2>1. PICK place \in {"outdated", "absent"} : Moves(v, place)
    BY <1>4 DEF NotFound
  <2>2. PoolTyped' /\ UNCHANGED <<faults, cache, found>>
    BY <1>0, <1>4, ConnectTyped DEF NotFound
  <2> QED
    BY <1>0, <1>p, <2>1, <2>2, MoveTyped
<1>5. CASE CacheFill(v)
  <2>1. Moves(v, "close") /\ UNCHANGED <<conns, faults, found>>
    BY <1>5 DEF CacheFill
  <2>2. cache' \in [Codes -> LongUrls \cup {Miss}]
    BY <1>0, <1>5 DEF CacheFill
  <2> QED
    BY <1>0, <1>p, <2>1, <2>2, PoolUnchanged, MoveTyped
<1>6. CASE CacheFillFails(v)
  <2>1. Moves(v, "close") /\ UNCHANGED <<conns, faults, found>>
    BY <1>6 DEF CacheFillFails
  <2>2. cache' \in [Codes -> LongUrls \cup {Miss}]
    BY <1>0, <1>6 DEF CacheFillFails
  <2> QED
    BY <1>0, <1>p, <2>1, <2>2, PoolUnchanged, MoveTyped
<1>7. CASE Close(v)
  <2> USE <1>7 DEF Close, Typed
  <2>1. PoolTyped'
    BY <1>0, DisconnectTyped
  <2>2. StoreTyped'
    BY DEF StoreTyped, Row
  <2>3. VisitsTyped' /\ VisitsHaveTargets'
    BY DEF VisitsTyped, VisitsHaveTargets, Places, VisitAnswers
  <2>4. ClicksTyped'
    BY DEF ClicksTyped
  <2>5. ClicksFollowRedirects'
    BY DEF ClicksFollowRedirects, ClicksTyped, VisitsTyped
  <2>6. ReadersTyped' /\ ReadersHaveSubjects'
    BY DEF ReadersTyped, ReadersHaveSubjects, readers
  <2> QED
    BY <2>1, <2>2, <2>3, <2>4, <2>5, <2>6
<1>8. CASE VisitDbError(v)
  <2>1. Moves(v, "500") /\ UNCHANGED <<cache, found>>
    BY <1>8 DEF VisitDbError
  <2>2. PoolTyped' /\ faults' \in 0 .. MaxFaults
    BY <1>0, <1>8, DisconnectTyped, FaultTyped DEF VisitDbError
  <2> QED
    BY <1>0, <1>p, <2>1, <2>2, MoveTyped
<1>9. CASE VisitPoolTimeout(v)
  <2>1. Moves(v, "500") /\ UNCHANGED <<cache, found>>
    BY <1>9 DEF VisitPoolTimeout
  <2>2. PoolTyped' /\ faults' \in 0 .. MaxFaults
    BY <1>0, <1>9, PoolUnchanged, FaultTyped DEF VisitPoolTimeout, Late
  <2> QED
    BY <1>0, <1>p, <2>1, <2>2, MoveTyped
<1>10. CASE RollBack(v)
  <2>1. PICK place \in {"404", "expired"} : Moves(v, place)
    BY <1>10 DEF RollBack
  <2>2. PoolTyped' /\ UNCHANGED <<faults, cache, found>>
    BY <1>0, <1>10, DisconnectTyped DEF RollBack
  <2> QED
    BY <1>0, <1>p, <2>1, <2>2, MoveTyped
<1> QED
  BY <1>1, <1>2, <1>3, <1>4, <1>5, <1>6, <1>7, <1>8, <1>9, <1>10 DEF VisitStep

LEMMA ClickStepTyped ==
    ASSUME Typed, NEW v \in Visits, ClickStep(v) \/ ClickFails(v)
    PROVE  Typed'
<1> USE DEF database, ClickMoves
<1>0. /\ PoolTyped /\ faults \in 0 .. MaxFaults
      /\ rowlock \in [Codes -> Visits \cup {Nobody}]
      /\ count \in [Codes -> Nat] /\ events \in [Codes -> SUBSET ClickEvent]
      /\ target[v] \in Codes \cup {NoCode}
      /\ TaskOf(v) \in Sessions
  BY SessionsOfRequests DEF Typed, StoreTyped, ClicksTyped, VisitsTyped
<1>1. CASE OpenTask(v)
  <2>1. ClickMoves(v, "updating") /\ UNCHANGED <<faults, rowlock, count, events>>
    BY <1>1 DEF OpenTask
  <2>2. PoolTyped'
    BY <1>0, <1>1, ConnectTyped DEF OpenTask
  <2> QED
    BY <1>0, <2>1, <2>2, ClickMoveTyped
<1>2. CASE LockRow(v)
  <2>1. ClickMoves(v, "commit") /\ UNCHANGED <<conns, faults, count, events>>
    BY <1>2 DEF LockRow
  <2>2. rowlock' \in [Codes -> Visits \cup {Nobody}]
    BY <1>0, <1>2 DEF LockRow
  <2> QED
    BY <1>0, <2>1, <2>2, PoolUnchanged, ClickMoveTyped
<1>3. CASE CommitClick(v)
  <2>1. ClickMoves(v, "counted") /\ faults' = faults
    BY <1>3 DEF CommitClick
  <2>2. PoolTyped'
    BY <1>0, <1>3, DisconnectTyped DEF CommitClick
  <2>3. rowlock' \in [Codes -> Visits \cup {Nobody}]
    BY <1>0, <1>3 DEF CommitClick
  <2>4. count' \in [Codes -> Nat]
    <3>1. count' = [c \in Codes |-> IF c = target[v] THEN count[c] + 1 ELSE count[c]]
      BY <1>0, <1>3 DEF CommitClick
    <3>2. \A c \in Codes : count[c] \in Nat
      BY <1>0
    <3> QED
      BY <3>1, <3>2
  <2>5. events' \in [Codes -> SUBSET ClickEvent]
    <3>1. PICK e \in ClickEvent :
            events' = [events EXCEPT ![target[v]] = events[target[v]] \cup {e}]
      BY <1>3 DEF CommitClick, ClickEvent
    <3> QED
      BY <1>0, <3>1
  <2> QED
    BY <1>0, <2>1, <2>2, <2>3, <2>4, <2>5, ClickMoveTyped
<1>4. CASE ClickFails(v)
  <2>1. ClickMoves(v, "dropped") /\ UNCHANGED <<count, events>>
    BY <1>4 DEF ClickFails
  <2>2. PoolTyped' /\ faults' \in 0 .. MaxFaults
    BY <1>0, <1>4, DisconnectTyped, FaultTyped DEF ClickFails, Late
  <2>3. rowlock' \in [Codes -> Visits \cup {Nobody}]
    BY <1>0, <1>4 DEF ClickFails
  <2> QED
    BY <1>0, <2>1, <2>2, <2>3, ClickMoveTyped
<1> QED
  BY <1>1, <1>2, <1>3, <1>4 DEF ClickStep

LEMMA ReaderStepTyped ==
    ASSUME Typed, NEW s \in Readers, ReaderStep(s) \/ ReaderFails(s)
    PROVE  Typed'
<1> USE DEF database, ReaderMoves
<1>0. /\ PoolTyped /\ faults \in 0 .. MaxFaults
      /\ report \in [Readers -> Reports]
      /\ reader[s] # "idle" => subject[s] \in Codes
      /\ count \in [Codes -> Nat] /\ events \in [Codes -> SUBSET ClickEvent]
      /\ RequestOf(s) \in Sessions
  BY SessionsOfRequests DEF Typed, StoreTyped, ReadersTyped, ClicksTyped, ReadersHaveSubjects
<1>1. CASE ReadUrl(s)
  <2>1. PICK place \in {"recent", "404"} : ReaderMoves(s, place)
    BY <1>1 DEF ReadUrl
  <2>2. PoolTyped' /\ faults' = faults
    BY <1>0, <1>1, ConnectTyped, DisconnectTyped DEF ReadUrl
  <2>3. report' \in [Readers -> Reports]
    BY <1>0, <1>1 DEF ReadUrl, Reports
  <2> QED
    BY <1>0, <2>1, <2>2, <2>3, ReaderMoveTyped
<1>2. CASE ReadRecent(s)
  <2>1. ReaderMoves(s, "top") /\ UNCHANGED <<conns, faults>>
    BY <1>2 DEF ReadRecent
  <2>2. report' \in [Readers -> Reports]
    <3>1. PICK latest \in SUBSET events[subject[s]] :
            report' = [report EXCEPT ![s].recent = latest]
      BY <1>2 DEF ReadRecent
    <3>2. latest \subseteq ClickEvent
      BY <1>0, <1>2 DEF ReadRecent
    <3> QED
      BY <1>0, <3>1, <3>2 DEF Reports
  <2> QED
    BY <1>0, <2>1, <2>2, PoolUnchanged, ReaderMoveTyped
<1>3. CASE ReadTop(s)
  <2>1. ReaderMoves(s, "200") /\ faults' = faults
    BY <1>3 DEF ReadTop
  <2>2. report' \in [Readers -> Reports]
    <3>1. PICK listed \in SUBSET Referrers :
            report' = [report EXCEPT ![s].top = TopEvents(events[subject[s]], listed)]
      BY <1>3 DEF ReadTop
    <3>2. TopEvents(events[subject[s]], listed) \subseteq ClickEvent
      BY <1>0, <1>3 DEF ReadTop, TopEvents
    <3> QED
      BY <1>0, <3>1, <3>2 DEF Reports
  <2>3. PoolTyped'
    BY <1>0, <1>3, DisconnectTyped DEF ReadTop
  <2> QED
    BY <1>0, <2>1, <2>2, <2>3, ReaderMoveTyped
<1>4. CASE ReaderFails(s)
  <2>1. ReaderMoves(s, "500") /\ UNCHANGED report
    BY <1>4 DEF ReaderFails
  <2>2. PoolTyped' /\ faults' \in 0 .. MaxFaults
    BY <1>0, <1>4, DisconnectTyped, FaultTyped DEF ReaderFails, Late
  <2> QED
    BY <1>0, <2>1, <2>2, ReaderMoveTyped
<1> QED
  BY <1>1, <1>2, <1>3, <1>4 DEF ReaderStep

\* The process dies: nothing that was under way stays under way.
LEMMA CrashTyped == Typed /\ Crash => Typed'
<1> SUFFICES ASSUME Typed, Crash PROVE Typed'
  OBVIOUS
<1> USE DEF Crash, RedirectCrash, Typed
<1>1. PoolTyped'
  BY FS_EmptySet, Instance DEF PoolTyped
<1>2. StoreTyped'
  BY FaultTyped DEF StoreTyped, Row
<1>3. VisitsTyped' /\ VisitsHaveTargets'
  BY DEF VisitsTyped, VisitsHaveTargets, Places, VisitAnswers, VisitInFlight
<1>4. ClicksTyped'
  BY DEF ClicksTyped, ClickInFlight
<1>5. ClicksFollowRedirects'
  BY DEF ClicksFollowRedirects, ClickInFlight, VisitInFlight
<1>6. ReadersTyped' /\ ReadersHaveSubjects'
  BY DEF ReadersTyped, ReadersHaveSubjects, ReaderInFlight
<1> QED
  BY <1>1, <1>2, <1>3, <1>4, <1>5, <1>6

LEMMA StepTyped == Typed /\ [Next]_redirectVars => Typed'
<1> SUFFICES ASSUME Typed, [Next]_redirectVars PROVE Typed'
  OBVIOUS
<1>1. ASSUME NEW v \in Visits, Arrive(v) PROVE Typed'
  <2> USE <1>1 DEF Arrive, Typed, Goto, database, clicks, readers
  <2>1. PoolTyped' /\ StoreTyped'
    BY PoolUnchanged DEF StoreTyped, Row
  <2>2. VisitsTyped' /\ VisitsHaveTargets'
    BY DEF VisitsTyped, VisitsHaveTargets, Places, VisitAnswers
  <2>3. ClicksTyped' /\ ClicksFollowRedirects'
    BY DEF ClicksTyped, ClicksFollowRedirects, VisitsTyped
  <2>4. ReadersTyped' /\ ReadersHaveSubjects'
    BY DEF ReadersTyped, ReadersHaveSubjects
  <2> QED
    BY <2>1, <2>2, <2>3, <2>4
<1>2. ASSUME NEW s \in Readers, AskReport(s) PROVE Typed'
  <2> USE <1>2 DEF AskReport, Typed, database, clicks, visits
  <2>1. PoolTyped' /\ StoreTyped'
    BY PoolUnchanged DEF StoreTyped, Row
  <2>2. VisitsTyped' /\ VisitsHaveTargets'
    BY DEF VisitsTyped, VisitsHaveTargets, Places, VisitAnswers
  <2>3. ClicksTyped' /\ ClicksFollowRedirects'
    BY DEF ClicksTyped, ClicksFollowRedirects, VisitsTyped
  <2>4. ReadersTyped' /\ ReadersHaveSubjects'
    BY DEF ReadersTyped, ReadersHaveSubjects
  <2> QED
    BY <2>1, <2>2, <2>3, <2>4
<1>3. ASSUME UNCHANGED <<conns, visits, clicks, readers>>, StoreTyped' PROVE Typed'
  <2> USE <1>3 DEF Typed, visits, clicks, readers
  <2>1. PoolTyped'
    BY PoolUnchanged
  <2>2. VisitsTyped' /\ VisitsHaveTargets'
    BY DEF VisitsTyped, VisitsHaveTargets, Places, VisitAnswers
  <2>3. ClicksTyped' /\ ClicksFollowRedirects'
    BY DEF ClicksTyped, ClicksFollowRedirects, VisitsTyped
  <2>4. ReadersTyped' /\ ReadersHaveSubjects'
    BY DEF ReadersTyped, ReadersHaveSubjects
  <2> QED
    BY <2>1, <2>2, <2>3, <2>4
<1>4. ASSUME NEW c \in Codes, CacheExpire(c) PROVE Typed'
  <2>1. StoreTyped'
    BY <1>4 DEF CacheExpire, Typed, StoreTyped, Row, database
  <2> QED
    BY <1>3, <1>4, <2>1 DEF CacheExpire, database
<1>5. ASSUME NEW state \in RedisStates, RedisBecomes(state) PROVE Typed'
  <2>1. StoreTyped'
    BY <1>5 DEF RedisBecomes, Typed, StoreTyped, Row, database
  <2> QED
    BY <1>3, <1>5, <2>1 DEF RedisBecomes, database
<1>6. ASSUME Tick, UNCHANGED redirectOnly PROVE Typed'
  <2>1. StoreTyped'
    BY <1>6, Instance DEF Tick, redirectOnly, Typed, StoreTyped, Row
  <2> QED
    BY <1>3, <1>6, <2>1 DEF Tick, redirectOnly, visits, clicks, readers
<1>7. ASSUME UNCHANGED redirectVars PROVE Typed'
  <2>1. StoreTyped'
    BY <1>7 DEF redirectVars, Typed, StoreTyped, Row
  <2> QED
    BY <1>3, <1>7, <2>1 DEF redirectVars, visits, clicks, readers
<1> QED
  BY <1>1, <1>2, <1>4, <1>5, <1>6, <1>7, VisitStepTyped, ClickStepTyped,
     ReaderStepTyped, CrashTyped DEF Next, RedirectNext

(***************************************************************************)
(* The state of redirects, clicks and reports is well typed, and the       *)
(* sessions of requests and tasks never hold more connections than the     *)
(* pool has, whatever fails.                                               *)
(***************************************************************************)
THEOREM TypeCorrect == Spec => []TypeOK
<1>1. Spec => []Typed
  BY InitTyped, StepTyped, PTL DEF Spec
<1> QED
  BY <1>1, TypedIsTypeOK, PTL

-----------------------------------------------------------------------------
(* The cache.                                                              *)

\* A visit that is about to fill the cache has found a row that never expires.
FillsMayBeCached ==
    \A v \in Visits : visit[v] = "fill" =>
        /\ CodeExists(target[v])
        /\ rows[target[v]].url = found[v]
        /\ rows[target[v]].expires_at = Never

CacheInv == Typed /\ CacheCoherent /\ FillsMayBeCached

LEMMA RowsStay == [Next]_redirectVars => rows' = rows
BY DEF Next, RedirectNext, VisitStep, ClickStep, ReaderStep, Arrive, CacheGet,
       CacheGetFails, Lookup, NotFound, CacheFill, CacheFillFails, Close,
       RollBack, VisitDbError, VisitPoolTimeout, OpenTask, LockRow, CommitClick, ClickFails,
       AskReport, ReadUrl, ReadRecent, ReadTop, ReaderFails, CacheExpire,
       RedisBecomes, Crash, Tick, redirectVars, database

\* Steps that neither write to the cache nor send a visit to fill it.
LEMMA CacheInvKept ==
    ASSUME CacheInv, Typed', rows' = rows,
           \A c \in Codes : cache'[c] \in {cache[c], Miss},
           \A v \in Visits : visit'[v] = "fill" =>
               visit[v] = "fill" /\ target'[v] = target[v] /\ found'[v] = found[v]
    PROVE  CacheInv'
<1>1. CacheCoherent'
  BY DEF CacheInv, CacheCoherent, CodeExists
<1>2. FillsMayBeCached'
  BY DEF CacheInv, FillsMayBeCached, CodeExists
<1> QED
  BY <1>1, <1>2 DEF CacheInv

\* A visit that fills the cache fills it with what it has found.
LEMMA FillCoherent ==
    ASSUME CacheInv, Typed', rows' = rows, NEW v \in Visits, visit[v] = "fill",
           visit' = [visit EXCEPT ![v] = "close"], UNCHANGED <<target, found>>,
           \/ cache' = [cache EXCEPT ![target[v]] = found[v]]
           \/ cache' = cache
    PROVE  CacheInv'
<1> USE DEF CacheInv
<1>1. cache \in [Codes -> LongUrls \cup {Miss}] /\ visit \in [Visits -> Places]
  BY DEF Typed, StoreTyped, VisitsTyped
<1>2. CacheCoherent'
  BY <1>1 DEF CacheCoherent, FillsMayBeCached, CodeExists
<1>3. FillsMayBeCached'
  BY <1>1 DEF FillsMayBeCached, CodeExists
<1> QED
  BY <1>2, <1>3

LEMMA InitCacheInv == Init => CacheInv
BY InitTyped DEF Init, RedirectInit, CacheInv, CacheCoherent, FillsMayBeCached

LEMMA StepCacheInv == CacheInv /\ [Next]_redirectVars => CacheInv'
<1> SUFFICES ASSUME CacheInv, [Next]_redirectVars PROVE CacheInv'
  OBVIOUS
<1>0. /\ Typed' /\ rows' = rows
      /\ visit \in [Visits -> Places] /\ cache \in [Codes -> LongUrls \cup {Miss}]
      /\ found \in [Visits -> LongUrls \cup {Miss}]
      /\ target \in [Visits -> Codes \cup {NoCode}]
  BY StepTyped, RowsStay DEF CacheInv, Typed, StoreTyped, VisitsTyped
<1> USE <1>0 DEF Goto, database
<1>1. ASSUME NEW v \in Visits, CacheFill(v) \/ CacheFillFails(v) PROVE CacheInv'
  BY <1>1, FillCoherent DEF CacheFill, CacheFillFails
<1>2. ASSUME NEW v \in Visits, Lookup(v) PROVE CacheInv'
  <2>1. CacheCoherent'
    BY <1>2 DEF Lookup, CacheInv, CacheCoherent, CodeExists
  <2>2. FillsMayBeCached'
    BY <1>2 DEF Lookup, CacheInv, FillsMayBeCached, CodeExists, Resolvable
  <2> QED
    BY <2>1, <2>2 DEF CacheInv
<1>3. ASSUME NEW v \in Visits,
             \/ Arrive(v) \/ CacheGet(v) \/ CacheGetFails(v) \/ NotFound(v) \/ Close(v)
             \/ RollBack(v) \/ VisitDbError(v) \/ VisitPoolTimeout(v)
      PROVE  CacheInv'
  <2>1. /\ cache' = cache
        /\ \A w \in Visits : visit'[w] = "fill" => 
             visit[w] = "fill" /\ target'[w] = target[w] /\ found'[w] = found[w]
    BY <1>3 DEF Arrive, CacheGet, CacheGetFails, NotFound, Close, RollBack,
                VisitDbError, VisitPoolTimeout
  <2> QED
    BY <2>1, CacheInvKept
<1>4. ASSUME UNCHANGED visits, \A c \in Codes : cache'[c] \in {cache[c], Miss}
      PROVE  CacheInv'
  BY <1>4, CacheInvKept DEF visits
<1>5. ASSUME NEW v \in Visits, ClickStep(v) \/ ClickFails(v) PROVE CacheInv'
  BY <1>4, <1>5 DEF ClickStep, OpenTask, LockRow, CommitClick, ClickFails
<1>6. ASSUME NEW s \in Readers, AskReport(s) \/ ReaderStep(s) \/ ReaderFails(s)
      PROVE  CacheInv'
  BY <1>4, <1>6 DEF AskReport, ReaderStep, ReadUrl, ReadRecent, ReadTop, ReaderFails
<1>7. ASSUME NEW c \in Codes, CacheExpire(c) PROVE CacheInv'
  BY <1>4, <1>7 DEF CacheExpire
<1>8. ASSUME NEW state \in RedisStates, RedisBecomes(state) PROVE CacheInv'
  BY <1>4, <1>8 DEF RedisBecomes
<1>9. ASSUME Crash PROVE CacheInv'
  <2>1. /\ cache' = cache
        /\ \A w \in Visits : visit'[w] # "fill"
    BY <1>9 DEF Crash, RedirectCrash, VisitInFlight
  <2> QED
    BY <2>1, CacheInvKept
<1>10. ASSUME (Tick /\ UNCHANGED redirectOnly) \/ UNCHANGED redirectVars PROVE CacheInv'
  BY <1>4, <1>10 DEF redirectOnly, redirectVars, visits
<1> QED
  BY <1>1, <1>2, <1>3, <1>5, <1>6, <1>7, <1>8, <1>9, <1>10
     DEF Next, RedirectNext, VisitStep

LEMMA CacheInvHolds == Spec => []CacheInv
BY InitCacheInv, StepCacheInv, PTL DEF Spec

(***************************************************************************)
(* A cache entry is the destination of a committed row that never expires, *)
(* however fills, lost replies, evictions and crashes interleave.          *)
(***************************************************************************)
THEOREM CacheStaysCoherent == Spec => []CacheCoherent
<1>1. CacheInv => CacheCoherent
  BY DEF CacheInv
<1> QED
  BY <1>1, CacheInvHolds, PTL

\* A hit is the destination of a live row.
LEMMA HitIsLive ==
    ASSUME CacheInv, NEW c \in Codes, cache[c] # Miss
    PROVE  Resolvable(c) /\ cache[c] = rows[c].url
BY DEF CacheInv, CacheCoherent, Resolvable, IsExpired

\* A visit that settles on a destination settles on that of a live row.
LEMMA SettlesOnLive ==
    ASSUME CacheInv, [Next]_redirectVars, NEW v \in Visits,
           visit[v] \in {"cache", "lookup"}, visit'[v] \in {"fill", "close"}
    PROVE  /\ CacheGet(v) \/ Lookup(v)
           /\ Resolvable(target[v]) /\ found'[v] = rows[target[v]].url
<1>0. /\ visit \in [Visits -> Places] /\ found \in [Visits -> LongUrls \cup {Miss}]
      /\ target[v] \in Codes
  BY DEF CacheInv, Typed, VisitsTyped, VisitsHaveTargets
<1>1. CacheGet(v) \/ Lookup(v)
  <2> USE <1>0 DEF Goto, visits
  <2>1. ASSUME NEW w \in Visits, Arrive(w) \/ VisitStep(w) \/ VisitDbError(w) \/ VisitPoolTimeout(w)
        PROVE  CacheGet(v) \/ Lookup(v)
    BY <2>1 DEF VisitStep, Arrive, CacheGet, CacheGetFails, Lookup, NotFound, CacheFill,
                CacheFillFails, Close, RollBack, VisitDbError, VisitPoolTimeout
  <2>2. ASSUME UNCHANGED visit PROVE FALSE
    BY <2>2
  <2>3. ASSUME NEW w \in Visits, ClickStep(w) \/ ClickFails(w) PROVE FALSE
    BY <2>2, <2>3 DEF ClickStep, OpenTask, LockRow, CommitClick, ClickFails
  <2>4. ASSUME NEW s \in Readers, AskReport(s) \/ ReaderStep(s) \/ ReaderFails(s)
        PROVE  FALSE
    BY <2>2, <2>4 DEF AskReport, ReaderStep, ReadUrl, ReadRecent, ReadTop, ReaderFails
  <2>5. ASSUME NEW c \in Codes, CacheExpire(c) PROVE FALSE
    BY <2>2, <2>5 DEF CacheExpire
  <2>6. ASSUME NEW state \in RedisStates, RedisBecomes(state) PROVE FALSE
    BY <2>2, <2>6 DEF RedisBecomes
  <2>7. ASSUME Crash PROVE FALSE
    BY <2>7 DEF Crash, RedirectCrash, VisitInFlight
  <2>8. ASSUME (Tick /\ UNCHANGED redirectOnly) \/ UNCHANGED redirectVars PROVE FALSE
    BY <2>2, <2>8 DEF redirectOnly, redirectVars
  <2> QED
    BY <2>1, <2>3, <2>4, <2>5, <2>6, <2>7, <2>8 DEF Next, RedirectNext
<1>2. CASE CacheGet(v)
  <2>1. cache[target[v]] # Miss /\ found'[v] = cache[target[v]]
    BY <1>0, <1>2 DEF CacheGet, Goto
  <2> QED
    BY <1>0, <1>1, <2>1, HitIsLive
<1>3. CASE Lookup(v)
  BY <1>0, <1>1, <1>3 DEF Lookup
<1> QED
  BY <1>1, <1>2, <1>3

(***************************************************************************)
(* A visit settles on a destination only while the row is live, and it is  *)
(* the destination of that row, whether it comes from Redis or Postgres.   *)
(***************************************************************************)
THEOREM ExpiredIsNeverServed == Spec => NeverServesExpired
<1>1. CacheInv /\ [Next]_redirectVars =>
        [\A v \in Visits :
           visit[v] \in {"cache", "lookup"} /\ visit'[v] \in {"fill", "close"} =>
              Resolvable(target[v]) /\ found'[v] = rows[target[v]].url]_redirectVars
  BY SettlesOnLive
<1> QED
  BY <1>1, CacheInvHolds, PTL DEF Spec, NeverServesExpired

-----------------------------------------------------------------------------
(* The redirect implements the ideal one.                                  *)

mapped == <<LiveLinks, States, target, Destinations, Owed, count>>

\* What a visit is seen to do when it goes to another place.
LEMMA StatesAfter ==
    ASSUME visit \in [Visits -> Places], NEW v \in Visits, NEW place,
           visit' = [visit EXCEPT ![v] = place]
    PROVE  States' = [States EXCEPT ![v] = StateAt(place)]
<1>1. \A w \in Visits : visit'[w] = IF w = v THEN place ELSE visit[w]
  OBVIOUS
<1>2. States' = [w \in Visits |-> IF w = v THEN StateAt(place) ELSE StateAt(visit[w])]
  BY <1>1 DEF States
<1> QED
  BY <1>2 DEF States

LEMMA LinksStay ==
    ASSUME UNCHANGED <<rows, clock>>
    PROVE  LiveLinks' = LiveLinks
BY DEF LiveLinks, Resolvable, CodeExists, IsExpired

LEMMA OwedStays ==
    ASSUME UNCHANGED click
    PROVE  Owed' = Owed
BY DEF Owed, ClickInFlight

\* Steps that nobody sees.
LEMMA VisitHidden ==
    ASSUME Typed, NEW v \in Visits,
           \/ CacheGet(v) /\ cache[target[v]] = Miss
           \/ CacheGetFails(v) \/ CacheFill(v) \/ CacheFillFails(v)
    PROVE  UNCHANGED mapped
<1>0. visit \in [Visits -> Places] /\ found \in [Visits -> LongUrls \cup {Miss}]
  BY DEF Typed, VisitsTyped
<1>1. LiveLinks' = LiveLinks /\ Owed' = Owed /\ UNCHANGED <<target, count>>
  BY LinksStay, OwedStays
     DEF CacheGet, CacheGetFails, CacheFill, CacheFillFails, clicks, database
<1>2. CASE visit[v] \in {"cache", "lookup"} /\ visit' = [visit EXCEPT ![v] = "lookup"]
  <2>1. States' = States
    BY <1>0, <1>2 DEF States, StateAt
  <2>2. \A w \in Visits : w # v => found'[w] = found[w]
    BY <1>0 DEF CacheGet, CacheGetFails, CacheFill, CacheFillFails
  <2>3. Destinations' = Destinations
    BY <1>0, <1>2, <2>2 DEF Destinations
  <2> QED
    BY <1>1, <2>1, <2>3 DEF mapped
<1>3. CASE /\ visit[v] = "fill" /\ visit' = [visit EXCEPT ![v] = "close"]
           /\ UNCHANGED found
  <2>1. States' = States
    BY <1>0, <1>3 DEF States, StateAt
  <2>2. Destinations' = Destinations
    BY <1>0, <1>3 DEF Destinations
  <2> QED
    BY <1>1, <2>1, <2>2 DEF mapped
<1> QED
  BY <1>2, <1>3 DEF CacheGet, CacheGetFails, CacheFill, CacheFillFails, Goto

LEMMA ArriveAsks ==
    ASSUME Typed, NEW v \in Visits, Arrive(v)
    PROVE  Ideal!Ask(v)
<1>0. /\ visit \in [Visits -> Places] /\ visit[v] = "idle"
      /\ visit' = [visit EXCEPT ![v] = "cache"]
      /\ UNCHANGED <<rows, clock, found, click, count>>
  BY DEF Typed, VisitsTyped, Arrive, Goto, database, clicks
<1>1. States[v] = "idle" /\ States' = [States EXCEPT ![v] = "asked"]
  BY <1>0, StatesAfter DEF States, StateAt
<1>2. LiveLinks' = LiveLinks /\ Owed' = Owed
  BY <1>0, LinksStay, OwedStays
<1>3. Destinations' = Destinations
  BY <1>0 DEF Destinations
<1> QED
  BY <1>0, <1>1, <1>2, <1>3 DEF Ideal!Ask, Arrive

LEMMA SettlingResolves ==
    ASSUME Typed, NEW v \in Visits, NEW place \in {"fill", "close"},
           visit[v] \in {"cache", "lookup"}, visit' = [visit EXCEPT ![v] = place],
           Resolvable(target[v]), NEW url \in LongUrls, url = rows[target[v]].url,
           found' = [found EXCEPT ![v] = url],
           UNCHANGED <<rows, clock, target, click, count>>
    PROVE  Ideal!Resolve(v)
<1>0. /\ visit \in [Visits -> Places] /\ found \in [Visits -> LongUrls \cup {Miss}]
      /\ target[v] \in Codes
  BY DEF Typed, VisitsTyped, VisitsHaveTargets
<1>1. States[v] = "asked" /\ States' = [States EXCEPT ![v] = "going"]
  BY <1>0, StatesAfter DEF States, StateAt
<1>2. LiveLinks' = LiveLinks /\ Owed' = Owed
  BY LinksStay, OwedStays
<1>3. LiveLinks[target[v]] = url /\ url # Miss
  BY <1>0, Limits DEF LiveLinks
<1>4. Destinations' = [Destinations EXCEPT ![v] = url]
  <2>1. \A w \in Visits : visit'[w] = (IF w = v THEN place ELSE visit[w])
                         /\ found'[w] = (IF w = v THEN url ELSE found[w])
    BY <1>0
  <2> QED
    BY <2>1 DEF Destinations
<1> QED
  BY <1>1, <1>2, <1>3, <1>4 DEF Ideal!Resolve

LEMMA HitResolves ==
    ASSUME CacheInv, NEW v \in Visits, CacheGet(v), cache[target[v]] # Miss
    PROVE  Ideal!Resolve(v)
<1>0. /\ Typed /\ target[v] \in Codes
      /\ cache \in [Codes -> LongUrls \cup {Miss}]
  BY DEF CacheInv, Typed, VisitsHaveTargets, StoreTyped, CacheGet
<1>1. PICK url \in LongUrls : url = cache[target[v]]
  BY <1>0
<1>2. Resolvable(target[v]) /\ url = rows[target[v]].url
  BY <1>0, <1>1, HitIsLive
<1>3. /\ visit[v] = "cache" /\ visit' = [visit EXCEPT ![v] = "close"]
      /\ found' = [found EXCEPT ![v] = url]
      /\ UNCHANGED <<rows, clock, target, click, count>>
  BY <1>1 DEF CacheGet, Goto, database, clicks
<1> QED
  BY <1>0, <1>2, <1>3, SettlingResolves

LEMMA LookupResolves ==
    ASSUME CacheInv, NEW v \in Visits, Lookup(v)
    PROVE  Ideal!Resolve(v)
<1>0. /\ Typed /\ target[v] \in Codes
      /\ rows \in [Codes -> Row \cup {NoRow}]
  BY DEF CacheInv, Typed, VisitsHaveTargets, StoreTyped, Lookup
<1>1. PICK url \in LongUrls : url = rows[target[v]].url
  BY <1>0 DEF Lookup, Resolvable, CodeExists, Row
<1>2. PICK place \in {"fill", "close"} : visit' = [visit EXCEPT ![v] = place]
  BY DEF Lookup, Goto
<1>3. /\ visit[v] = "lookup" /\ Resolvable(target[v])
      /\ found' = [found EXCEPT ![v] = url]
      /\ UNCHANGED <<rows, clock, target, click, count>>
  BY <1>1 DEF Lookup, clicks
<1> QED
  BY <1>0, <1>1, <1>2, <1>3, SettlingResolves

LEMMA NotFoundRefuses ==
    ASSUME Typed, NEW v \in Visits, NotFound(v)
    PROVE  Ideal!Refuse(v)
<1>0. /\ visit \in [Visits -> Places] /\ target[v] \in Codes /\ visit[v] = "lookup"
      /\ UNCHANGED <<rows, clock, target, found, click, count>>
  BY DEF Typed, VisitsTyped, VisitsHaveTargets, NotFound, clicks
<1>1. PICK place \in {"outdated", "absent"} : visit' = [visit EXCEPT ![v] = place]
  BY DEF NotFound, Goto
<1>2. States[v] = "asked" /\ States' = [States EXCEPT ![v] = "refusing"]
  BY <1>0, <1>1, StatesAfter DEF States, StateAt
<1>3. LiveLinks' = LiveLinks /\ Owed' = Owed
  BY <1>0, LinksStay, OwedStays
<1>4. LiveLinks[target[v]] = Miss
  BY <1>0 DEF LiveLinks, NotFound
<1>5. Destinations' = Destinations
  BY <1>0, <1>1 DEF Destinations
<1> QED
  BY <1>0, <1>2, <1>3, <1>4, <1>5 DEF Ideal!Refuse

LEMMA RollBackDenies ==
    ASSUME Typed, NEW v \in Visits, RollBack(v)
    PROVE  Ideal!Deny(v)
<1>0. /\ visit \in [Visits -> Places] /\ visit[v] \in {"absent", "outdated"}
      /\ UNCHANGED <<rows, clock, target, found, click, count>>
  BY DEF Typed, VisitsTyped, RollBack, clicks
<1>1. PICK place \in {"expired", "404"} : visit' = [visit EXCEPT ![v] = place]
  BY DEF RollBack, Goto
<1>2. States[v] = "refusing" /\ States' = [States EXCEPT ![v] = "404"]
  BY <1>0, <1>1, StatesAfter DEF States, StateAt
<1>3. LiveLinks' = LiveLinks /\ Owed' = Owed
  BY <1>0, LinksStay, OwedStays
<1>4. Destinations' = Destinations
  BY <1>0, <1>1 DEF Destinations
<1> QED
  BY <1>0, <1>2, <1>3, <1>4 DEF Ideal!Deny

LEMMA CloseRedirects ==
    ASSUME Typed, NEW v \in Visits, Close(v)
    PROVE  Ideal!Redirect(v)
<1>0. /\ visit \in [Visits -> Places] /\ visit[v] = "close"
      /\ visit' = [visit EXCEPT ![v] = "302"]
      /\ click' = [click EXCEPT ![v] = "queued"] /\ DOMAIN click = Visits
      /\ UNCHANGED <<rows, clock, target, found, count>>
  BY DEF Typed, VisitsTyped, ClicksTyped, Close, Goto
<1>1. States[v] = "going" /\ States' = [States EXCEPT ![v] = "302"]
  BY <1>0, StatesAfter DEF States, StateAt
<1>2. LiveLinks' = LiveLinks
  BY <1>0, LinksStay
<1>3. Owed' = Owed \cup {v}
  BY <1>0 DEF Owed, ClickInFlight
<1>4. Destinations' = Destinations
  BY <1>0 DEF Destinations
<1> QED
  BY <1>0, <1>1, <1>2, <1>3, <1>4 DEF Ideal!Redirect

LEMMA ErrorFails ==
    ASSUME Typed, NEW v \in Visits, VisitDbError(v) \/ VisitPoolTimeout(v)
    PROVE  Ideal!Fail({v}, {})
<1>0. /\ visit \in [Visits -> Places] /\ visit[v] \in {"lookup", "close", "absent", "outdated"}
      /\ visit' = [visit EXCEPT ![v] = "500"]
      /\ UNCHANGED <<rows, clock, target, found, click, count>>
  BY DEF Typed, VisitsTyped, VisitDbError, VisitPoolTimeout, Goto, clicks
<1>1. /\ States[v] \in {"asked", "going", "refusing"}
      /\ States' = [w \in Visits |-> IF w \in {v} THEN "failed" ELSE States[w]]
  BY <1>0, StatesAfter DEF States, StateAt
<1>2. LiveLinks' = LiveLinks /\ Owed' = Owed \ {}
  BY <1>0, LinksStay, OwedStays
<1>3. Destinations' = [w \in Visits |-> IF w \in {v} THEN Miss ELSE Destinations[w]]
  BY <1>0 DEF Destinations
<1> QED
  BY <1>0, <1>1, <1>2, <1>3 DEF Ideal!Fail

LEMMA CommitCounts ==
    ASSUME Typed, NEW v \in Visits, CommitClick(v)
    PROVE  Ideal!Count(v)
<1>0. /\ click[v] = "commit" /\ click' = [click EXCEPT ![v] = "counted"]
      /\ DOMAIN click = Visits
      /\ count' = [count EXCEPT ![target[v]] = @ + 1]
      /\ UNCHANGED <<rows, clock, visit, target, found>>
  BY DEF Typed, ClicksTyped, CommitClick, visits
<1>1. v \in Owed /\ Owed' = Owed \ {v}
  BY <1>0 DEF Owed, ClickInFlight
<1>2. LiveLinks' = LiveLinks
  BY <1>0, LinksStay
<1>3. States' = States /\ Destinations' = Destinations
  BY <1>0 DEF States, Destinations
<1> QED
  BY <1>0, <1>1, <1>2, <1>3 DEF Ideal!Count

LEMMA ClickFailsLoses ==
    ASSUME Typed, NEW v \in Visits, ClickFails(v)
    PROVE  Ideal!Fail({}, {v})
<1>0. /\ click[v] \in {"queued", "updating", "commit"}
      /\ click' = [click EXCEPT ![v] = "dropped"]
      /\ DOMAIN click = Visits
      /\ UNCHANGED <<rows, clock, visit, target, found, count>>
  BY DEF Typed, ClicksTyped, ClickFails, visits
<1>1. {v} \subseteq Owed /\ Owed' = Owed \ {v}
  BY <1>0 DEF Owed, ClickInFlight
<1>2. LiveLinks' = LiveLinks
  BY <1>0, LinksStay
<1>3. /\ States' = [w \in Visits |-> IF w \in {} THEN "failed" ELSE States[w]]
      /\ Destinations' = [w \in Visits |-> IF w \in {} THEN Miss ELSE Destinations[w]]
  BY <1>0 DEF States, Destinations
<1> QED
  BY <1>0, <1>1, <1>2, <1>3 DEF Ideal!Fail

LEMMA CrashFails ==
    ASSUME Typed, Crash
    PROVE  \E failed, lost \in SUBSET Visits : Ideal!Fail(failed, lost)
<1> DEFINE failed == {v \in Visits : VisitInFlight(v)}
<1>0. /\ visit \in [Visits -> Places]
      /\ visit' = [v \in Visits |-> IF VisitInFlight(v) THEN "lost" ELSE visit[v]]
      /\ click' = [v \in Visits |-> IF ClickInFlight(v) THEN "dropped" ELSE click[v]]
      /\ UNCHANGED <<rows, clock, target, found, count>>
  BY DEF Typed, VisitsTyped, Crash, RedirectCrash
<1>1. /\ \A v \in failed : States[v] \in {"asked", "going", "refusing"}
      /\ States' = [v \in Visits |-> IF v \in failed THEN "failed" ELSE States[v]]
  BY <1>0 DEF States, StateAt, VisitInFlight
<1>2. Destinations' = [v \in Visits |-> IF v \in failed THEN Miss ELSE Destinations[v]]
  BY <1>0 DEF Destinations, VisitInFlight
<1>3. LiveLinks' = LiveLinks
  BY <1>0, LinksStay
<1>4. Owed' = Owed \ Owed
  BY <1>0 DEF Owed, ClickInFlight
<1>5. Ideal!Fail(failed, Owed)
  BY <1>0, <1>1, <1>2, <1>3, <1>4 DEF Ideal!Fail
<1>6. failed \in SUBSET Visits /\ Owed \in SUBSET Visits
  BY DEF Owed
<1> QED
  BY <1>5, <1>6

LEMMA TickExpires ==
    ASSUME Typed, Tick, UNCHANGED redirectOnly
    PROVE  \E expired \in SUBSET Codes : Ideal!Expire(expired)
<1> DEFINE expired == {c \in Codes : ~Resolvable(c)'}
<1>1. UNCHANGED <<rows, visit, target, found, click, count>>
  BY DEF Tick, redirectOnly
<1>2. States' = States /\ Destinations' = Destinations /\ Owed' = Owed
  BY <1>1, OwedStays DEF States, Destinations
<1>3. \A c \in Codes : Resolvable(c)' => Resolvable(c)
  <2>1. clock \in Nat /\ clock' = clock + 1
    BY Instance DEF Typed, StoreTyped, Tick
  <2>2. \A c \in Codes : rows[c] # NoRow => rows[c].expires_at \in Nat
    BY DEF Typed, StoreTyped, Row
  <2> QED
    BY <1>1, <2>1, <2>2 DEF Resolvable, CodeExists, IsExpired
<1>4. LiveLinks' = [c \in Codes |-> IF c \in expired THEN Miss ELSE LiveLinks[c]]
  BY <1>1, <1>3 DEF LiveLinks
<1>5. Ideal!Expire(expired)
  BY <1>1, <1>2, <1>4 DEF Ideal!Expire
<1> QED
  BY <1>5

LEMMA OthersHidden ==
    ASSUME UNCHANGED <<rows, clock, visit, target, found, click, count>>
    PROVE  UNCHANGED mapped
<1>1. LiveLinks' = LiveLinks /\ Owed' = Owed
  BY LinksStay, OwedStays
<1>2. States' = States /\ Destinations' = Destinations
  BY DEF States, Destinations
<1> QED
  BY <1>1, <1>2 DEF mapped

LEMMA TaskHidden ==
    ASSUME Typed, NEW v \in Visits, OpenTask(v) \/ LockRow(v)
    PROVE  UNCHANGED mapped
<1>0. /\ DOMAIN click = Visits /\ UNCHANGED <<rows, clock, visit, target, found, count>>
  BY DEF Typed, ClicksTyped, OpenTask, LockRow, visits, database
<1>1. Owed' = Owed
  BY <1>0 DEF Owed, ClickInFlight, OpenTask, LockRow
<1>2. LiveLinks' = LiveLinks
  BY <1>0, LinksStay
<1>3. States' = States /\ Destinations' = Destinations
  BY <1>0 DEF States, Destinations
<1> QED
  BY <1>0, <1>1, <1>2, <1>3 DEF mapped

LEMMA InitMaps == Init => Ideal!Init
<1> SUFFICES ASSUME Init PROVE Ideal!Init
  OBVIOUS
<1>1. LiveLinks \in [Codes -> LongUrls \cup {Miss}]
  BY InitTyped DEF LiveLinks, Typed, StoreTyped, Row, Resolvable, CodeExists
<1>2. /\ States = [v \in Visits |-> "idle"]
      /\ Destinations = [v \in Visits |-> Miss]
      /\ Owed = {}
  BY DEF Init, RedirectInit, States, StateAt, Destinations, Owed, ClickInFlight
<1> QED
  BY <1>1, <1>2 DEF Ideal!Init, Init, RedirectInit

LEMMA StepMaps == CacheInv /\ [Next]_redirectVars => [Ideal!Next]_mapped
<1> SUFFICES ASSUME CacheInv, [Next]_redirectVars PROVE [Ideal!Next]_mapped
  OBVIOUS
<1>0. Typed
  BY DEF CacheInv
<1>1. ASSUME NEW v \in Visits, Arrive(v) \/ VisitStep(v) PROVE [Ideal!Next]_mapped
  <2>1. CASE cache[target[v]] = Miss
    BY <1>0, <1>1, <2>1, ArriveAsks, VisitHidden, LookupResolves, NotFoundRefuses,
       CloseRedirects, RollBackDenies DEF VisitStep, Ideal!Next
  <2>2. CASE cache[target[v]] # Miss
    BY <1>0, <1>1, <2>2, ArriveAsks, VisitHidden, HitResolves, LookupResolves,
       NotFoundRefuses, CloseRedirects, RollBackDenies DEF VisitStep, Ideal!Next
  <2> QED
    BY <2>1, <2>2
<1>2. ASSUME NEW v \in Visits,
             VisitDbError(v) \/ VisitPoolTimeout(v) \/ ClickFails(v)
      PROVE  [Ideal!Next]_mapped
  <2>1. {v} \in SUBSET Visits /\ {} \in SUBSET Visits
    OBVIOUS
  <2> QED
    BY <1>0, <1>2, <2>1, ErrorFails, ClickFailsLoses DEF Ideal!Next
<1>3. ASSUME NEW v \in Visits, ClickStep(v) PROVE [Ideal!Next]_mapped
  BY <1>0, <1>3, TaskHidden, CommitCounts DEF ClickStep, Ideal!Next
<1>4. ASSUME NEW s \in Readers, AskReport(s) \/ ReaderStep(s) \/ ReaderFails(s)
      PROVE  UNCHANGED mapped
  BY <1>4, OthersHidden DEF AskReport, ReaderStep, ReadUrl, ReadRecent, ReadTop,
     ReaderFails, database, visits, clicks
<1>5. ASSUME NEW c \in Codes, CacheExpire(c) PROVE UNCHANGED mapped
  BY <1>5, OthersHidden DEF CacheExpire, database, visits, clicks
<1>6. ASSUME NEW state \in RedisStates, RedisBecomes(state) PROVE UNCHANGED mapped
  BY <1>6, OthersHidden DEF RedisBecomes, database, visits, clicks
<1>7. ASSUME Crash PROVE [Ideal!Next]_mapped
  BY <1>0, <1>7, CrashFails DEF Ideal!Next
<1>8. ASSUME Tick, UNCHANGED redirectOnly PROVE [Ideal!Next]_mapped
  BY <1>0, <1>8, TickExpires DEF Ideal!Next
<1>9. ASSUME UNCHANGED redirectVars PROVE UNCHANGED mapped
  BY <1>9, OthersHidden DEF redirectVars
<1> QED
  BY <1>1, <1>2, <1>3, <1>4, <1>5, <1>6, <1>7, <1>8, <1>9 DEF Next, RedirectNext

(***************************************************************************)
(* Cache, pool, Redis and the order of awaits do not show: a redirect is   *)
(* one atomic look at the links that are live, and owes one click.         *)
(***************************************************************************)
THEOREM RedirectRefinesIdealRedirect == Spec => RefinesIdealRedirect
<1>1. CacheInv /\ [Next]_redirectVars => [Ideal!Next]_(Ideal!vars)
  BY StepMaps DEF mapped, Ideal!vars
<1> QED
  BY <1>1, InitMaps, CacheInvHolds, PTL DEF Spec, RefinesIdealRedirect, Ideal!Spec

-----------------------------------------------------------------------------
(* Clicks.                                                                 *)

Counted(c) == {v \in Redirected(c) : click[v] = "counted"}

\* Counter and events both say how many clicks of a code were counted, and each
\* event is of one of them.
CountIsCounted ==
    \A c \in Codes :
        /\ count[c] = Cardinality(Counted(c)) /\ count[c] = Cardinality(events[c])
        /\ IsFiniteSet(events[c]) /\ \A e \in events[c] : e.of \in Counted(c)

ClickInv == Typed /\ CountIsCounted

\* A click of a code is counted, due, or dropped.
LEMMA ClicksPartition ==
    ASSUME Typed, NEW c \in Codes
    PROVE  Cardinality(Redirected(c)) =
             Cardinality(Counted(c)) + Cardinality(Due(c)) + Cardinality(Dropped(c))
<1> DEFINE counted == Counted(c)
           due == Due(c)
           dropped == Dropped(c)
           other == due \cup dropped
<1>1. Redirected(c) \in SUBSET Visits
  BY DEF Redirected
<1>2. /\ counted \in SUBSET Visits /\ due \in SUBSET Visits /\ dropped \in SUBSET Visits
      /\ other \in SUBSET Visits
  BY DEF Counted, Due, Dropped, Redirected
<1>3. /\ IsFiniteSet(counted) /\ IsFiniteSet(due) /\ IsFiniteSet(dropped)
      /\ IsFiniteSet(other)
  BY <1>2, FS_Subset, Limits
<1>4. /\ due \cap dropped = {} /\ counted \cap other = {}
      /\ Redirected(c) = counted \cup other
  BY DEF Counted, Due, Dropped, Redirected, ClickInFlight, Typed, ClicksTyped,
         ClicksFollowRedirects
<1> HIDE DEF counted, due, dropped, other
<1>5. /\ Cardinality(counted) \in Nat /\ Cardinality(due) \in Nat
      /\ Cardinality(dropped) \in Nat /\ Cardinality(other) \in Nat
  BY <1>3, FS_CardinalityType
<1>6. Cardinality(other) = Cardinality(due) + Cardinality(dropped)
  <2>1. Cardinality(due \cup dropped) =
          Cardinality(due) + Cardinality(dropped) - Cardinality(due \cap dropped)
    BY <1>3, FS_Union
  <2>2. Cardinality(due \cap dropped) = 0
    BY <1>4, FS_EmptySet
  <2> QED
    BY <1>5, <2>1, <2>2 DEF other
<1>7. Cardinality(Redirected(c)) = Cardinality(counted) + Cardinality(other)
  <2>1. Cardinality(counted \cup other) =
          Cardinality(counted) + Cardinality(other) - Cardinality(counted \cap other)
    BY <1>3, FS_Union
  <2>2. Cardinality(counted \cap other) = 0
    BY <1>4, FS_EmptySet
  <2> QED
    BY <1>4, <1>5, <2>1, <2>2
<1>8. Cardinality(Redirected(c)) = Cardinality(counted) + Cardinality(due) + Cardinality(dropped)
  BY <1>5, <1>6, <1>7
<1> QED
  BY <1>8 DEF counted, due, dropped

LEMMA ClickInvAccounts == ClickInv => ClicksAccountedFor
<1> SUFFICES ASSUME ClickInv, NEW c \in Codes
             PROVE  /\ count[c] = Cardinality(events[c])
                    /\ count[c] + Cardinality(Due(c)) + Cardinality(Dropped(c))
                         = Cardinality(Redirected(c))
  BY DEF ClicksAccountedFor
<1>1. count[c] = Cardinality(Counted(c)) /\ count[c] = Cardinality(events[c])
  BY DEF ClickInv, CountIsCounted
<1>2. Cardinality(Redirected(c)) =
        Cardinality(Counted(c)) + Cardinality(Due(c)) + Cardinality(Dropped(c))
  BY ClicksPartition DEF ClickInv
<1> QED
  BY <1>1, <1>2

LEMMA InitClickInv == Init => ClickInv
<1> SUFFICES ASSUME Init PROVE ClickInv
  OBVIOUS
<1>1. \A c \in Codes : Counted(c) = {}
  BY DEF Init, RedirectInit, Counted, Redirected
<1> QED
  BY <1>1, InitTyped, FS_EmptySet DEF ClickInv, CountIsCounted, Init, RedirectInit

\* Steps that count no click.
LEMMA CountKept ==
    ASSUME ClickInv, Typed', UNCHANGED <<count, events>>,
           \A c \in Codes : Counted(c)' = Counted(c)
    PROVE  ClickInv'
BY DEF ClickInv, CountIsCounted

LEMMA CommitCountsOne ==
    ASSUME ClickInv, Typed', NEW v \in Visits, CommitClick(v)
    PROVE  ClickInv'
<1>0. /\ click[v] = "commit" /\ click' = [click EXCEPT ![v] = "counted"]
      /\ DOMAIN click = Visits
      /\ UNCHANGED <<visit, target>>
      /\ count \in [Codes -> Nat] /\ events \in [Codes -> SUBSET ClickEvent]
      /\ visit[v] = "302" /\ target[v] \in Codes
  BY DEF ClickInv, Typed, ClicksTyped, CommitClick, visits, ClicksFollowRedirects,
         VisitsHaveTargets
<1>1. PICK f \in Referrers :
        events' = [events EXCEPT ![target[v]] = events[target[v]] \cup {[of |-> v, referrer |-> f]}]
  BY DEF CommitClick
<1> DEFINE event == [of |-> v, referrer |-> f]
<1>2. ASSUME NEW c \in Codes
      PROVE  /\ count'[c] = Cardinality(Counted(c)') /\ count'[c] = Cardinality(events'[c])
             /\ IsFiniteSet(events'[c]) /\ \A e \in events'[c] : e.of \in Counted(c)'
  <2> DEFINE before == Counted(c)
             after == Counted(c)'
  <2>1. /\ count[c] = Cardinality(before) /\ count[c] = Cardinality(events[c])
        /\ count[c] \in Nat /\ IsFiniteSet(events[c])
        /\ \A e \in events[c] : e.of \in before
    BY <1>0 DEF ClickInv, CountIsCounted
  <2>2. before \in SUBSET Visits
    BY DEF Counted, Redirected
  <2>3. IsFiniteSet(before)
    BY <2>2, FS_Subset, Limits
  <2>4. CASE c = target[v]
    <3>1. v \notin before /\ after = before \cup {v}
      BY <1>0, <2>4 DEF Counted, Redirected
    <3>2. event \notin events[c] /\ events'[c] = events[c] \cup {event}
      BY <1>0, <1>1, <2>1, <2>4, <3>1
    <3>3. count'[c] = count[c] + 1
      BY <1>0, <2>4 DEF CommitClick
    <3>4. \A e \in events'[c] : e.of \in after
      BY <2>1, <3>1, <3>2
    <3> HIDE DEF before, after, event
    <3>5. Cardinality(after) = Cardinality(before) + 1
      BY <2>3, <3>1, FS_AddElement
    <3>6. /\ Cardinality(events'[c]) = Cardinality(events[c]) + 1
          /\ IsFiniteSet(events'[c])
      BY <2>1, <3>2, FS_AddElement
    <3>7. count'[c] = Cardinality(after) /\ count'[c] = Cardinality(events'[c])
      BY <2>1, <3>3, <3>5, <3>6
    <3> QED
      BY <3>4, <3>6, <3>7 DEF after
  <2>5. CASE c # target[v]
    <3>1. after = before
      BY <1>0, <2>5 DEF Counted, Redirected
    <3>2. count'[c] = count[c] /\ events'[c] = events[c]
      BY <1>0, <1>1, <2>5 DEF CommitClick
    <3> QED
      BY <2>1, <3>1, <3>2
  <2> QED
    BY <2>4, <2>5
<1> QED
  BY <1>2 DEF ClickInv, CountIsCounted

LEMMA StepClickInv == ClickInv /\ [Next]_redirectVars => ClickInv'
<1> SUFFICES ASSUME ClickInv, [Next]_redirectVars PROVE ClickInv'
  OBVIOUS
<1>0. /\ Typed' /\ visit \in [Visits -> Places] /\ DOMAIN click = Visits
      /\ DOMAIN target = Visits
      /\ \A v \in Visits : visit[v] = "302" <=> click[v] # "none"
  BY StepTyped DEF ClickInv, Typed, VisitsTyped, ClicksTyped, ClicksFollowRedirects
<1>1. ASSUME NEW v \in Visits,
             \/ Arrive(v) \/ VisitStep(v) \/ VisitDbError(v) \/ VisitPoolTimeout(v)
             \/ OpenTask(v) \/ LockRow(v) \/ ClickFails(v)
      PROVE  ClickInv'
  <2>1. UNCHANGED <<count, events>>
    BY <1>1 DEF Arrive, VisitStep, CacheGet, CacheGetFails, Lookup, NotFound, CacheFill,
                CacheFillFails, Close, RollBack, VisitDbError, VisitPoolTimeout, OpenTask,
                LockRow, ClickFails, clicks
  <2>2. \A w \in Visits :
          (visit'[w] = "302" /\ click'[w] = "counted")
            <=> (visit[w] = "302" /\ click[w] = "counted")
    BY <1>0, <1>1 DEF Arrive, VisitStep, CacheGet, CacheGetFails, Lookup, NotFound, CacheFill,
                CacheFillFails, Close, RollBack, VisitDbError, VisitPoolTimeout, OpenTask,
                LockRow, ClickFails, clicks, visits, Goto
  <2>3. \A w \in Visits : visit[w] = "302" => target'[w] = target[w]
    BY <1>0, <1>1 DEF Arrive, VisitStep, CacheGet, CacheGetFails, Lookup, NotFound, CacheFill,
                CacheFillFails, Close, RollBack, VisitDbError, VisitPoolTimeout, OpenTask,
                LockRow, ClickFails, visits
  <2>4. \A c \in Codes : Counted(c)' = Counted(c)
    BY <2>2, <2>3 DEF Counted, Redirected
  <2> QED
    BY <1>0, <2>1, <2>4, CountKept
<1>2. ASSUME NEW v \in Visits, CommitClick(v) PROVE ClickInv'
  BY <1>0, <1>2, CommitCountsOne
<1>3. ASSUME UNCHANGED <<visit, target, click, count, events>> PROVE ClickInv'
  BY <1>0, <1>3, CountKept DEF Counted, Redirected
<1>4. ASSUME NEW s \in Readers, AskReport(s) \/ ReaderStep(s) \/ ReaderFails(s)
      PROVE  ClickInv'
  BY <1>3, <1>4 DEF AskReport, ReaderStep, ReadUrl, ReadRecent, ReadTop, ReaderFails,
     visits, clicks
<1>5. ASSUME NEW c \in Codes, CacheExpire(c) PROVE ClickInv'
  BY <1>3, <1>5 DEF CacheExpire, visits, clicks
<1>6. ASSUME NEW state \in RedisStates, RedisBecomes(state) PROVE ClickInv'
  BY <1>3, <1>6 DEF RedisBecomes, visits, clicks
<1>7. ASSUME Crash PROVE ClickInv'
  <2>1. \A c \in Codes : Counted(c)' = Counted(c)
    BY <1>0, <1>7 DEF Crash, RedirectCrash, Counted, Redirected, VisitInFlight, ClickInFlight
  <2> QED
    BY <1>0, <1>7, <2>1, CountKept DEF Crash, RedirectCrash
<1>8. ASSUME (Tick /\ UNCHANGED redirectOnly) \/ UNCHANGED redirectVars PROVE ClickInv'
  BY <1>3, <1>8 DEF redirectOnly, redirectVars
<1> QED
  BY <1>1, <1>2, <1>4, <1>5, <1>6, <1>7, <1>8 DEF Next, RedirectNext, ClickStep

(***************************************************************************)
(* Counter and events agree, and account for every redirect: its click is  *)
(* counted once, still due, or dropped by a failure.                       *)
(***************************************************************************)
THEOREM ClicksAreAccountedFor == Spec => []ClicksAccountedFor
BY InitClickInv, StepClickInv, ClickInvAccounts, PTL DEF Spec

NoneDropped == \A v \in Visits : click[v] # "dropped"

\* What drops a click uses up a failure, or takes a Redis that hangs.
LEMMA StepNoneDropped ==
    ASSUME MaxFaults = 0, "hung" \notin RedisStates, Typed, NoneDropped, [Next]_redirectVars
    PROVE  NoneDropped'
<1>0. click \in [Visits -> {"none", "queued", "updating", "commit", "counted", "dropped"}]
  BY DEF Typed, ClicksTyped
<1>1. ~Fault /\ ~Late
  BY DEF Typed, StoreTyped, Fault, Late, Stalled
<1>2. CASE UNCHANGED click
  BY <1>2 DEF NoneDropped
<1>3. ASSUME NEW v \in Visits, NEW stage \in {"queued", "updating", "commit", "counted"},
             click' = [click EXCEPT ![v] = stage]
      PROVE  NoneDropped'
  BY <1>0, <1>3 DEF NoneDropped
<1>4. ASSUME NEW v \in Visits, VisitStep(v) \/ ClickStep(v) \/ Arrive(v)
      PROVE  NoneDropped'
  BY <1>2, <1>3, <1>4 DEF VisitStep, CacheGet, CacheGetFails, Lookup, NotFound, CacheFill,
     CacheFillFails, Close, RollBack, ClickStep, OpenTask, LockRow, CommitClick, Arrive, clicks
<1>5. ASSUME NEW s \in Readers, AskReport(s) \/ ReaderStep(s)
      PROVE  UNCHANGED click
  BY <1>5 DEF AskReport, ReaderStep, ReadUrl, ReadRecent, ReadTop, clicks
<1>6. /\ \A v \in Visits : ~VisitDbError(v) /\ ~VisitPoolTimeout(v) /\ ~ClickFails(v)
      /\ \A s \in Readers : ~ReaderFails(s)
      /\ ~Crash
  BY <1>1 DEF VisitDbError, VisitPoolTimeout, ClickFails, ReaderFails, Crash
<1>7. ASSUME (\E c \in Codes : CacheExpire(c)) \/ (\E state \in RedisStates : RedisBecomes(state))
      PROVE  UNCHANGED click
  BY <1>7 DEF CacheExpire, RedisBecomes, clicks
<1>8. CASE (Tick /\ UNCHANGED redirectOnly) \/ UNCHANGED redirectVars
  BY <1>2, <1>8 DEF redirectOnly, redirectVars
<1> QED
  BY <1>2, <1>4, <1>5, <1>6, <1>7, <1>8 DEF Next, RedirectNext

(***************************************************************************)
(* Failures of the click's transaction and of the process, and a pool that *)
(* a hung Redis drains, are the only reasons why click_count falls behind  *)
(* the redirects: without any, it is their number whenever the background  *)
(* tasks are over, however often Redis refuses connections and however     *)
(* concurrent clicks, evictions and expiries interleave.                   *)
(***************************************************************************)
THEOREM ClicksMatchWithoutFailures ==
    ASSUME MaxFaults = 0, "hung" \notin RedisStates
    PROVE  Spec => []ClickCountMatchesRedirects
<1>1. Init => ClickInv /\ NoneDropped
  BY InitClickInv DEF Init, RedirectInit, NoneDropped
<1>2. ClickInv /\ NoneDropped /\ [Next]_redirectVars => (ClickInv /\ NoneDropped)'
  BY StepClickInv, StepNoneDropped DEF ClickInv
<1>3. ClickInv /\ NoneDropped => ClickCountMatchesRedirects
  <2> SUFFICES ASSUME ClickInv, NoneDropped, NEW c \in Codes, Due(c) = {}
               PROVE  count[c] = Cardinality(Redirected(c))
    BY DEF ClickCountMatchesRedirects
  <2>1. Cardinality(Due(c)) = 0 /\ Cardinality(Dropped(c)) = 0
    <3>1. Dropped(c) = {}
      BY DEF NoneDropped, Dropped, Redirected
    <3> QED
      BY <3>1, FS_EmptySet
  <2>2. /\ count[c] \in Nat
        /\ count[c] + Cardinality(Due(c)) + Cardinality(Dropped(c)) = Cardinality(Redirected(c))
    BY ClickInvAccounts DEF ClicksAccountedFor, ClickInv, Typed, ClicksTyped
  <2> QED
    BY <2>1, <2>2
<1> QED
  BY <1>1, <1>2, <1>3, PTL DEF Spec

-----------------------------------------------------------------------------
(* Reports.                                                                *)

\* A list of the most frequent referrers explains what was read before it.
LEMMA ListExplains ==
    ASSUME NEW clicked \in SUBSET ClickEvent, IsFiniteSet(clicked),
           NEW listed, MostFrequent(listed, clicked),
           NEW recent \in SUBSET clicked,
           NEW n \in Nat, n <= Cardinality(clicked)
    PROVE  /\ ReferrersOf(TopEvents(clicked, listed)) = listed
           /\ Cardinality(listed) < TopLimit =>
                /\ recent \subseteq TopEvents(clicked, listed)
                /\ n <= Cardinality(TopEvents(clicked, listed))
           /\ \A f \in listed, g \in Referrers : g = f \/ g \notin listed =>
                Cardinality(From(recent, g))
                  <= Cardinality(From(TopEvents(clicked, listed), f))
<1> DEFINE top == TopEvents(clicked, listed)
           all == ReferrersOf(clicked)
<1>1. ReferrersOf(top) = listed
  BY DEF MostFrequent, ReferrersOf, TopEvents
<1>2. IsFiniteSet(all)
  <2> DEFINE referrer == [e \in clicked |-> e.referrer]
  <2>1. referrer \in Surjection(clicked, all)
    BY DEF Surjection, ReferrersOf
  <2> QED
    BY <2>1, FS_Surjection
<1>3. ASSUME Cardinality(listed) < TopLimit
      PROVE  recent \subseteq top /\ n <= Cardinality(top)
  <2>1. Cardinality(all) \in Nat
    BY <1>2, FS_CardinalityType
  <2>2. listed \subseteq all /\ Cardinality(listed) = Cardinality(all)
    BY <1>3, <2>1, Limits DEF MostFrequent, Cut
  <2>3. listed = all
    BY <1>2, <2>2, FS_Subset
  <2>4. top = clicked
    BY <2>3 DEF TopEvents, ReferrersOf
  <2> QED
    BY <2>4
<1>4. ASSUME NEW f \in listed, NEW g \in Referrers, g = f \/ g \notin listed
      PROVE  Cardinality(From(recent, g)) <= Cardinality(From(top, f))
  <2>1. From(top, f) = From(clicked, f)
    BY <1>4 DEF From, TopEvents
  <2>2. From(recent, g) \in SUBSET From(clicked, g) /\ From(clicked, g) \in SUBSET clicked
        /\ From(clicked, f) \in SUBSET clicked
    BY DEF From
  <2>3. /\ Cardinality(From(recent, g)) \in Nat /\ Cardinality(From(clicked, g)) \in Nat
        /\ Cardinality(From(clicked, f)) \in Nat
        /\ Cardinality(From(recent, g)) <= Cardinality(From(clicked, g))
    <3>1. /\ IsFiniteSet(From(clicked, g)) /\ IsFiniteSet(From(clicked, f))
      BY <2>2, FS_Subset
    <3>2. /\ IsFiniteSet(From(recent, g))
          /\ Cardinality(From(recent, g)) <= Cardinality(From(clicked, g))
      BY <2>2, <3>1, FS_Subset
    <3> QED
      BY <3>1, <3>2, FS_CardinalityType
  <2>4. Cardinality(From(clicked, g)) <= Cardinality(From(clicked, f))
    <3>1. CASE g = f
      BY <2>3, <3>1
    <3>2. CASE g \in all \ listed
      BY <1>4, <3>2 DEF MostFrequent
    <3>3. CASE g \notin all
      <4>1. From(clicked, g) = {}
        BY <3>3 DEF From, ReferrersOf
      <4> QED
        BY <2>3, <4>1, FS_EmptySet
    <3> QED
      BY <1>4, <3>1, <3>2, <3>3
  <2> HIDE DEF top
  <2> QED
    BY <2>1, <2>3, <2>4
<1> QED
  BY <1>1, <1>3, <1>4

\* What a reader has read so far is explained by the events there are.
ExplainsRecent(s) ==
    Cardinality(report[s].recent) < RecentLimit =>
        report[s].count <= Cardinality(report[s].recent)

ExplainsTop(s) ==
    LET listed == ReferrersOf(report[s].top) IN
    /\ Cardinality(listed) < TopLimit =>
         /\ report[s].recent \subseteq report[s].top
         /\ report[s].count <= Cardinality(report[s].top)
    /\ \A f \in listed, g \in Referrers : g = f \/ g \notin listed =>
         Cardinality(From(report[s].recent, g)) <= Cardinality(From(report[s].top, f))

Explained(s) ==
    /\ reader[s] \in {"recent", "top"} =>
         report[s].count <= Cardinality(events[subject[s]])
    /\ reader[s] = "top" => report[s].recent \subseteq events[subject[s]]
    /\ reader[s] \in {"top", "200"} => ExplainsRecent(s)
    /\ reader[s] = "200" => ExplainsTop(s)

ReportInv == ClickInv /\ \A s \in Readers : Explained(s)

LEMMA ReportInvExplains == ReportInv => ReportNeverOverCounts
BY DEF ReportInv, Explained, ExplainsRecent, ExplainsTop, ReportNeverOverCounts

\* Events are only added, and nobody else touches a report.
LEMMA ReportsKept ==
    ASSUME ReportInv, ClickInv', UNCHANGED readers,
           \A c \in Codes : events[c] \subseteq events'[c]
    PROVE  ReportInv'
<1> SUFFICES ASSUME NEW s \in Readers PROVE Explained(s)'
  BY DEF ReportInv
<1>0. /\ Explained(s) /\ UNCHANGED <<reader[s], subject[s], report[s]>>
      /\ reader[s] # "idle" => subject[s] \in Codes
      /\ report[s].count \in Nat
  BY DEF ReportInv, readers, ClickInv, Typed, ReadersTyped, ReadersHaveSubjects, Reports
<1>1. ASSUME subject[s] \in Codes
      PROVE  /\ events[subject[s]] \subseteq events'[subject[s]]
             /\ report[s].count <= Cardinality(events[subject[s]]) =>
                  report[s].count <= Cardinality(events'[subject[s]])
  <2> DEFINE now == events[subject[s]]
             then == events'[subject[s]]
  <2>1. IsFiniteSet(then) /\ now \in SUBSET then
    BY <1>1 DEF ClickInv, CountIsCounted
  <2>2. IsFiniteSet(now) /\ Cardinality(now) <= Cardinality(then)
    BY <2>1, FS_Subset
  <2>3. Cardinality(now) \in Nat /\ Cardinality(then) \in Nat
    BY <2>1, <2>2, FS_CardinalityType
  <2> HIDE DEF now, then
  <2>4. report[s].count <= Cardinality(now) => report[s].count <= Cardinality(then)
    BY <1>0, <2>2, <2>3
  <2> QED
    BY <2>1, <2>4 DEF now, then
<1>2. ExplainsRecent(s)' = ExplainsRecent(s) /\ ExplainsTop(s)' = ExplainsTop(s)
  BY <1>0 DEF ExplainsRecent, ExplainsTop
<1> QED
  BY <1>0, <1>1, <1>2 DEF Explained

LEMMA ReaderExplained ==
    ASSUME ReportInv, ClickInv', NEW s \in Readers,
           AskReport(s) \/ ReaderStep(s) \/ ReaderFails(s)
    PROVE  ReportInv'
<1> DEFINE clicked == events[subject[s]]
<1>0. /\ events' = events /\ events \in [Codes -> SUBSET ClickEvent]
      /\ report \in [Readers -> Reports]
      /\ DOMAIN reader = Readers /\ DOMAIN subject = Readers
      /\ reader[s] # "idle" => subject[s] \in Codes
      /\ \A c \in Codes : count[c] = Cardinality(events[c]) /\ IsFiniteSet(events[c])
      /\ Explained(s)
  BY DEF ReportInv, ClickInv, Typed, ClicksTyped, ReadersTyped, ReadersHaveSubjects,
         CountIsCounted, AskReport, ReaderStep, ReadUrl, ReadRecent, ReadTop,
         ReaderFails, clicks
<1>1. ASSUME NEW w \in Readers, w # s PROVE Explained(w)'
  <2>1. reader'[w] = reader[w] /\ subject'[w] = subject[w] /\ report'[w] = report[w]
    BY <1>0, <1>1 DEF AskReport, ReaderStep, ReadUrl, ReadRecent, ReadTop, ReaderFails
  <2>2. ExplainsRecent(w)' = ExplainsRecent(w) /\ ExplainsTop(w)' = ExplainsTop(w)
    BY <2>1 DEF ExplainsRecent, ExplainsTop
  <2>3. Explained(w)
    BY <1>1 DEF ReportInv
  <2> QED
    BY <1>0, <2>1, <2>2, <2>3 DEF Explained
<1>2. CASE AskReport(s) \/ ReaderFails(s)
  <2>1. reader'[s] \in {"url", "500"}
    BY <1>0, <1>2 DEF AskReport, ReaderFails
  <2> QED
    BY <1>1, <2>1 DEF ReportInv, Explained
<1>3. CASE ReadUrl(s)
  <2>1. /\ reader'[s] \in {"recent", "404"} /\ subject'[s] = subject[s]
        /\ reader'[s] = "recent" => report'[s].count = count[subject[s]]
        /\ subject[s] \in Codes
    BY <1>0, <1>3 DEF ReadUrl, Reports
  <2>2. reader'[s] = "recent" => report'[s].count <= Cardinality(events'[subject'[s]])
    <3>1. count[subject[s]] \in Nat
      BY <2>1 DEF ReportInv, ClickInv, Typed, ClicksTyped
    <3> QED
      BY <1>0, <2>1, <3>1
  <2>3. Explained(s)'
    BY <2>1, <2>2 DEF Explained
  <2> QED
    BY <1>1, <2>3 DEF ReportInv
<1>4. CASE ReadRecent(s)
  <2>1. PICK latest \in SUBSET clicked :
          /\ Cardinality(latest) = Cut(Cardinality(clicked), RecentLimit)
          /\ report' = [report EXCEPT ![s].recent = latest]
    BY <1>4 DEF ReadRecent
  <2>2. /\ reader'[s] = "top" /\ subject'[s] = subject[s] /\ subject[s] \in Codes
        /\ report'[s].recent = latest /\ report'[s].count = report[s].count
        /\ report[s].count \in Nat /\ report[s].count <= Cardinality(clicked)
    BY <1>0, <1>4, <2>1 DEF ReadRecent, Reports, Explained
  <2>3. Cardinality(latest) < RecentLimit => report[s].count <= Cardinality(latest)
    <3>1. Cardinality(clicked) \in Nat
      BY <1>0, <2>2, FS_CardinalityType
    <3> QED
      BY <2>1, <2>2, <3>1, Limits DEF Cut
  <2>4. ExplainsRecent(s)'
    BY <2>2, <2>3 DEF ExplainsRecent
  <2>5. Explained(s)'
    BY <1>0, <2>2, <2>4 DEF Explained
  <2> QED
    BY <1>1, <2>5 DEF ReportInv
<1>5. CASE ReadTop(s)
  <2>1. PICK listed \in SUBSET Referrers :
          /\ MostFrequent(listed, clicked)
          /\ report' = [report EXCEPT ![s].top = TopEvents(clicked, listed)]
    BY <1>5 DEF ReadTop
  <2>2. /\ reader[s] = "top" /\ reader'[s] = "200" /\ subject[s] \in Codes
        /\ report'[s].top = TopEvents(clicked, listed)
        /\ report'[s].recent = report[s].recent /\ report'[s].count = report[s].count
        /\ report[s].count \in Nat
    BY <1>0, <1>5, <2>1 DEF ReadTop, Reports
  <2>3. /\ report[s].recent \in SUBSET clicked /\ report[s].count <= Cardinality(clicked)
        /\ ExplainsRecent(s) /\ clicked \in SUBSET ClickEvent /\ IsFiniteSet(clicked)
    BY <1>0, <2>2 DEF Explained
  <2>4. ExplainsRecent(s)'
    BY <2>2, <2>3 DEF ExplainsRecent
  <2>5. PICK all, recent, n : all = clicked /\ recent = report[s].recent /\ n = report[s].count
    OBVIOUS
  <2>6. ExplainsTop(s)'
    <3>1. /\ all \in SUBSET ClickEvent /\ IsFiniteSet(all) /\ MostFrequent(listed, all)
          /\ recent \in SUBSET all /\ n \in Nat /\ n <= Cardinality(all)
      BY <2>1, <2>2, <2>3, <2>5
    <3>2. /\ report'[s].top = TopEvents(all, listed)
          /\ report'[s].recent = recent /\ report'[s].count = n
      BY <2>2, <2>5
    <3> QED
      BY <3>1, <3>2, ListExplains DEF ExplainsTop
  <2>7. Explained(s)'
    BY <2>2, <2>4, <2>6 DEF Explained
  <2> QED
    BY <1>1, <2>7 DEF ReportInv
<1> QED
  BY <1>2, <1>3, <1>4, <1>5 DEF ReaderStep

LEMMA StepReportInv == ReportInv /\ [Next]_redirectVars => ReportInv'
<1> SUFFICES ASSUME ReportInv, [Next]_redirectVars PROVE ReportInv'
  OBVIOUS
<1>0. ClickInv' /\ events \in [Codes -> SUBSET ClickEvent]
  BY StepClickInv DEF ReportInv, ClickInv, Typed, ClicksTyped
<1>1. ASSUME UNCHANGED <<readers, events>> PROVE ReportInv'
  BY <1>0, <1>1, ReportsKept
<1>2. ASSUME NEW v \in Visits, CommitClick(v) PROVE ReportInv'
  BY <1>0, <1>2, ReportsKept DEF CommitClick
<1>3. ASSUME NEW v \in Visits,
             \/ Arrive(v) \/ VisitStep(v) \/ VisitDbError(v) \/ VisitPoolTimeout(v)
             \/ OpenTask(v) \/ LockRow(v) \/ ClickFails(v)
      PROVE  ReportInv'
  BY <1>1, <1>3 DEF Arrive, VisitStep, CacheGet, CacheGetFails, Lookup, NotFound, CacheFill,
     CacheFillFails, Close, RollBack, VisitDbError, VisitPoolTimeout, OpenTask, LockRow,
     ClickFails, clicks
<1>4. ASSUME NEW s \in Readers, AskReport(s) \/ ReaderStep(s) \/ ReaderFails(s)
      PROVE  ReportInv'
  BY <1>0, <1>4, ReaderExplained
<1>5. ASSUME NEW c \in Codes, CacheExpire(c) PROVE ReportInv'
  BY <1>1, <1>5 DEF CacheExpire, clicks
<1>6. ASSUME NEW state \in RedisStates, RedisBecomes(state) PROVE ReportInv'
  BY <1>1, <1>6 DEF RedisBecomes, clicks
<1>7. ASSUME Crash PROVE ReportInv'
  <2>1. /\ DOMAIN reader = Readers /\ UNCHANGED <<events, report, subject>>
        /\ \A s \in Readers : reader'[s] \notin {"recent", "top"}
                          /\ (reader'[s] = "200" => reader[s] = "200")
    BY <1>7 DEF ReportInv, ClickInv, Typed, ReadersTyped, Crash, RedirectCrash, ReaderInFlight
  <2> QED
    BY <1>0, <2>1 DEF ReportInv, Explained, ExplainsRecent, ExplainsTop
<1>8. ASSUME (Tick /\ UNCHANGED redirectOnly) \/ UNCHANGED redirectVars PROVE ReportInv'
  BY <1>1, <1>8 DEF redirectOnly, redirectVars, readers
<1> QED
  BY <1>2, <1>3, <1>4, <1>5, <1>6, <1>7, <1>8 DEF Next, RedirectNext, ClickStep

LEMMA InitReportInv == Init => ReportInv
BY InitClickInv DEF Init, RedirectInit, ReportInv, Explained

(***************************************************************************)
(* The three queries of a report may see different moments, but the later  *)
(* explain the earlier, as far as their limits let them: a list that is    *)
(* not cut off accounts for the whole count.                               *)
(***************************************************************************)
THEOREM ReportsNeverOverCount == Spec => []ReportNeverOverCounts
BY InitReportInv, StepReportInv, ReportInvExplains, PTL DEF Spec
=============================================================================
