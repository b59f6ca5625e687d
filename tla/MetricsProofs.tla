--------------------------- MODULE MetricsProofs ----------------------------
(***************************************************************************)
(* Proofs about Metrics, for every finite set of visits: the counters are  *)
(* only written, so that what RedirectProofs proves holds with them, and   *)
(* they add up with the responses.                                         *)
(***************************************************************************)
EXTENDS Metrics, RedirectProofs

-----------------------------------------------------------------------------
(* Counting changes nothing but the counters: every behaviour of Metrics   *)
(* is one of Redirect, and all that RedirectProofs says of it holds.       *)

LEMMA MeteredStep == [MeteredNext]_vars => [Next]_redirectVars
BY DEF MeteredNext, MeteredGet, MeteredGetFails, MeteredLookup, MeteredFill,
       MeteredAnswer, Uncounted, Counts, Next, RedirectNext, VisitStep, vars, redirectVars

LEMMA MeteringIsPassive == MeteredSpec => Spec
<1>1. MeteredInit => Init
  BY DEF MeteredInit
<1> QED
  BY <1>1, MeteredStep, PTL DEF MeteredSpec, Spec

-----------------------------------------------------------------------------
(* Visits at a place, counted as they move.                                *)

One(place, places) == IF place \in places THEN 1 ELSE 0

LEMMA AtIsNat == \A places : At(places) \in Nat
<1> SUFFICES ASSUME NEW places PROVE At(places) \in Nat
  OBVIOUS
<1>1. {v \in Visits : visit[v] \in places} \in SUBSET Visits
  OBVIOUS
<1> QED
  BY <1>1, FS_Subset, FS_CardinalityType, Limits DEF At

LEMMA AtMoves ==
    ASSUME visit \in [Visits -> Places], NEW v \in Visits, NEW from, NEW to,
           visit[v] = from, visit' = [visit EXCEPT ![v] = to]
    PROVE  \A places : At(places)' = At(places) - One(from, places) + One(to, places)
<1> SUFFICES ASSUME NEW places
             PROVE  At(places)' = At(places) - One(from, places) + One(to, places)
  OBVIOUS
<1> DEFINE before == {w \in Visits : visit[w] \in places}
           after == {w \in Visits : visit'[w] \in places}
<1>1. At(places) = Cardinality(before) /\ At(places)' = Cardinality(after)
  BY DEF At
<1>2. before \in SUBSET Visits
  OBVIOUS
<1>3. IsFiniteSet(before) /\ Cardinality(before) \in Nat
  BY <1>2, FS_Subset, FS_CardinalityType, Limits
<1>4. /\ from \in places /\ to \notin places => after = before \ {v} /\ v \in before
      /\ from \notin places /\ to \in places => after = before \cup {v} /\ v \notin before
      /\ (from \in places <=> to \in places) => after = before
  OBVIOUS
<1> HIDE DEF before, after
<1>5. CASE from \in places /\ to \notin places
  <2>1. Cardinality(before \ {v}) = Cardinality(before) - 1
    BY <1>3, <1>4, <1>5, FS_RemoveElement
  <2>2. At(places)' = Cardinality(before) - 1
    BY <1>1, <1>4, <1>5, <2>1
  <2>3. One(from, places) = 1 /\ One(to, places) = 0
    BY <1>5 DEF One
  <2> QED
    BY <1>1, <1>3, <2>2, <2>3
<1>6. CASE from \notin places /\ to \in places
  <2>1. Cardinality(before \cup {v}) = Cardinality(before) + 1
    BY <1>3, <1>4, <1>6, FS_AddElement
  <2> QED
    BY <1>1, <1>3, <1>4, <1>6, <2>1 DEF One
<1>7. CASE from \in places <=> to \in places
  BY <1>1, <1>3, <1>4, <1>7 DEF One
<1> QED
  BY <1>5, <1>6, <1>7

-----------------------------------------------------------------------------
(* The counters and the visits add up.                                     *)

Books ==
    /\ Typed
    /\ metric \in [Metric -> Nat]
    /\ RedirectsReconcile /\ LookupsReconcile
    /\ "hung" \notin RedisStates => RedisSparesRedirects

Nothing == {}

\* What a request may count when it goes from one place to the next.
Journal(from, to, counted) ==
    \/ from = "idle" /\ to = "cache" /\ counted = Nothing
    \/ from = "cache" /\ to = "lookup" /\ counted = {"miss"}
    \/ from = "cache" /\ to = "lookup" /\ counted = {"fallback_get"}
    \/ from = "cache" /\ to = "close" /\ counted = {"hit", "success"}
    \/ from = "lookup" /\ to = "fill" /\ counted = Nothing
    \/ from = "lookup" /\ to = "close" /\ counted = {"success"}
    \/ from = "lookup" /\ to = "absent" /\ counted = {"not_found"}
    \/ from = "lookup" /\ to = "outdated" /\ counted = {"expired"}
    \/ from = "absent" /\ to = "404" /\ counted = {"404"}
    \/ from = "outdated" /\ to = "expired" /\ counted = {"404"}
    \/ from = "fill" /\ to = "close" /\ counted = {"success"}
    \/ from = "fill" /\ to = "close" /\ counted = {"fallback_set", "success"}
    \/ from = "close" /\ to = "302" /\ counted = {"302"}
    \/ from \in {"lookup", "close", "absent", "outdated"} /\ to = "500" /\ counted = {"500"}

LEMMA JournalKeepsBooks ==
    ASSUME Books, Typed', NEW v \in Visits, NEW from, NEW to, NEW counted,
           Journal(from, to, counted),
           visit[v] = from, visit' = [visit EXCEPT ![v] = to],
           metric' = [m \in Metric |-> IF m \in counted THEN metric[m] + 1 ELSE metric[m]],
           IF to = "500" THEN Late ELSE faults' = faults
    PROVE  Books'
<1> DEFINE closing == At({"close"})
           refusing == At({"absent", "outdated"})
           leading == At({"close"} \cup {"absent", "outdated"})
           looked == At({"lookup", "fill", "close", "absent", "outdated"})
           broken == At({"500"})
<1>1. /\ closing' = closing - One(from, {"close"}) + One(to, {"close"})
      /\ refusing' = refusing - One(from, {"absent", "outdated"})
                       + One(to, {"absent", "outdated"})
      /\ leading' = leading - One(from, {"close"} \cup {"absent", "outdated"})
                      + One(to, {"close"} \cup {"absent", "outdated"})
      /\ looked' = looked - One(from, {"lookup", "fill", "close", "absent", "outdated"})
                     + One(to, {"lookup", "fill", "close", "absent", "outdated"})
      /\ broken' = broken - One(from, {"500"}) + One(to, {"500"})
  <2>1. \A places : At(places)' = At(places) - One(from, places) + One(to, places)
    <3>1. visit \in [Visits -> Places]
      BY DEF Books, Typed, VisitsTyped
    <3> QED
      BY <3>1, AtMoves
  <2> QED
    BY <2>1
<1>2. /\ closing \in Nat /\ refusing \in Nat /\ leading \in Nat
      /\ looked \in Nat /\ broken \in Nat
  BY AtIsNat
<1>3. /\ metric["302"] + closing <= metric["success"]
      /\ metric["404"] + refusing <= metric["not_found"] + metric["expired"]
      /\ metric["success"] + (metric["not_found"] + metric["expired"])
           <= metric["302"] + metric["404"] + metric["500"] + leading
      /\ metric["hit"] + metric["miss"] + metric["fallback_get"]
           = metric["302"] + metric["404"] + metric["500"] + looked
      /\ "hung" \notin RedisStates /\ faults = MaxFaults => broken = 0 /\ metric["500"] = 0
  BY DEF Books, RedirectsReconcile, LookupsReconcile, RedisSparesRedirects
<1>4. \A m \in Metric : metric[m] \in Nat
  BY DEF Books
<1>5. metric' \in [Metric -> Nat]
  BY <1>4
<1>6. \A m \in Metric : metric'[m] = IF m \in counted THEN metric[m] + 1 ELSE metric[m]
  OBVIOUS
<1>7. faults \in 0 .. MaxFaults /\ MaxFaults \in Nat
  BY Instance DEF Books, Typed, StoreTyped
<1>s. "hung" \notin RedisStates => ~Stalled
  BY DEF Books, Typed, StoreTyped, Stalled
<1> HIDE DEF closing, refusing, leading, looked, broken
<1>8. /\ metric'["302"] + closing' <= metric'["success"]
      /\ metric'["404"] + refusing' <= metric'["not_found"] + metric'["expired"]
      /\ metric'["success"] + (metric'["not_found"] + metric'["expired"])
           <= metric'["302"] + metric'["404"] + metric'["500"] + leading'
  <2>1. /\ closing' = closing - (IF from = "close" THEN 1 ELSE 0)
                      + (IF to = "close" THEN 1 ELSE 0)
        /\ refusing' = refusing - (IF from \in {"absent", "outdated"} THEN 1 ELSE 0)
                       + (IF to \in {"absent", "outdated"} THEN 1 ELSE 0)
        /\ leading' = leading - (IF from \in {"close", "absent", "outdated"} THEN 1 ELSE 0)
                      + (IF to \in {"close", "absent", "outdated"} THEN 1 ELSE 0)
    BY <1>1 DEF One
  <2>2. \A m \in {"302", "404", "500", "success", "not_found", "expired"} :
          /\ metric[m] \in Nat
          /\ metric'[m] = metric[m] + (IF m \in counted THEN 1 ELSE 0)
    BY <1>4, <1>6 DEF Metric
  <2> QED
    BY <1>2, <1>3, <2>1, <2>2 DEF Journal, Nothing
<1>9. metric'["hit"] + metric'["miss"] + metric'["fallback_get"]
        = metric'["302"] + metric'["404"] + metric'["500"] + looked'
  <2>1. looked' = looked
          - (IF from \in {"lookup", "fill", "close", "absent", "outdated"} THEN 1 ELSE 0)
          + (IF to \in {"lookup", "fill", "close", "absent", "outdated"} THEN 1 ELSE 0)
    BY <1>1 DEF One
  <2>2. \A m \in {"302", "404", "500", "hit", "miss", "fallback_get"} :
          /\ metric[m] \in Nat
          /\ metric'[m] = metric[m] + (IF m \in counted THEN 1 ELSE 0)
    BY <1>4, <1>6 DEF Metric
  <2> QED
    BY <1>2, <1>3, <2>1, <2>2 DEF Journal, Nothing
<1>10. "hung" \notin RedisStates /\ faults' = MaxFaults => broken' = 0 /\ metric'["500"] = 0
  BY <1>1, <1>2, <1>3, <1>4, <1>6, <1>7, <1>s
     DEF Journal, Nothing, One, Metric, Fault, Late
<1> QED
  BY <1>5, <1>8, <1>9, <1>10
     DEF Books, RedirectsReconcile, LookupsReconcile, RedisSparesRedirects,
         closing, refusing, leading, looked, broken

LEMMA InitBooks == MeteredInit => Books
<1> SUFFICES ASSUME MeteredInit PROVE Books
  OBVIOUS
<1>1. \A places : "idle" \notin places => At(places) = 0
  <2> SUFFICES ASSUME NEW places, "idle" \notin places PROVE At(places) = 0
    OBVIOUS
  <2>1. {v \in Visits : visit[v] \in places} = {}
    BY DEF MeteredInit, Init, RedirectInit
  <2> QED
    BY <2>1, FS_EmptySet DEF At
<1>2. /\ At({"close"}) = 0 /\ At({"absent", "outdated"}) = 0
      /\ At({"close"} \cup {"absent", "outdated"}) = 0
      /\ At({"lookup", "fill", "close", "absent", "outdated"}) = 0 /\ At({"500"}) = 0
  BY <1>1
<1>3. metric = [m \in Metric |-> 0]
  BY DEF MeteredInit
<1> QED
  BY <1>2, <1>3, InitTyped
     DEF MeteredInit, Books, Metric, RedirectsReconcile, LookupsReconcile, RedisSparesRedirects

\* Steps that neither move a visit nor count.
LEMMA BooksUntouched ==
    ASSUME Books, Typed', UNCHANGED <<visit, metric>>, faults' = faults \/ Fault
    PROVE  Books'
<1>1. \A places : At(places)' = At(places)
  BY DEF At
<1>2. /\ At({"close"})' = At({"close"}) /\ At({"500"})' = At({"500"})
      /\ At({"absent", "outdated"})' = At({"absent", "outdated"})
      /\ At({"close"} \cup {"absent", "outdated"})' = At({"close"} \cup {"absent", "outdated"})
      /\ At({"lookup", "fill", "close", "absent", "outdated"})'
           = At({"lookup", "fill", "close", "absent", "outdated"})
  BY <1>1
<1>3. faults' = MaxFaults => faults = MaxFaults
  BY Instance DEF Books, Typed, StoreTyped, Fault
<1> QED
  BY <1>2, <1>3 DEF Books, RedirectsReconcile, LookupsReconcile, RedisSparesRedirects

LEMMA CrashBooks ==
    ASSUME Books, Typed', Crash, metric' = [m \in Metric |-> 0]
    PROVE  Books'
<1>1. \A places : places \subseteq {"lookup", "fill", "close", "absent", "outdated"} =>
        At(places)' = 0
  <2> SUFFICES ASSUME NEW places,
                      places \subseteq {"lookup", "fill", "close", "absent", "outdated"}
               PROVE  At(places)' = 0
    OBVIOUS
  <2>1. {v \in Visits : visit'[v] \in places} = {}
    BY DEF Crash, RedirectCrash, VisitInFlight
  <2> QED
    BY <2>1, FS_EmptySet DEF At
<1>3. /\ At({"close"})' = 0 /\ At({"absent", "outdated"})' = 0
      /\ At({"close"} \cup {"absent", "outdated"})' = 0
      /\ At({"lookup", "fill", "close", "absent", "outdated"})' = 0
  BY <1>1
<1>4. faults' # MaxFaults
  BY Instance DEF Books, Typed, StoreTyped, Crash, Fault
<1> QED
  BY <1>3, <1>4 DEF Books, Metric, RedirectsReconcile, LookupsReconcile, RedisSparesRedirects

LEMMA StepBooks == Books /\ [MeteredNext]_vars => Books'
<1> SUFFICES ASSUME Books, [MeteredNext]_vars PROVE Books'
  OBVIOUS
<1>0. /\ Typed /\ Typed' /\ visit \in [Visits -> Places]
      /\ found \in [Visits -> LongUrls \cup {Miss}]
  BY MeteredStep, StepTyped DEF Books, Typed, VisitsTyped
<1>1. ASSUME NEW v \in Visits, MeteredGet(v) PROVE Books'
  <2>1. /\ visit[v] = "cache" /\ faults' = faults /\ found'[v] = cache[target[v]]
        /\ visit' = [visit EXCEPT ![v] = IF found'[v] # Miss THEN "close" ELSE "lookup"]
    BY <1>0, <1>1 DEF MeteredGet, Counts, CacheGet, Goto, database
  <2>2. CASE found'[v] = Miss
    <3>1. /\ visit' = [visit EXCEPT ![v] = "lookup"]
          /\ metric' = [m \in Metric |-> IF m \in {"miss"} THEN metric[m] + 1 ELSE metric[m]]
      BY <1>1, <2>1, <2>2 DEF MeteredGet, Counts
    <3> QED
      BY <1>0, <2>1, <3>1, JournalKeepsBooks DEF Journal
  <2>3. CASE found'[v] # Miss
    <3>1. /\ visit' = [visit EXCEPT ![v] = "close"]
          /\ metric' = [m \in Metric |->
                          IF m \in {"hit", "success"} THEN metric[m] + 1 ELSE metric[m]]
      BY <1>1, <2>1, <2>3 DEF MeteredGet, Counts
    <3> QED
      BY <1>0, <2>1, <3>1, JournalKeepsBooks DEF Journal
  <2> QED
    BY <2>2, <2>3
<1>2. ASSUME NEW v \in Visits, MeteredGetFails(v) PROVE Books'
  <2>1. /\ visit[v] = "cache" /\ faults' = faults /\ visit' = [visit EXCEPT ![v] = "lookup"]
        /\ metric' = [m \in Metric |->
                        IF m \in {"fallback_get"} THEN metric[m] + 1 ELSE metric[m]]
    BY <1>2 DEF MeteredGetFails, Counts, CacheGetFails, Goto, database
  <2> QED
    BY <1>0, <2>1, JournalKeepsBooks DEF Journal
<1>3. ASSUME NEW v \in Visits, MeteredLookup(v) PROVE Books'
  <2>1. visit[v] = "lookup" /\ faults' = faults
    BY <1>3 DEF MeteredLookup, Counts, Lookup, NotFound
  <2>2. \A place : visit' = [visit EXCEPT ![v] = place] => visit'[v] = place
    BY <1>0
  <2>3. CASE /\ Lookup(v)
             /\ metric' = [m \in Metric |->
                             IF m \in (IF visit'[v] = "fill" THEN {} ELSE {"success"})
                               THEN metric[m] + 1 ELSE metric[m]]
    <3>1. CASE visit' = [visit EXCEPT ![v] = "fill"]
      <4>1. metric' = [m \in Metric |-> IF m \in Nothing THEN metric[m] + 1 ELSE metric[m]]
        BY <2>2, <2>3, <3>1 DEF Nothing
      <4> QED
        BY <1>0, <2>1, <3>1, <4>1, JournalKeepsBooks DEF Journal
    <3>2. CASE visit' = [visit EXCEPT ![v] = "close"]
      <4>1. metric' = [m \in Metric |->
                         IF m \in {"success"} THEN metric[m] + 1 ELSE metric[m]]
        BY <2>2, <2>3, <3>2
      <4> QED
        BY <1>0, <2>1, <3>2, <4>1, JournalKeepsBooks DEF Journal
    <3> QED
      BY <2>3, <3>1, <3>2 DEF Lookup, Goto
  <2>4. CASE /\ NotFound(v)
             /\ metric' = [m \in Metric |->
                             IF m \in (IF visit'[v] = "absent" THEN {"not_found"}
                                                               ELSE {"expired"})
                               THEN metric[m] + 1 ELSE metric[m]]
    <3>1. CASE visit' = [visit EXCEPT ![v] = "absent"]
      <4>1. metric' = [m \in Metric |->
                         IF m \in {"not_found"} THEN metric[m] + 1 ELSE metric[m]]
        BY <2>2, <2>4, <3>1
      <4> QED
        BY <1>0, <2>1, <3>1, <4>1, JournalKeepsBooks DEF Journal
    <3>2. CASE visit' = [visit EXCEPT ![v] = "outdated"]
      <4>1. metric' = [m \in Metric |->
                         IF m \in {"expired"} THEN metric[m] + 1 ELSE metric[m]]
        BY <2>2, <2>4, <3>2
      <4> QED
        BY <1>0, <2>1, <3>2, <4>1, JournalKeepsBooks DEF Journal
    <3> QED
      BY <2>4, <3>1, <3>2 DEF NotFound, Goto
  <2> QED
    BY <1>3, <2>3, <2>4 DEF MeteredLookup, Counts
<1>4. ASSUME NEW v \in Visits, MeteredFill(v) PROVE Books'
  <2>1. visit[v] = "fill" /\ faults' = faults /\ visit' = [visit EXCEPT ![v] = "close"]
    BY <1>4 DEF MeteredFill, Counts, CacheFill, CacheFillFails, Goto, database
  <2>2. \/ metric' = [m \in Metric |-> IF m \in {"success"} THEN metric[m] + 1 ELSE metric[m]]
        \/ metric' = [m \in Metric |->
                        IF m \in {"fallback_set", "success"} THEN metric[m] + 1 ELSE metric[m]]
    BY <1>4 DEF MeteredFill, Counts
  <2> QED
    BY <1>0, <2>1, <2>2, JournalKeepsBooks DEF Journal
<1>5. ASSUME NEW v \in Visits, MeteredAnswer(v) PROVE Books'
  <2>1. CASE Counts(Close(v), {"302"})
    <3>1. /\ visit[v] = "close" /\ faults' = faults /\ visit' = [visit EXCEPT ![v] = "302"]
          /\ metric' = [m \in Metric |-> IF m \in {"302"} THEN metric[m] + 1 ELSE metric[m]]
      BY <2>1 DEF Counts, Close, Goto
    <3> QED
      BY <1>0, <3>1, JournalKeepsBooks DEF Journal
  <2>2. CASE Counts(VisitDbError(v) \/ VisitPoolTimeout(v), {"500"})
    <3>1. /\ visit[v] \in {"lookup", "close", "absent", "outdated"} /\ Late
          /\ visit' = [visit EXCEPT ![v] = "500"]
          /\ metric' = [m \in Metric |-> IF m \in {"500"} THEN metric[m] + 1 ELSE metric[m]]
      BY <2>2 DEF Counts, VisitDbError, VisitPoolTimeout, Late, Goto
    <3> QED
      BY <1>0, <3>1, JournalKeepsBooks DEF Journal
  <2>3. CASE Counts(RollBack(v), {"404"})
    <3>1. /\ visit[v] \in {"absent", "outdated"} /\ faults' = faults
          /\ metric' = [m \in Metric |-> IF m \in {"404"} THEN metric[m] + 1 ELSE metric[m]]
      BY <2>3 DEF Counts, RollBack
    <3>2. CASE visit[v] = "absent"
      <4>1. visit' = [visit EXCEPT ![v] = "404"]
        BY <2>3, <3>2 DEF Counts, RollBack, Goto
      <4> QED
        BY <1>0, <3>1, <3>2, <4>1, JournalKeepsBooks DEF Journal
    <3>3. CASE visit[v] = "outdated"
      <4>1. visit' = [visit EXCEPT ![v] = "expired"]
        BY <2>3, <3>3 DEF Counts, RollBack, Goto
      <4> QED
        BY <1>0, <3>1, <3>3, <4>1, JournalKeepsBooks DEF Journal
    <3> QED
      BY <3>1, <3>2, <3>3
  <2> QED
    BY <1>5, <2>1, <2>2, <2>3 DEF MeteredAnswer
<1>6. ASSUME Uncounted, UNCHANGED metric PROVE Books'
  <2>1. ASSUME NEW v \in Visits, Arrive(v) PROVE Books'
    <3>1. /\ visit[v] = "idle" /\ faults' = faults /\ visit' = [visit EXCEPT ![v] = "cache"]
          /\ metric' = [m \in Metric |-> IF m \in Nothing THEN metric[m] + 1 ELSE metric[m]]
      BY <1>6, <2>1 DEF Arrive, Goto, database, Books, Nothing
    <3> QED
      BY <1>0, <3>1, JournalKeepsBooks DEF Journal
  <2>2. (\E v \in Visits : ClickStep(v) \/ ClickFails(v)) => visit' = visit /\ (faults' = faults \/ Fault)
    BY DEF ClickStep, OpenTask, LockRow, CommitClick, ClickFails, Late, visits, database
  <2>3. (\E s \in Readers : AskReport(s) \/ ReaderStep(s) \/ ReaderFails(s))
          => visit' = visit /\ (faults' = faults \/ Fault)
    BY DEF AskReport, ReaderStep, ReadUrl, ReadRecent, ReadTop, ReaderFails, Late, visits, database
  <2>4. (\/ \E c \in Codes : CacheExpire(c)
         \/ \E state \in RedisStates : RedisBecomes(state)
         \/ Tick /\ UNCHANGED redirectOnly)
          => visit' = visit /\ faults' = faults
    BY DEF CacheExpire, RedisBecomes, Tick, redirectOnly, visits, database
  <2> QED
    BY <1>0, <1>6, <2>1, <2>2, <2>3, <2>4, BooksUntouched DEF Uncounted
<1>7. ASSUME Crash, metric' = [m \in Metric |-> 0] PROVE Books'
  BY <1>0, <1>7, CrashBooks
<1>8. ASSUME UNCHANGED vars PROVE Books'
  BY <1>0, <1>8, BooksUntouched DEF vars
<1> QED
  BY <1>1, <1>2, <1>3, <1>4, <1>5, <1>6, <1>7, <1>8 DEF MeteredNext

LEMMA BooksHold == MeteredSpec => []Books
BY InitBooks, StepBooks, PTL DEF MeteredSpec

(***************************************************************************)
(* redirect_total against the responses: its outcomes lead the responses   *)
(* by what is not committed or rolled back yet and by what then became a   *)
(* 500, and never fall behind, through restarts of the process.            *)
(***************************************************************************)
THEOREM RedirectsAlwaysReconcile == MeteredSpec => []RedirectsReconcile
<1>1. Books => RedirectsReconcile
  BY DEF Books
<1> QED
  BY <1>1, BooksHold, PTL

(***************************************************************************)
(* Hits, misses and fallbacks add up to the responses and the requests     *)
(* that are past the cache: every lookup is one of them only.              *)
(***************************************************************************)
THEOREM LookupsAlwaysReconcile == MeteredSpec => []LookupsReconcile
<1>1. Books => LookupsReconcile
  BY DEF Books
<1> QED
  BY <1>1, BooksHold, PTL

(***************************************************************************)
(* However often Redis refuses connections and comes back, no redirect     *)
(* becomes a 500 while Postgres, the pool and the process do not fail.  A  *)
(* Redis that hangs is left out: it drains the pool.                       *)
(***************************************************************************)
THEOREM RedisAlwaysSparesRedirects ==
    ASSUME "hung" \notin RedisStates
    PROVE  MeteredSpec => []RedisSparesRedirects
<1>1. Books => RedisSparesRedirects
  BY DEF Books
<1> QED
  BY <1>1, BooksHold, PTL
=============================================================================
