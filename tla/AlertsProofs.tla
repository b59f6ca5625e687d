---------------------------- MODULE AlertsProofs ----------------------------
(***************************************************************************)
(* Proofs about Alerts, for any operations and routes, any number of       *)
(* events, any windows of two samples and more, and any delay.             *)
(***************************************************************************)
EXTENDS Alerts, WellFoundedInduction, TLAPS

-----------------------------------------------------------------------------
(* The least of some ages.                                                 *)

LEMMA LeastOfAges ==
    ASSUME NEW ages \in SUBSET Nat, ages # {}
    PROVE  Least(ages) \in ages /\ \A other \in ages : Least(ages) <= other
<1> DEFINE R == OpToRel(<, Nat)
<1>1. \E x \in ages : \A y \in ages : ~ (<<y, x>> \in R)
  <2>1. IsWellFoundedOn(R, Nat)
    BY NatLessThanWellFounded
  <2> HIDE DEF R
  <2> QED
    BY <2>1, WFMin
<1>2. \A x, y \in Nat : <<y, x>> \notin R => x <= y
  BY DEF OpToRel
<1>3. \E x \in ages : \A y \in ages : x <= y
  BY <1>1, <1>2
<1> QED
  BY <1>3 DEF Least

-----------------------------------------------------------------------------
(* Types.                                                                  *)

\* A counter and the increments that are left make no more than there were.
BudgetKept == \A s \in Series : total[s] + budget <= MaxEvents

Typed == TypeOK /\ BudgetKept

LEMMA WindowsHold ==
    /\ Forever \in Nat /\ Forever >= 2 /\ 0 \in Ages /\ Forever \in Ages
    /\ \A a \in Alert : Window[a] \in Nat /\ Window[a] >= 2 /\ Window[a] <= Forever
    /\ \A age \in Ages : Older(age) \in Ages /\ Older(age) >= 1
    /\ "token_bucket" \in Series /\ SeriesOf("RedisFallbackActive") = Operations
BY Rules DEF Forever, Ages, Older, Alert, Series, SeriesOf

LEMMA RiseTyped ==
    ASSUME Typed, NEW a \in Alert
    PROVE  /\ {Older(rise[a])} \cup Risen(a) \in SUBSET Nat
           /\ Least({Older(rise[a])} \cup Risen(a)) \in {Older(rise[a])} \cup Risen(a)
           /\ \A age \in Risen(a) : Least({Older(rise[a])} \cup Risen(a)) <= age
           /\ {Older(rise[a])} \cup Risen(a) \subseteq Ages \ {0}
<1> DEFINE ages == {Older(rise[a])} \cup Risen(a)
<1>1. rise[a] \in Ages /\ \A s \in SeriesOf(a) : sample[s].age \in Ages
  BY DEF Typed, TypeOK, SeriesOf, Series
<1>2. ages \subseteq Ages \ {0}
  BY <1>1, WindowsHold DEF Risen, Ages
<1>3. ages \in SUBSET Nat /\ ages # {}
  BY <1>2 DEF Ages
<1> HIDE DEF ages
<1>4. Least(ages) \in ages /\ \A age \in ages : Least(ages) <= age
  BY <1>3, LeastOfAges
<1> QED
  BY <1>2, <1>3, <1>4 DEF ages

LEMMA InitTyped == Init => Typed
<1> SUFFICES ASSUME Init PROVE Typed
  OBVIOUS
<1> USE DEF Init
<1>1. /\ total \in [Series -> 0 .. MaxEvents] /\ budget \in 0 .. MaxEvents
      /\ \A s \in Series : total[s] + budget <= MaxEvents
  BY Rules
<1>2. sample \in [Series -> [value : 0 .. MaxEvents, age : Ages]]
  BY WindowsHold, Rules DEF NoSample
<1>3. /\ rise \in [Alert -> Ages] /\ latest \in [Alert -> Ages] /\ previous \in [Alert -> Ages]
      /\ pending \in [Alert -> 0 .. Hold + 1] /\ outage \in 0 .. Hold + 2
  BY WindowsHold, Rules
<1>4. redis_up \in BOOLEAN /\ refused \in BOOLEAN /\ events \subseteq Alert
  OBVIOUS
<1> QED
  BY <1>1, <1>2, <1>3, <1>4 DEF Typed, TypeOK, BudgetKept

LEMMA IncTyped ==
    ASSUME Typed, NEW s \in Series, Inc(s)
    PROVE  /\ total' \in [Series -> 0 .. MaxEvents] /\ budget' \in 0 .. MaxEvents
           /\ events' \subseteq Alert /\ BudgetKept'
<1>1. /\ \A t \in Series : total[t] \in Nat /\ total[t] + budget <= MaxEvents
      /\ budget \in 0 .. MaxEvents /\ MaxEvents \in Nat /\ events \subseteq Alert
  BY Rules DEF Typed, TypeOK, BudgetKept
<1>2. total' = [t \in Series |-> IF t = s THEN total[t] + 1 ELSE total[t]]
  BY DEF Typed, TypeOK, Inc
<1>3. budget > 0 /\ budget' = budget - 1
  BY DEF Inc
<1>4. \A t \in Series : total'[t] \in 0 .. MaxEvents /\ total'[t] + budget' <= MaxEvents
  BY <1>1, <1>2, <1>3
<1>5. total' \in [Series -> 0 .. MaxEvents]
  BY <1>2, <1>4
<1>6. events' \subseteq Alert
  BY <1>1 DEF Inc
<1> QED
  BY <1>1, <1>3, <1>4, <1>5, <1>6 DEF BudgetKept

LEMMA ScrapeTyped ==
    ASSUME Typed, ScrapeAndEvaluate
    PROVE  Typed'
<1> USE DEF Typed, TypeOK, BudgetKept, ScrapeAndEvaluate, app
<1>1. sample' \in [Series -> [value : 0 .. MaxEvents, age : Ages]]
  <2> SUFFICES ASSUME NEW s \in Series
               PROVE  sample'[s] \in [value : 0 .. MaxEvents, age : Ages]
    OBVIOUS
  <2>1. /\ total[s] \in 0 .. MaxEvents /\ sample[s] \in [value : 0 .. MaxEvents, age : Ages]
        /\ Older(sample[s].age) \in Ages /\ 0 \in Ages
    BY WindowsHold
  <2>2. sample'[s] = IF total[s] > 0 THEN [value |-> total[s], age |-> 0]
                                     ELSE [sample[s] EXCEPT !.age = Older(@)]
    OBVIOUS
  <2>3. [sample[s] EXCEPT !.age = Older(@)] \in [value : 0 .. MaxEvents, age : Ages]
    BY <2>1
  <2> QED
    BY <2>1, <2>2, <2>3
<1>2. rise' \in [Alert -> Ages]
  BY RiseTyped
<1>3. pending' \in [Alert -> 0 .. Hold + 1]
  BY Rules DEF Held
<1>4. latest' \in [Alert -> Ages] /\ previous' \in [Alert -> Ages]
  BY WindowsHold
<1>5. outage' \in 0 .. Hold + 2 /\ events' \subseteq Alert
  <2>1. outage \in 0 .. Hold + 2 /\ Hold \in Nat
    BY Rules
  <2>2. outage' = 0 \/ (outage < Hold + 2 /\ outage' = outage + 1) \/ outage' = outage
    OBVIOUS
  <2> QED
    BY <2>1, <2>2
<1>6. refused' \in BOOLEAN
  OBVIOUS
<1> QED
  BY <1>1, <1>2, <1>3, <1>4, <1>5, <1>6

LEMMA StepTyped == Typed /\ [Next]_vars => Typed'
<1> SUFFICES ASSUME Typed, [Next]_vars PROVE Typed'
  OBVIOUS
<1>1. ASSUME NEW op \in Operations, FallBack(op) PROVE Typed'
  <2>1. Inc(op) /\ op \in Series
    BY <1>1 DEF FallBack, Series
  <2>2. refused' \in BOOLEAN
    <3>1. refused \in BOOLEAN
      BY DEF Typed, TypeOK
    <3>2. refused' = (refused \/ op = "token_bucket")
      BY <1>1 DEF FallBack
    <3> QED
      BY <3>1, <3>2, Zenon
  <2> QED
    BY <1>1, <2>1, <2>2, IncTyped DEF FallBack, Typed, TypeOK, prometheus
<1>2. ASSUME NEW route \in Errors, ServerError(route) PROVE Typed'
  <2>1. Inc(route) /\ route \in Series
    BY <1>2 DEF ServerError, Series
  <2> QED
    BY <1>2, <2>1, IncTyped DEF ServerError, Typed, TypeOK, prometheus
<1>3. CASE RedisFlips
  BY <1>3 DEF RedisFlips, Typed, TypeOK, BudgetKept, prometheus, history
<1>4. CASE Restart
  <2>1. total' \in [Series -> 0 .. MaxEvents] /\ BudgetKept'
    BY <1>4, Rules DEF Restart, Typed, TypeOK, BudgetKept
  <2>2. outage' \in 0 .. Hold + 2
    BY <1>4, Rules DEF Restart
  <2>3. refused' \in BOOLEAN
    BY <1>4 DEF Restart
  <2> QED
    BY <1>4, <2>1, <2>2, <2>3 DEF Restart, Typed, TypeOK, prometheus
<1>5. CASE UNCHANGED vars
  BY <1>5 DEF vars, Typed, TypeOK, BudgetKept
<1> QED
  BY <1>1, <1>2, <1>3, <1>4, <1>5, ScrapeTyped DEF Next

(***************************************************************************)
(* The state is well typed: counters stay within the increments there are, *)
(* and no age, delay or outage is counted further than it is told apart.   *)
(***************************************************************************)
THEOREM TypeCorrect == Spec => []TypeOK
<1>1. Typed => TypeOK
  BY DEF Typed
<1> QED
  BY <1>1, InitTyped, StepTyped, PTL DEF Spec

-----------------------------------------------------------------------------
(* No false alarm.                                                         *)

\* Without an event since the last scrape, a series is as it was scraped, or gone.
Quiet ==
    \A a \in Alert, s \in Series :
        s \in SeriesOf(a) /\ a \notin events /\ total[s] > 0 => sample[s].value = total[s]

\* The pair of samples that differ has an event between its two.
RiseHasCause == \A a \in Alert : rise[a] >= latest[a] + 1 \/ rise[a] = Forever

PendingHasRise == \A a \in Alert : pending[a] > 0 => rise[a] < Window[a]

CauseInv == Typed /\ Quiet /\ RiseHasCause /\ PendingHasRise

LEMMA IncCause ==
    ASSUME CauseInv, Typed', NEW s \in Series, Inc(s), UNCHANGED <<sample, rise, pending, latest>>
    PROVE  CauseInv'
<1>1. /\ \A t \in Series : total'[t] = IF t = s THEN total[t] + 1 ELSE total[t]
      /\ events' = events \cup {a \in Alert : s \in SeriesOf(a)}
  BY DEF CauseInv, Typed, TypeOK, Inc
<1>2. Quiet'
  BY <1>1 DEF CauseInv, Quiet
<1> QED
  BY <1>2 DEF CauseInv, RiseHasCause, PendingHasRise

LEMMA ScrapeCause ==
    ASSUME CauseInv, Typed', ScrapeAndEvaluate
    PROVE  CauseInv'
<1>0. Typed /\ Quiet /\ RiseHasCause /\ PendingHasRise
  BY DEF CauseInv
<1>1. Quiet'
  <2>1. \A s \in Series : total[s] > 0 => sample'[s].value = total[s]
    BY DEF ScrapeAndEvaluate
  <2> QED
    BY <2>1 DEF Quiet, ScrapeAndEvaluate, app
<1>2. ASSUME NEW a \in Alert PROVE rise'[a] >= latest'[a] + 1 \/ rise'[a] = Forever
  <2>1. /\ rise'[a] \in {Older(rise[a])} \cup Risen(a) /\ rise'[a] \in Ages \ {0}
        /\ latest'[a] = IF a \in events THEN 0 ELSE Older(latest[a])
    BY <1>0, RiseTyped DEF ScrapeAndEvaluate
  <2>2. /\ rise[a] \in Ages /\ latest[a] \in Ages /\ Forever \in Nat
        /\ rise[a] >= latest[a] + 1 \/ rise[a] = Forever
    BY <1>0, WindowsHold DEF Typed, TypeOK, RiseHasCause
  <2>3. CASE a \in events
    BY <2>1, <2>2, <2>3 DEF Ages
  <2>4. CASE a \notin events
    <3>1. Risen(a) = {}
      BY <1>0, <2>4 DEF Quiet, Risen, SeriesOf, Series
    <3> QED
      BY <2>1, <2>2, <2>4, <3>1 DEF Ages, Older
  <2> QED
    BY <2>3, <2>4
<1>3. PendingHasRise'
  BY DEF PendingHasRise, ScrapeAndEvaluate, Held, RateIsPositive
<1> QED
  BY <1>1, <1>2, <1>3 DEF CauseInv, RiseHasCause

LEMMA StepCause == CauseInv /\ [Next]_vars => CauseInv'
<1> SUFFICES ASSUME CauseInv, [Next]_vars PROVE CauseInv'
  OBVIOUS
<1>0. Typed'
  BY StepTyped DEF CauseInv
<1>1. ASSUME NEW op \in Operations, FallBack(op) PROVE CauseInv'
  BY <1>0, <1>1, IncCause DEF FallBack, prometheus, Series
<1>2. ASSUME NEW route \in Errors, ServerError(route) PROVE CauseInv'
  BY <1>0, <1>2, IncCause DEF ServerError, prometheus, Series
<1>3. CASE RedisFlips \/ UNCHANGED vars
  BY <1>0, <1>3
     DEF RedisFlips, vars, prometheus, history, CauseInv, Quiet, RiseHasCause, PendingHasRise
<1>4. CASE Restart
  BY <1>0, <1>4 DEF Restart, prometheus, CauseInv, Quiet, RiseHasCause, PendingHasRise
<1> QED
  BY <1>0, <1>1, <1>2, <1>3, <1>4, ScrapeCause DEF Next

(***************************************************************************)
(* No false alarm: an alert that fires has had an event that its window    *)
(* still holds, whatever restarts have set its counters back.              *)
(***************************************************************************)
THEOREM AlertsHaveCauses == Spec => []AlertHasCause
<1>1. Init => CauseInv
  BY InitTyped DEF Init, CauseInv, Quiet, RiseHasCause, PendingHasRise
<1>2. CauseInv => AlertHasCause
  <2> SUFFICES ASSUME CauseInv, NEW a \in Alert, Firing(a)
               PROVE  latest[a] <= Window[a] - 2
    BY DEF AlertHasCause
  <2>1. pending[a] > 0
    BY Rules DEF Firing, CauseInv, Typed, TypeOK
  <2> QED
    BY <2>1, WindowsHold
       DEF CauseInv, RiseHasCause, PendingHasRise, Typed, TypeOK, Ages
<1> QED
  BY <1>1, <1>2, StepCause, PTL DEF Spec

-----------------------------------------------------------------------------
(* No missed outage.                                                       *)

\* The limiter's series in an outage: each refusal takes it past its sample.
OutageIsCounted ==
    /\ outage >= 1 => /\ sample["token_bucket"].age = 0
                      /\ sample["token_bucket"].value >= 1
                      /\ total["token_bucket"] >= sample["token_bucket"].value
    /\ refused => /\ total["token_bucket"] >= 1
                  /\ outage >= 1 => total["token_bucket"] > sample["token_bucket"].value

\* One interval of the outage may go to the first sample.
PendingFollows == pending["RedisFallbackActive"] >= outage - 1

OutageInv == Typed /\ OutageIsCounted /\ PendingFollows

LEMMA OutageTypes ==
    ASSUME Typed
    PROVE  /\ outage \in 0 .. Hold + 2 /\ Hold \in Nat
           /\ pending["RedisFallbackActive"] \in 0 .. Hold + 1
           /\ total["token_bucket"] \in Nat
           /\ sample["token_bucket"] \in [value : Nat, age : Ages]
BY WindowsHold, Rules DEF Typed, TypeOK, Alert

LEMMA ScrapeOutage ==
    ASSUME OutageInv, Typed', ScrapeAndEvaluate
    PROVE  OutageInv'
<1> DEFINE fallbacks == "RedisFallbackActive"
           series == "token_bucket"
<1>0. /\ Typed /\ OutageIsCounted /\ PendingFollows
      /\ fallbacks \in Alert /\ series \in Series /\ series \in SeriesOf(fallbacks)
  BY Rules DEF OutageInv, Alert, Series, SeriesOf
<1>1. /\ outage' = IF ~refused THEN 0 ELSE IF outage < Hold + 2 THEN outage + 1 ELSE outage
      /\ sample'[series] = IF total[series] > 0
                             THEN [value |-> total[series], age |-> 0]
                             ELSE [sample[series] EXCEPT !.age = Older(@)]
      /\ pending'[fallbacks] = Held(fallbacks)
      /\ rise'[fallbacks] = Least({Older(rise[fallbacks])} \cup Risen(fallbacks))
      /\ ~refused' /\ total' = total
  BY <1>0 DEF ScrapeAndEvaluate, app
<1>2. CASE ~refused
  <2>1. outage' = 0
    BY <1>1, <1>2
  <2>2. pending'[fallbacks] \in Nat
    BY OutageTypes, <1>0 DEF Typed, TypeOK
  <2> QED
    BY <1>1, <2>1, <2>2 DEF OutageInv, OutageIsCounted, PendingFollows
<1>3. CASE refused
  <2>1. total[series] >= 1 /\ sample'[series] = [value |-> total[series], age |-> 0]
    BY <1>0, <1>1, <1>3, OutageTypes DEF OutageIsCounted
  <2>2. OutageIsCounted'
    BY <1>1, <2>1, <1>0, OutageTypes DEF OutageIsCounted
  <2>3. ASSUME outage >= 1 PROVE RateIsPositive(fallbacks)
    <3>1. /\ sample[series].age = 0 /\ sample[series].value >= 1
          /\ total[series] > sample[series].value
      BY <1>0, <1>3, <2>3 DEF OutageIsCounted
    <3>2. Older(sample[series].age) \in Risen(fallbacks)
      BY <1>0, <2>1, <3>1, OutageTypes DEF Risen, NoSample
    <3>3. Older(sample[series].age) = 1
      BY <3>1, WindowsHold DEF Older
    <3>4. rise'[fallbacks] <= 1
      BY <1>0, <1>1, <3>2, <3>3, RiseTyped
    <3>5. rise'[fallbacks] \in Nat
      BY <1>0, WindowsHold DEF Typed, TypeOK, Ages
    <3> QED
      BY <1>0, <3>4, <3>5, WindowsHold DEF RateIsPositive
  <2>4. PendingFollows'
    <3>1. CASE outage = 0
      <4>1. pending'[fallbacks] \in Nat
        BY <1>0, OutageTypes DEF Typed, TypeOK
      <4> QED
        BY <1>1, <1>3, <3>1, <4>1 DEF PendingFollows
    <3>2. CASE outage >= 1
      <4>1. pending'[fallbacks] =
              IF pending[fallbacks] <= Hold THEN pending[fallbacks] + 1 ELSE pending[fallbacks]
        BY <1>1, <2>3, <3>2 DEF Held
      <4> QED
        BY <1>0, <1>1, <1>3, <4>1, OutageTypes DEF PendingFollows
    <3> QED
      BY <1>0, <3>1, <3>2, OutageTypes
  <2> QED
    BY <2>2, <2>4 DEF OutageInv
<1> QED
  BY <1>2, <1>3

LEMMA IncOutage ==
    ASSUME OutageInv, Typed', NEW s \in Series, Inc(s), UNCHANGED <<sample, pending, outage>>,
           s # "token_bucket" => refused' = refused
    PROVE  OutageInv'
<1>1. /\ total["token_bucket"] \in Nat
      /\ total'["token_bucket"] =
           IF s = "token_bucket" THEN total["token_bucket"] + 1 ELSE total["token_bucket"]
  BY OutageTypes, WindowsHold DEF OutageInv, Typed, TypeOK, Inc
<1>2. OutageIsCounted'
  BY <1>1, OutageTypes DEF OutageInv, OutageIsCounted
<1> QED
  BY <1>2 DEF OutageInv, PendingFollows

LEMMA StepOutage == OutageInv /\ [Next]_vars => OutageInv'
<1> SUFFICES ASSUME OutageInv, [Next]_vars PROVE OutageInv'
  OBVIOUS
<1>0. Typed /\ Typed'
  BY StepTyped DEF OutageInv
<1>1. ASSUME NEW op \in Operations, FallBack(op) PROVE OutageInv'
  <2>1. op # "token_bucket" => refused' = refused
    <3>1. refused \in BOOLEAN
      BY <1>0 DEF Typed, TypeOK
    <3>2. refused' = (refused \/ op = "token_bucket")
      BY <1>1 DEF FallBack
    <3> QED
      BY <3>1, <3>2, Zenon
  <2> QED
    BY <1>0, <1>1, <2>1, IncOutage DEF FallBack, prometheus, Series
<1>2. ASSUME NEW route \in Errors, ServerError(route) PROVE OutageInv'
  BY <1>0, <1>2, IncOutage DEF ServerError, prometheus, Series
<1>3. CASE RedisFlips \/ UNCHANGED vars
  BY <1>0, <1>3 DEF RedisFlips, vars, prometheus, history, OutageInv, OutageIsCounted, PendingFollows
<1>4. CASE Restart
  <2>1. outage' = 0 /\ ~refused' /\ pending' = pending
    BY <1>4 DEF Restart, prometheus
  <2> QED
    BY <1>0, <2>1, OutageTypes DEF OutageInv, OutageIsCounted, PendingFollows
<1> QED
  BY <1>0, <1>1, <1>2, <1>3, <1>4, ScrapeOutage DEF Next

(***************************************************************************)
(* "a genuine outage will": when Redis refuses the limiter in Hold + 2     *)
(* intervals in a row, RedisFallbackActive fires, for every delay and      *)
(* every window.                                                           *)
(***************************************************************************)
THEOREM OutagesAreReported == Spec => []OutageIsReported
<1>1. Init => OutageInv
  BY InitTyped, OutageTypes DEF Init, OutageInv, OutageIsCounted, PendingFollows, Alert
<1>2. OutageInv => OutageIsReported
  BY OutageTypes DEF OutageInv, PendingFollows, OutageIsReported, Firing
<1> QED
  BY <1>1, <1>2, StepOutage, PTL DEF Spec
=============================================================================
