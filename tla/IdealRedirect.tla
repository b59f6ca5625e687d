--------------------------- MODULE IdealRedirect ---------------------------
(***************************************************************************)
(* What GET /{short_code} promises, as if there were no cache, no pool and *)
(* no Redis: a visit learns in one step where a live link leads, or that   *)
(* the link is not live; every redirect owes one click, and a click is     *)
(* counted once, or lost in a failure.                                     *)
(***************************************************************************)
EXTENDS Naturals

CONSTANTS
    Visits, Codes, LongUrls,
    Nowhere,  \* not a URL
    NoCode    \* the path of a visit that has not arrived

VARIABLES
    live,         \* live[c]: where c leads, or Nowhere
    state,        \* state[v]: "idle", "asked", "going", "refusing", "302", "404", or "failed"
    path,         \* path[v]: the code it visits
    destination,  \* destination[v]: where it is sent
    owed,         \* the visits whose click is due
    count         \* count[c]: the clicks counted

vars == <<live, state, path, destination, owed, count>>

Init ==
    /\ live \in [Codes -> LongUrls \cup {Nowhere}]
    /\ state = [v \in Visits |-> "idle"]
    /\ path = [v \in Visits |-> NoCode]
    /\ destination = [v \in Visits |-> Nowhere]
    /\ owed = {}
    /\ count = [c \in Codes |-> 0]

Ask(v) ==
    /\ state[v] = "idle"
    /\ \E c \in Codes : path' = [path EXCEPT ![v] = c]
    /\ state' = [state EXCEPT ![v] = "asked"]
    /\ UNCHANGED <<live, destination, owed, count>>

Resolve(v) ==
    /\ state[v] = "asked"
    /\ live[path[v]] # Nowhere
    /\ state' = [state EXCEPT ![v] = "going"]
    /\ destination' = [destination EXCEPT ![v] = live[path[v]]]
    /\ UNCHANGED <<live, path, owed, count>>

Refuse(v) ==
    /\ state[v] = "asked"
    /\ live[path[v]] = Nowhere
    /\ state' = [state EXCEPT ![v] = "refusing"]
    /\ UNCHANGED <<live, path, destination, owed, count>>

Deny(v) ==
    /\ state[v] = "refusing"
    /\ state' = [state EXCEPT ![v] = "404"]
    /\ UNCHANGED <<live, path, destination, owed, count>>

Redirect(v) ==
    /\ state[v] = "going"
    /\ state' = [state EXCEPT ![v] = "302"]
    /\ owed' = owed \cup {v}
    /\ UNCHANGED <<live, path, destination, count>>

Count(v) ==
    /\ v \in owed
    /\ owed' = owed \ {v}
    /\ count' = [count EXCEPT ![path[v]] = @ + 1]
    /\ UNCHANGED <<live, state, path, destination>>

\* Visits under way, and clicks that are due, fall to a failure.
Fail(failed, lost) ==
    /\ \A v \in failed : state[v] \in {"asked", "going", "refusing"}
    /\ lost \subseteq owed
    /\ state' = [v \in Visits |-> IF v \in failed THEN "failed" ELSE state[v]]
    /\ destination' = [v \in Visits |-> IF v \in failed THEN Nowhere ELSE destination[v]]
    /\ owed' = owed \ lost
    /\ UNCHANGED <<live, path, count>>

Expire(expired) ==
    /\ live' = [c \in Codes |-> IF c \in expired THEN Nowhere ELSE live[c]]
    /\ UNCHANGED <<state, path, destination, owed, count>>

Next ==
    \/ \E v \in Visits :
         Ask(v) \/ Resolve(v) \/ Refuse(v) \/ Redirect(v) \/ Deny(v) \/ Count(v)
    \/ \E expired \in SUBSET Codes : Expire(expired)
    \/ \E failed, lost \in SUBSET Visits : Fail(failed, lost)

Spec == Init /\ [][Next]_vars
=============================================================================
