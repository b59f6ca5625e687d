---------------------------- MODULE IdealService ----------------------------
(***************************************************************************)
(* What the application promises as a whole: creations bind codes in a     *)
(* register, a bound code leads where the creation that bound it asked,    *)
(* and visits follow the codes as if there were one table that is read and *)
(* written in single steps.  A code that spells another route leads        *)
(* nowhere but to that route.                                              *)
(***************************************************************************)
EXTENDS Naturals

CONSTANTS
    Codes, LongUrls, Requests, Visits,
    Reserved,                  \* codes that spell another route
    Unbound, Nowhere, NoCode   \* see CodeRegistry, IdealRedirect

VARIABLES
    asked,                                       \* asked[r]: where request r wants its code to lead
    owner, outcome,                              \* see CodeRegistry
    live, state, path, destination, owed, count  \* see IdealRedirect

Registry == INSTANCE CodeRegistry
Links == INSTANCE IdealRedirect

register == <<owner, outcome>>
following == <<state, path, destination, owed, count>>
vars == <<asked, owner, outcome, live, state, path, destination, owed, count>>

Init ==
    /\ asked \in [Requests -> LongUrls]
    /\ Registry!Init
    /\ Links!Init
    /\ live = [c \in Codes |-> Nowhere]

\* A code leads where the request that binds it asked, unless it has expired by then.
Create ==
    /\ UNCHANGED <<asked, following>>
    /\ Registry!Next
    /\ live' \in [Codes -> LongUrls \cup {Nowhere}]
    /\ \A c \in Codes : live'[c] # live[c] =>
         owner'[c] # owner[c] /\ live'[c] = asked[owner'[c]]

\* A visit that arrives goes to no reserved code.
Follow ==
    /\ UNCHANGED <<asked, register>>
    /\ Links!Next
    /\ \A v \in Visits : path'[v] # path[v] => path'[v] \notin Reserved

\* A reserved code is answered by the route that it spells.
Elsewhere(v) ==
    /\ state[v] = "idle"
    /\ \E c \in Codes \cap Reserved : path' = [path EXCEPT ![v] = c]
    /\ state' = [state EXCEPT ![v] = "other"]
    /\ UNCHANGED <<asked, register, live, destination, owed, count>>

\* Requests, visits and clicks fall to one failure together.
Fail ==
    /\ \E failing \in SUBSET Requests : Registry!Fail(failing)
    /\ \E failed, lost \in SUBSET Visits : Links!Fail(failed, lost)
    /\ UNCHANGED asked

Next ==
    \/ Create
    \/ Follow
    \/ \E v \in Visits : Elsewhere(v)
    \/ Fail

Spec == Init /\ [][Next]_vars
=============================================================================
