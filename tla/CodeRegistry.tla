--------------------------- MODULE CodeRegistry ----------------------------
(***************************************************************************)
(* What POST /api/urls promises: a register of short codes in which a      *)
(* request binds a free code at one instant, or learns that a code is      *)
(* taken, or fails.  A binding never changes and belongs to one request.   *)
(***************************************************************************)
CONSTANTS Codes, Requests, Unbound

VARIABLES
    owner,    \* owner[c]: the request code c is bound by
    outcome   \* outcome[r]: what request r was told

vars == <<owner, outcome>>

Init ==
    /\ owner = [c \in Codes |-> Unbound]
    /\ outcome = [r \in Requests |-> "pending"]

\* The request binds a free code, and is told so, or never learns it.
Bind(r, c) ==
    /\ outcome[r] = "pending"
    /\ owner[c] = Unbound
    /\ owner' = [owner EXCEPT ![c] = r]
    /\ \E told \in {"created", "failed"} : outcome' = [outcome EXCEPT ![r] = told]

\* The code is somebody else's.
Refuse(r, c) ==
    /\ outcome[r] = "pending"
    /\ owner[c] \notin {Unbound, r}
    /\ outcome' = [outcome EXCEPT ![r] = "conflict"]
    /\ UNCHANGED owner

\* Requests fail, together if the process dies, and bind nothing.
Fail(failing) ==
    /\ \A r \in failing : outcome[r] = "pending"
    /\ outcome' = [r \in Requests |-> IF r \in failing THEN "failed" ELSE outcome[r]]
    /\ UNCHANGED owner

Next ==
    \/ \E r \in Requests, c \in Codes : Bind(r, c) \/ Refuse(r, c)
    \/ \E failing \in SUBSET Requests : Fail(failing)

Spec == Init /\ [][Next]_vars
=============================================================================
