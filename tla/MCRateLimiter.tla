--------------------------- MODULE MCRateLimiter ---------------------------
(***************************************************************************)
(* Small instances of RateLimiter: two requests of one client compete for  *)
(* its redirect bucket, beside one that creates a link.                    *)
(***************************************************************************)
EXTENDS RateLimiter, TLC

CONSTANTS c1, r1, r2, r3

OneClient == {c1}
TwoRequests == {r1, r2}
ThreeRequests == {r1, r2, r3}

BothRedirect == [r \in TwoRequests |-> [client |-> c1, class |-> "redirect"]]

TwoRedirectsOneCreate ==
    [r \in ThreeRequests |-> [client |-> c1, class |-> IF r = r3 THEN "create" ELSE "redirect"]]

\* The two requests of one bucket are interchangeable.
TwoAlike == Permutations({r1, r2})

CapacitySmall == [class \in RouteClass |-> IF class = "redirect" THEN 2 ELSE 1]
RefillSmall == [class \in RouteClass |-> IF class = "redirect" THEN 2 ELSE 1]
=============================================================================
