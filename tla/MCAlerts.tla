------------------------------ MODULE MCAlerts ------------------------------
(***************************************************************************)
(* Small instances of Alerts.                                              *)
(***************************************************************************)
EXTENDS Alerts, TLC

TwoOperations == {"token_bucket", "get"}
OneOperation == {"token_bucket"}
OneError == {"ready"}
TwoErrors == {"redirect", "ready"}

\* The ranges of 2 and 5 minutes in samples: 8 and 20 at the interval of 15
\* seconds that prometheus.yml sets, 4 and 10 at one of 30.
RuleWindows == [a \in Alert |-> IF a = "HighErrorRate" THEN 20 ELSE 8]
CoarseWindows == [a \in Alert |-> IF a = "HighErrorRate" THEN 10 ELSE 4]
=============================================================================
