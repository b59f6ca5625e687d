---------------------------- MODULE MCRedirect -----------------------------
(***************************************************************************)
(* Small instances of Redirect, with its metrics.                          *)
(***************************************************************************)
EXTENDS Metrics, TLC

CONSTANTS v1, v2, s1, c1, c2, p1, u1, u2, f1, f2

TwoVisits == {v1, v2}
OneReader == {s1}
NoReader == {}
OneCode == {c1}
TwoCodes == {c1, c2}
OneUrl == {u1}
TwoUrls == {u1, u2}
OneCreate == {p1}
OneReferrer == {f1}
TwoReferrers == {f1, f2}
NeverOrSoon == {Never, 1}
NeverOnly == {Never}
UpOrDown == {"up", "down"}

\* Nothing tells visits, codes, destinations or referrers apart.
Interchangeable ==
    Permutations(Visits) \cup Permutations(Codes)
    \cup Permutations(LongUrls) \cup Permutations(Referrers)
=============================================================================
