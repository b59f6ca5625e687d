----------------------------- MODULE MCService -----------------------------
(***************************************************************************)
(* Small instances of Service.                                             *)
(***************************************************************************)
EXTENDS Service, TLC

CONSTANTS p1, p2, v1, v2, c1, c2, u1, u2, f1

TwoCreates == {p1, p2}
TwoVisits == {v1, v2}
NoReader == {}
OneCode == {c1}
TwoCodes == {c1, c2}
TwoUrls == {u1, u2}
OneUrl == {u1}
OneReferrer == {f1}
NeverOrSoon == {Never, 1}
NeverOnly == {Never}
UpOrDown == {"up", "down"}
UpOnly == {"up"}
UpDownOrHung == {"up", "down", "hung"}
NoneReserved == {}
OneReserved == {c2}

\* Requests of one kind, and destinations, are interchangeable.
Interchangeable ==
    Permutations(Creates) \cup Permutations(Visits) \cup Permutations(LongUrls)
=============================================================================
