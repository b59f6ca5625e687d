---------------------------- MODULE MCCreateUrl ----------------------------
(***************************************************************************)
(* Small instances of CreateUrl.                                           *)
(***************************************************************************)
EXTENDS CreateUrl

CONSTANTS p1, p2, p3, c1, c2, u1

ThreeCreates == {p1, p2, p3}
TwoCodes == {c1, c2}
OneUrl == {u1}
OneDay == {1}
=============================================================================
