---------------------------- MODULE MCShortCodes ----------------------------
(***************************************************************************)
(* A small instance of ShortCodes: every length around the limits.         *)
(***************************************************************************)
EXTENDS ShortCodes

CodeLengths == {0, 3, 4, 10, 11}
DaysSent == {0, 1, 3650, 3651}
HopsSent == {<<>>, <<64>>, <<65>>, <<15, 65>>, <<65, 15>>}
=============================================================================
