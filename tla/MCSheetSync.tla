----------------------------- MODULE MCSheetSync -----------------------------
(* SheetSync with two realm units and two request threads. *)
EXTENDS SheetSync, TLC

CONSTANTS u1, u2, t1, t2

MCUnit == {u1, u2}
MCThread == {t1, t2}
=============================================================================
