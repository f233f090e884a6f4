---------------------------- MODULE MCDeletedRows ----------------------------
(* DeletedRows with two rows and two request threads. *)
EXTENDS DeletedRows, TLC

CONSTANTS c1, c2, t1, t2

MCCode == {c1, c2}
MCThread == {t1, t2}
Symmetry == Permutations(MCCode) \cup Permutations(MCThread)
=============================================================================
