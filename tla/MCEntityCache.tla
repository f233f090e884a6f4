---------------------------- MODULE MCEntityCache ----------------------------
(* EntityCache with two base entities and two request threads. *)
EXTENDS EntityCache, TLC

CONSTANTS c1, c2, t1, t2

MCCode == {c1, c2}
MCThread == {t1, t2}
Symmetry == Permutations(MCCode) \cup Permutations(MCThread)
=============================================================================
