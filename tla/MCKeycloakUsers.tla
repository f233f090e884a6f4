--------------------------- MODULE MCKeycloakUsers ---------------------------
(* KeycloakUsers with two persons, two usernames and two request threads. *)
EXTENDS KeycloakUsers, TLC

CONSTANTS p1, p2, n1, n2, t1, t2

MCPerson == {p1, p2}
MCUsername == {n1, n2}
MCThread == {t1, t2}
Symmetry == Permutations(MCPerson) \cup Permutations(MCUsername) \cup Permutations(MCThread)
=============================================================================
