--------------------------- MODULE MCKeycloakRealms ---------------------------
(* KeycloakRealms with two realms, two files and two threads. *)
EXTENDS KeycloakRealms, TLC

CONSTANTS genny, other, localhost, t1, t2

MCRealm == {genny, other}
MCThread == {t1, t2}
MCDirectory == <<[key |-> Plain(genny), realm |-> genny],
                 [key |-> Json(localhost), realm |-> genny]>>
Symmetry == Permutations(MCThread)
=============================================================================
