--------------------------- MODULE MCServiceTokens ---------------------------
(* ServiceTokens on three realms, two of them reachable by name, and two threads. *)
EXTENDS ServiceTokens, TLC

CONSTANTS genny, main, other, c1, c2

MCRealm == {genny, main, other}
MCCaller == {c1, c2}
MCLifetime == {1, 3}   \* shorter and longer than Limit = 2
Threads == Permutations(MCCaller)
=============================================================================
