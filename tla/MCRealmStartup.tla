--------------------------- MODULE MCRealmStartup ---------------------------
(* RealmStartup with two realm units (the runs) or three, any of them disabled.  The sheet of *)
(* the first has an attribute, a base entity and a question, the other sheets are empty.      *)
EXTENDS RealmStartup

CONSTANTS r1, r2, r3, PRI_NAME, PER_USER, QUE_NAME

MCRealm == {r1, r2, r3}
MCUnits == <<r1, r2, r3>>
MCTwoUnits == <<r1, r2>>
MCTwoRealms == {r1, r2}
MCAttributes == {PRI_NAME}
MCEntities == {PER_USER}
MCQuestions == {QUE_NAME}
MCNone == {}
MCFirstSheet == [r \in Realm |-> IF r = r1 THEN SheetCode ELSE {}]
=============================================================================
