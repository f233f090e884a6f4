---------------------------- MODULE KeycloakUsers ----------------------------
(***************************************************************************)
(* Persons' rows in the database and their users in Keycloak.              *)
(* ServiceEndpoint.create saves a person, its answers, then creates the    *)
(* Keycloak user and records its id with the person.  It is in no          *)
(* transaction: each of its writes takes effect on its own, throws, or,    *)
(* when the entity manager keeps it in memory, is lost without a word.     *)
(* QwandaEndpoint.removeUser removes the row in a transaction and, before  *)
(* that commits, the Keycloak user.  No transaction spans the two stores,  *)
(* so the model says which windows can part them, and that nothing else   *)
(* does.                                                                   *)
(***************************************************************************)
EXTENDS Naturals

CONSTANTS
    Person,     \* codes of persons, PER_...
    Username,
    Thread,     \* request threads
    MaxUsers,   \* bound: Keycloak users that are ever created
    None,       \* no value, no user
    NoRow       \* the person has no row

Uuid == 1..MaxUsers

ASSUME BoundAssumption == MaxUsers \in Nat
ASSUME NoneAssumption == None \notin Username \cup Person /\ None \notin Nat

VARIABLES
    row,      \* per person, its row
    users,    \* Keycloak: per username, the id of its user
    made,     \* Keycloak users created so far
    request,  \* per thread, the request it serves
    apart     \* history: ids that a named window, another person or overlap may have parted

vars == <<row, users, made, request, apart>>

\* username is None while PRI_USERNAME, PRI_FIRSTNAME, PRI_LASTNAME or PRI_EMAIL is missing;
\* uuid is PRI_KEYCLOAK_UUID.
Row == [username : Username \cup {None}, uuid : Uuid \cup {None}]
Blank == [username |-> None, uuid |-> None]
ASSUME NoRowAssumption == NoRow \notin Row

(***************************************************************************)
(* A request: the person, the username posted with it, whether its row was *)
(* found, the username read back, the Keycloak id at hand and, as history, *)
(* whether no other request on the person has run beside it.               *)
(***************************************************************************)
Request == [pc : {"idle", "save", "answers", "look", "keycloak", "record", "delete", "drop", "commit"},
            person : Person \cup {None}, posted : Username \cup {None}, found : BOOLEAN,
            name : Username \cup {None}, uuid : Uuid \cup {None}, alone : BOOLEAN]
Idle == [pc |-> "idle", person |-> None, posted |-> None, found |-> FALSE,
         name |-> None, uuid |-> None, alone |-> TRUE]

IdOf(p) == IF row[p] = NoRow THEN None ELSE row[p].uuid
Live == {users[n] : n \in Username} \ {None}
Named == {IdOf(p) : p \in Person} \ {None}
Held == {request[t].uuid : t \in Thread} \ {None}
Busy(p) == \E t \in Thread : request[t].person = p

\* Ids that a step of an overlapping request may part.
Overlapped(q) == IF q.alone THEN {} ELSE {q.uuid, IdOf(q.person)} \ {None}
Parts(S) == apart' = apart \cup (S \ {None})

\* A request on person p begins; it and those it meets are not alone.
Begins(t, p, q) ==
    LET met == {s \in Thread \ {t} : request[s].person = p} IN
    request' = [s \in Thread |->
        IF s = t THEN [q EXCEPT !.person = p, !.alone = met = {}]
        ELSE [request[s] EXCEPT !.alone = @ /\ s \notin met]]

Goes(t, pc) == request' = [request EXCEPT ![t].pc = pc]
Ends(t) == request' = [request EXCEPT ![t] = Idle]

----------------------------------------------------------------------------
Init ==
    /\ row = [p \in Person |-> NoRow]
    /\ users = [n \in Username |-> None]
    /\ made = 0
    /\ request = [t \in Thread |-> Idle]
    /\ apart = {}

\* create: findBaseEntityByCode.
Create(t) ==
    /\ request[t] = Idle
    /\ \E p \in Person, n \in Username \cup {None} :
          Begins(t, p, [Idle EXCEPT !.pc = "save", !.posted = n, !.found = row[p] # NoRow])
    /\ UNCHANGED <<row, users, made, apart>>

\* insert, which throws when the row is there by now; or update, which may put back a row
\* that is gone.  Attributes are left to the answers.
Save(t) ==
    LET q == request[t] IN
    /\ q.pc = "save"
    /\ ~q.found => row[q.person] = NoRow
    /\ \/ row' = [row EXCEPT ![q.person] = IF @ = NoRow THEN Blank ELSE @]
       \/ UNCHANGED row
    /\ Goes(t, "answers")
    /\ Parts(Overlapped(q))
    /\ UNCHANGED <<users, made>>

\* insert(Answer[]) of the attributes posted.
Answers(t) ==
    LET q == request[t] IN
    /\ q.pc = "answers"
    /\ \/ /\ row[q.person] # NoRow
          /\ row' = [row EXCEPT ![q.person].username = IF q.posted = None THEN @ ELSE q.posted]
       \/ UNCHANGED row
    /\ Goes(t, "look")
    /\ Parts(Overlapped(q))
    /\ UNCHANGED <<users, made>>

\* findBaseEntityByCode: there must be a row with all four attributes.
Look(t) ==
    LET q == request[t]  r == row[q.person] IN
    /\ q.pc = "look"
    /\ IF r = NoRow \/ r.username = None THEN Ends(t)
       ELSE request' = [request EXCEPT ![t].pc = "keycloak", ![t].name = r.username]
    /\ UNCHANGED <<row, users, made, apart>>

\* KeycloakUtils.createUser makes a user, and its answer arrives or not,
CreateUser(t) ==
    LET q == request[t] IN
    /\ q.pc = "keycloak"
    /\ users[q.name] = None /\ made < MaxUsers
    /\ made' = made + 1
    /\ users' = [users EXCEPT ![q.name] = made']
    /\ \/ /\ request' = [request EXCEPT ![t].pc = "record", ![t].uuid = made']
          /\ Parts(Overlapped(q))
       \/ Ends(t) /\ Parts(Overlapped(q) \cup {made'})
    /\ UNCHANGED row

\* or finds one of that name and says which it is.
FindUser(t) ==
    LET q == request[t]  k == users[q.name] IN
    /\ q.pc = "keycloak" /\ k # None
    /\ request' = [request EXCEPT ![t].pc = "record", ![t].uuid = k]
    /\ Parts(Overlapped(q) \cup (IF k = IdOf(q.person) THEN {} ELSE {k}))
    /\ UNCHANGED <<row, users, made>>

\* (A mutant: the id ends up under the code of another attribute.)
RecordedElsewhere(r, k) == [r EXCEPT !.username = k]
\* The answer PRI_KEYCLOAK_UUID takes the place of an earlier one.
Recorded(r, k) == [r EXCEPT !.uuid = k]

\* addAnswer, updateWithAttributes; an id that is replaced is nobody's from now on.
Record(t) ==
    LET q == request[t]  r == row[q.person] IN
    /\ q.pc = "record"
    /\ \/ /\ row' = [row EXCEPT ![q.person] =
                        Recorded(IF r = NoRow THEN [Blank EXCEPT !.username = q.name] ELSE r, q.uuid)]
          /\ Parts(Overlapped(q) \cup ({IdOf(q.person)} \ {q.uuid}))
       \/ UNCHANGED row /\ Parts(Overlapped(q) \cup {q.uuid})
    /\ Ends(t)
    /\ UNCHANGED <<users, made>>

\* (A mutant: the row is removed first, and its attributes with it.)
IdAfterRemoval(p) == None
\* findAttributesByBaseEntityCode, PRI_KEYCLOAK_UUID.
IdToRemove(p) == IdOf(p)

\* removeUser: first the id is read.
Remove(t) ==
    /\ request[t] = Idle
    /\ \E p \in Person : Begins(t, p, [Idle EXCEPT !.pc = "delete", !.uuid = IdToRemove(p)])
    /\ UNCHANGED <<row, users, made, apart>>

\* removeBaseEntity in the transaction; it throws when there is no row.
Delete(t) ==
    LET q == request[t] IN
    /\ q.pc = "delete"
    /\ row[q.person] # NoRow
    /\ Goes(t, "drop")
    /\ UNCHANGED <<row, users, made, apart>>

\* (A mutant: the user of the person's username.)
DroppedByName(q, n) == row[q.person] # NoRow /\ n = row[q.person].username
\* The user that goes is the one of the recorded id.
Dropped(q, n) == users[n] = q.uuid

\* KeycloakUtils.removeUser, whose exception is swallowed.
DropUser(t) ==
    LET q == request[t] IN
    /\ q.pc = "drop"
    /\ \/ /\ users' = [n \in Username |-> IF Dropped(q, n) THEN None ELSE users[n]]
          /\ Parts(Overlapped(q))
       \/ UNCHANGED users /\ Parts(Overlapped(q) \cup {q.uuid})
    /\ Goes(t, "commit")
    /\ UNCHANGED <<row, made>>

Commit(t) ==
    LET q == request[t] IN
    /\ q.pc = "commit"
    /\ row' = [row EXCEPT ![q.person] = NoRow]
    /\ Ends(t)
    /\ Parts(Overlapped(q))
    /\ UNCHANGED <<users, made>>

\* ServiceEndpoint.removeBaseEntity: the row alone.
RemoveBaseEntity(p) ==
    /\ row[p] # NoRow
    /\ row' = [row EXCEPT ![p] = NoRow]
    /\ request' = [t \in Thread |-> [request[t] EXCEPT !.alone = @ /\ request[t].person # p]]
    /\ Parts({IdOf(p)})
    /\ UNCHANGED <<users, made>>

\* Any step throws, or the server dies, or the transaction does not commit.  It parts the
\* stores when a user is made and not recorded, or dropped and its row not removed.
Fail(t) ==
    LET q == request[t] IN
    /\ q.pc # "idle"
    /\ Ends(t)
    /\ Parts(Overlapped(q) \cup (IF q.pc \in {"record", "commit"} THEN {q.uuid} ELSE {}))
    /\ UNCHANGED <<row, users, made>>

Next ==
    \/ \E t \in Thread :
          \/ Create(t) \/ Save(t) \/ Answers(t) \/ Look(t) \/ CreateUser(t) \/ FindUser(t) \/ Record(t)
          \/ Remove(t) \/ Delete(t) \/ DropUser(t) \/ Commit(t) \/ Fail(t)
    \/ \E p \in Person : RemoveBaseEntity(p)

Spec == Init /\ [][Next]_vars

----------------------------------------------------------------------------
TypeOK ==
    /\ row \in [Person -> Row \cup {NoRow}]
    /\ users \in [Username -> Uuid \cup {None}]
    /\ made \in 0..MaxUsers
    /\ \A t \in Thread :
          /\ request[t] \in Request
          /\ request[t].pc = "record" => request[t].uuid # None
    /\ Live \cup Named \cup Held \subseteq 1..made
    /\ apart \subseteq 1..made

\* A Keycloak user is named by a person's row or held by a request, unless its creation or
\* removal failed halfway, the row was removed alone or got another user, or requests on the
\* person overlapped: no other failure leaves a user behind (create, removeUser).
NoUserLeftBehind == Live \subseteq Named \cup Held \cup apart

\* The id in a person's row is that of a Keycloak user, unless a removal dropped the user and
\* did not commit, two persons share a username, or requests on the person overlapped
\* (removeUser): so a removal takes nobody else's user with it, whatever the names are by now.
NoIdDangles ==
    \A p \in Person : ~Busy(p) /\ IdOf(p) # None => IdOf(p) \in Live \cup apart
=============================================================================
