------------------------- MODULE KeycloakUsersProofs -------------------------
(***************************************************************************)
(* Rows and Keycloak users for any number of persons, names and threads:   *)
(* outside the windows that the module names, the two stores agree.  The   *)
(* inductive invariant IInv says which id belongs to which person          *)
(* (UniqueInv), where an id that a row names is (NamedInv), and what a     *)
(* removal that nobody disturbs knows (RemovalInv).                        *)
(***************************************************************************)
EXTENDS KeycloakUsers, TLAPS

\* What a request knows of itself.
RequestInv(q) ==
    /\ q \in Request
    /\ q.pc = "idle" => q = Idle
    /\ q.pc # "idle" => q.person \in Person
    /\ q.pc \in {"save", "answers", "look", "keycloak"} => q.uuid = None
    /\ q.pc \in {"keycloak", "record"} => q.name \in Username
    /\ q.pc = "record" => q.uuid # None

Ids == 1..made

StateInv ==
    /\ row \in [Person -> Row \cup {NoRow}]
    /\ users \in [Username -> Uuid \cup {None}]
    /\ made \in 0..MaxUsers
    /\ request \in [Thread -> Request]
    /\ \A t \in Thread : RequestInv(request[t])
    /\ \A n \in Username : users[n] \in Ids \cup {None}
    /\ \A p \in Person : IdOf(p) \in Ids \cup {None}
    /\ \A t \in Thread : request[t].uuid \in Ids \cup {None}
    /\ apart \subseteq Ids

\* A request that is alone is the only one on its person.
AloneInv ==
    \A s, t \in Thread :
        s # t /\ request[t].pc # "idle" /\ request[t].alone => request[s].person # request[t].person

Removing == {"delete", "drop", "commit"}

\* Until it commits, such a removal has the id that the row has; the user it has dropped is gone.
RemovalInv ==
    /\ \A t \in Thread, p \in Person :
          request[t].pc \in Removing /\ request[t].alone /\ request[t].person = p
          => request[t].uuid = IdOf(p)
    /\ \A t \in Thread : request[t].pc = "commit" => request[t].uuid \notin Live \ apart

\* An id that a person's row names, or that is about to be recorded there,
Claims(p, k) ==
    \/ IdOf(p) = k
    \/ \E t \in Thread : request[t].person = p /\ request[t].pc = "record" /\ request[t].uuid = k

\* belongs to nobody else,
UniqueInv == \A p, o \in Person, k \in Ids : p # o /\ Claims(p, k) /\ Claims(o, k) => k \in apart

\* and to a user, or to one that was dropped for this person and whose row is about to go.
NamedInv ==
    /\ \A p \in Person :
          \/ IdOf(p) \in Live \cup apart \cup {None}
          \/ \E t \in Thread : /\ request[t].person = p /\ request[t].pc = "commit"
                               /\ request[t].uuid = IdOf(p)
    /\ \A t \in Thread : request[t].pc = "record" => request[t].uuid \in Live \cup apart

IInv == StateInv /\ AloneInv /\ RemovalInv /\ UniqueInv /\ NamedInv /\ NoUserLeftBehind

----------------------------------------------------------------------------
\* What an idle thread's record holds.
LEMMA IdleFacts == /\ Idle.pc = "idle" /\ Idle.person = None /\ Idle.uuid = None
                   /\ Idle.alone = TRUE /\ Idle.name = None /\ Idle.found = FALSE
                   /\ Idle.posted = None /\ RequestInv(Idle)
  BY NoneAssumption DEF Idle, RequestInv, Request

\* At first there is no row, no user and no request.
LEMMA InitIInv == Init => IInv
  <1> SUFFICES ASSUME Init PROVE IInv
    OBVIOUS
  <1>1. \A p \in Person : IdOf(p) = None
    BY DEF Init, IdOf
  <1>2. Live = {} /\ Named = {} /\ Held = {}
    BY <1>1, IdleFacts DEF Init, Live, Named, Held
  <1>3. StateInv
    BY <1>1, IdleFacts, BoundAssumption DEF Init, StateInv, RequestInv
  <1>4. AloneInv /\ RemovalInv /\ UniqueInv /\ NamedInv
    BY <1>1, <1>2, IdleFacts
    DEF Init, AloneInv, RemovalInv, Removing, UniqueInv, Ids, NamedInv
  <1> QED BY <1>2, <1>3, <1>4 DEF IInv, NoUserLeftBehind

\* No id is None.
LEMMA IdFacts == ASSUME IInv
                 PROVE  /\ made \in Nat /\ Ids \subseteq Nat /\ None \notin Ids /\ Ids \subseteq Uuid
                        /\ Live \subseteq Ids /\ Named \subseteq Ids /\ Held \subseteq Ids
                        /\ apart \subseteq Ids
  <1>1. made \in Nat /\ Ids \subseteq Nat /\ None \notin Ids
    BY BoundAssumption, NoneAssumption DEF IInv, StateInv, Ids
  <1>2. Ids \subseteq Uuid
    BY BoundAssumption DEF IInv, StateInv, Ids, Uuid
  <1> QED BY <1>1, <1>2 DEF IInv, StateInv, Live, Named, Held

\* A step of a request that runs touches its own record alone, and stays alone or not.
LEMMA OneRequest == ASSUME IInv, NEW t \in Thread, NEW n, request' = [request EXCEPT ![t] = n],
                           RequestInv(n), request[t].pc # "idle",
                           n = Idle \/ (n.person = request[t].person /\ n.alone = request[t].alone)
                    PROVE  /\ request' \in [Thread -> Request]
                           /\ \A s \in Thread : RequestInv(request'[s])
                           /\ \A s \in Thread : request'[s] = IF s = t THEN n ELSE request[s]
                           /\ AloneInv'
  <1>1. /\ request' \in [Thread -> Request]
        /\ \A s \in Thread : request'[s] = IF s = t THEN n ELSE request[s]
    BY DEF IInv, StateInv, RequestInv
  <1>2. \A s \in Thread : RequestInv(request'[s])
    BY <1>1 DEF IInv, StateInv
  <1>3. ASSUME NEW r \in Thread, NEW s \in Thread, r # s, request'[s].pc # "idle", request'[s].alone
        PROVE  request'[r].person # request'[s].person
    <2>1. request[s].pc # "idle" /\ request[s].alone /\ request'[s].person = request[s].person
      BY <1>1, <1>3, IdleFacts
    <2>2. request[r].person # request[s].person
      BY <1>3, <2>1 DEF IInv, AloneInv
    <2>3. request[s].person # None
      BY <2>1, NoneAssumption DEF IInv, StateInv, RequestInv
    <2> QED BY <1>1, <2>1, <2>2, <2>3, IdleFacts
  <1> QED BY <1>1, <1>2, <1>3 DEF AloneInv

\* It leaves the removals of others what they know, when it changes only the row of its own
\* person, and adds no user that was there before.
LEMMA OthersRemove == ASSUME IInv, NEW t \in Thread, NEW s \in Thread, s # t,
                             request'[s] = request[s], request[t].pc # "idle",
                             \A p \in Person : p # request[t].person => IdOf(p)' = IdOf(p),
                             apart \subseteq apart',
                             \A k \in Ids : k \in Live' => k \in Live
                      PROVE  /\ \A p \in Person :
                                   request'[s].pc \in Removing /\ request'[s].alone /\ request'[s].person = p
                                   => request'[s].uuid = IdOf(p)'
                             /\ request'[s].pc = "commit" => request'[s].uuid \notin Live' \ apart'
  <1>1. ASSUME NEW p \in Person,
               request[s].pc \in Removing, request[s].alone, request[s].person = p
        PROVE  request[s].uuid = IdOf(p)'
    <2>1. p # request[t].person
      BY <1>1 DEF Removing, IInv, AloneInv
    <2>2. request[s].uuid = IdOf(p)
      BY <1>1 DEF IInv, RemovalInv
    <2> QED BY <2>1, <2>2
  <1>2. ASSUME request[s].pc = "commit" PROVE request[s].uuid \notin Live' \ apart'
    <2>1. request[s].uuid \in Ids \cup {None} /\ request[s].uuid \notin Live \ apart
      BY <1>2 DEF IInv, StateInv, RemovalInv
    <2>2. None \notin Live'
      BY DEF Live
    <2> QED BY <2>1, <2>2
  <1> QED BY <1>1, <1>2

\* No new claims, except to ids that count as parted.
LEMMA SameClaims == ASSUME IInv, made' = made, apart \subseteq apart',
                           \A p \in Person, k \in Ids : Claims(p, k)' => Claims(p, k) \/ k \in apart'
                    PROVE  UniqueInv'
  BY DEF IInv, UniqueInv, Ids

----------------------------------------------------------------------------
\* A step on the way: no id, no user and no claim changes.
LEMMA Quiet == ASSUME IInv, NEW t \in Thread, NEW n, request' = [request EXCEPT ![t] = n],
                      RequestInv(n), request[t].pc # "idle",
                      \/ n = Idle /\ request[t].uuid = None
                      \/ /\ n.person = request[t].person /\ n.alone = request[t].alone
                         /\ n.uuid = request[t].uuid,
                      n.pc \notin {"record", "commit"}, request[t].pc \notin {"record", "commit"},
                      n.pc \in Removing => request[t].pc \in Removing,
                      UNCHANGED <<users, made>>, row' \in [Person -> Row \cup {NoRow}],
                      \A p \in Person : IdOf(p)' = IdOf(p),
                      apart \subseteq apart', apart' \subseteq Ids
               PROVE  IInv'
  <1>1. /\ request' \in [Thread -> Request] /\ \A s \in Thread : RequestInv(request'[s])
        /\ \A s \in Thread : request'[s] = IF s = t THEN n ELSE request[s]
        /\ AloneInv'
    BY OneRequest
  <1>2. Live' = Live /\ Ids' = Ids /\ Named' = Named
    BY DEF Live, Ids, Named
  <1>3. \A s \in Thread : request'[s].uuid = request[s].uuid
    BY <1>1, IdleFacts
  <1>4. StateInv'
    BY <1>1, <1>2, <1>3 DEF IInv, StateInv
  <1>5. RemovalInv'
    <2>1. ASSUME NEW p \in Person, n.pc \in Removing, n.alone, n.person = p
          PROVE  n.uuid = IdOf(p)'
      <3>1. n.person = request[t].person /\ n.alone = request[t].alone /\ n.uuid = request[t].uuid
        BY <2>1, IdleFacts DEF Removing
      <3>2. n.uuid = IdOf(p)
        BY <2>1, <3>1 DEF IInv, RemovalInv
      <3> QED BY <3>2
    <2>2. ASSUME NEW s \in Thread
          PROVE  /\ \A p \in Person :
                       request'[s].pc \in Removing /\ request'[s].alone /\ request'[s].person = p
                       => request'[s].uuid = IdOf(p)'
                 /\ request'[s].pc = "commit" => request'[s].uuid \notin Live' \ apart'
      <3>1. CASE s = t
        BY <1>1, <2>1, <3>1
      <3>2. CASE s # t
        BY <1>1, <1>2, <3>2, OthersRemove
      <3> QED BY <3>1, <3>2
    <2> QED BY <2>2 DEF RemovalInv
  <1>6. UniqueInv'
    <2>1. \A p \in Person, k \in Ids : Claims(p, k)' => Claims(p, k)
      BY <1>1 DEF Claims
    <2> QED BY <2>1, SameClaims
  <1>7. NamedInv'
    <2>1. \A s \in Thread : request[s].pc = "commit" => request'[s] = request[s]
      BY <1>1
    <2>2. \A s \in Thread : request'[s].pc = "record" => request'[s] = request[s]
      BY <1>1
    <2>3. ASSUME NEW p \in Person
          PROVE  \/ IdOf(p)' \in Live \cup apart' \cup {None}
                 \/ \E s \in Thread : /\ request'[s].person = p /\ request'[s].pc = "commit"
                                      /\ request'[s].uuid = IdOf(p)'
      BY <2>1 DEF IInv, NamedInv
    <2>4. \A s \in Thread : request'[s].pc = "record" => request'[s].uuid \in Live \cup apart'
      BY <2>2 DEF IInv, NamedInv
    <2> QED BY <1>2, <2>3, <2>4 DEF NamedInv
  <1>8. NoUserLeftBehind'
    <2>1. Held' = Held
      BY <1>3 DEF Held
    <2> QED BY <1>2, <2>1 DEF IInv, NoUserLeftBehind
  <1> QED BY <1>1, <1>4, <1>5, <1>6, <1>7, <1>8 DEF IInv

\* What a request that overlapped parts is ids.
LEMMA OverlappedIds == ASSUME IInv, NEW t \in Thread, request[t].pc # "idle"
                       PROVE  Overlapped(request[t]) \subseteq Ids
  BY DEF Overlapped, IInv, StateInv, RequestInv

----------------------------------------------------------------------------
\* A row that is saved keeps its id, a new one has none.
LEMMA SaveKeeps == ASSUME IInv, NEW t \in Thread, Save(t) PROVE IInv'
  <1> DEFINE q == request[t]
             n == [q EXCEPT !.pc = "answers"]
  <1>q. /\ q \in Request /\ RequestInv(q) /\ q.pc = "save" /\ q.person \in Person /\ q.uuid = None
        /\ row \in [Person -> Row \cup {NoRow}] /\ request' = [request EXCEPT ![t] = n]
    BY DEF Save, Goes, IInv, StateInv, RequestInv
  <1>n. /\ n \in Request /\ n.pc = "answers" /\ n.person = q.person /\ n.uuid = q.uuid
        /\ n.alone = q.alone /\ RequestInv(n)
    BY <1>q DEF RequestInv, Request
  <1>1. Blank \in Row /\ Blank # NoRow /\ Blank.uuid = None
    BY NoRowAssumption DEF Blank, Row
  <1>2. /\ row' \in [Person -> Row \cup {NoRow}]
        /\ \A p \in Person : row'[p] = row[p] \/ (row[p] = NoRow /\ row'[p] = Blank)
    BY <1>q, <1>1 DEF Save
  <1>3. \A p \in Person : IdOf(p)' = IdOf(p)
    BY <1>1, <1>2 DEF IdOf
  <1>4. apart \subseteq apart' /\ apart' \subseteq Ids
    BY <1>q, OverlappedIds DEF Save, Parts, IInv, StateInv
  <1> HIDE DEF n
  <1> QED BY <1>q, <1>n, <1>2, <1>3, <1>4, Quiet DEF Save, Removing

\* Answers change the name, not the id.
LEMMA AnswersKeeps == ASSUME IInv, NEW t \in Thread, Answers(t) PROVE IInv'
  <1> DEFINE q == request[t]
             n == [q EXCEPT !.pc = "look"]
  <1>q. /\ q \in Request /\ RequestInv(q) /\ q.pc = "answers" /\ q.person \in Person /\ q.uuid = None
        /\ q.posted \in Username \cup {None}
        /\ row \in [Person -> Row \cup {NoRow}] /\ request' = [request EXCEPT ![t] = n]
    BY DEF Answers, Goes, IInv, StateInv, RequestInv, Request
  <1>n. /\ n \in Request /\ n.pc = "look" /\ n.person = q.person /\ n.uuid = q.uuid
        /\ n.alone = q.alone /\ RequestInv(n)
    BY <1>q DEF RequestInv, Request
  <1>2. /\ row' \in [Person -> Row \cup {NoRow}]
        /\ \A p \in Person :
              \/ row'[p] = row[p]
              \/ row[p] # NoRow /\ row'[p] # NoRow /\ row'[p].uuid = row[p].uuid
    <2>1. CASE UNCHANGED row
      BY <1>q, <2>1
    <2>2. CASE /\ row[q.person] # NoRow
               /\ row' = [row EXCEPT ![q.person].username = IF q.posted = None THEN @ ELSE q.posted]
      <3> DEFINE r == row[q.person]
                 name == IF q.posted = None THEN r.username ELSE q.posted
                 k == [r EXCEPT !.username = name]
      <3>1. r \in Row /\ name \in Username \cup {None}
        BY <1>q, <2>2 DEF Row
      <3> HIDE DEF name
      <3>2. k \in Row /\ k # NoRow /\ k.uuid = r.uuid
        BY <3>1, NoRowAssumption DEF Row
      <3>3. row' = [row EXCEPT ![q.person] = k]
        BY <1>q, <2>2 DEF name
      <3> HIDE DEF k
      <3> QED BY <1>q, <2>2, <3>2, <3>3
    <2> QED BY <2>1, <2>2 DEF Answers
  <1>3. \A p \in Person : IdOf(p)' = IdOf(p)
    BY <1>2 DEF IdOf
  <1>4. apart \subseteq apart' /\ apart' \subseteq Ids
    BY <1>q, OverlappedIds DEF Answers, Parts, IInv, StateInv
  <1> HIDE DEF n
  <1> QED BY <1>q, <1>n, <1>2, <1>3, <1>4, Quiet DEF Answers, Removing

\* A person without a row or a name is left as it is.
LEMMA LookKeeps == ASSUME IInv, NEW t \in Thread, Look(t) PROVE IInv'
  <1> DEFINE q == request[t]
             name == row[q.person].username
             n == [q EXCEPT !.pc = "keycloak", !.name = name]
  <1>q. /\ q \in Request /\ RequestInv(q) /\ q.pc = "look" /\ q.person \in Person /\ q.uuid = None
        /\ row \in [Person -> Row \cup {NoRow}] /\ UNCHANGED <<row, users, made, apart>>
        /\ request \in [Thread -> Request]
    BY DEF Look, IInv, StateInv, RequestInv
  <1>1. \A p \in Person : IdOf(p)' = IdOf(p)
    BY <1>q DEF IdOf
  <1>2. apart \subseteq apart' /\ apart' \subseteq Ids
    BY <1>q DEF IInv, StateInv
  <1>3. CASE request' = [request EXCEPT ![t] = Idle]
    BY <1>q, <1>1, <1>2, <1>3, IdleFacts, Quiet DEF Removing
  <1>4. CASE row[q.person] # NoRow /\ name # None /\ request' = [request EXCEPT ![t] = n]
    <2>1. name \in Username
      BY <1>q, <1>4 DEF Row
    <2> HIDE DEF name
    <2>2. /\ n \in Request /\ n.pc = "keycloak" /\ n.person = q.person /\ n.uuid = q.uuid
          /\ n.alone = q.alone /\ n.name = name
      BY <1>q, <2>1 DEF Request
    <2> HIDE DEF n
    <2>3. RequestInv(n)
      BY <1>q, <2>1, <2>2 DEF RequestInv
    <2> QED BY <1>q, <1>1, <1>2, <1>4, <2>2, <2>3, Quiet DEF Removing
  <1>5. \/ request' = [request EXCEPT ![t] = Idle]
        \/ row[q.person] # NoRow /\ name # None /\ request' = [request EXCEPT ![t] = n]
    BY <1>q DEF Look, Ends, Request
  <1> QED BY <1>3, <1>4, <1>5

\* The row is removed when the transaction commits.
LEMMA DeleteKeeps == ASSUME IInv, NEW t \in Thread, Delete(t) PROVE IInv'
  <1> DEFINE q == request[t]
             n == [q EXCEPT !.pc = "drop"]
  <1>q. /\ q \in Request /\ RequestInv(q) /\ q.pc = "delete" /\ q.person \in Person
        /\ row \in [Person -> Row \cup {NoRow}] /\ request' = [request EXCEPT ![t] = n]
        /\ UNCHANGED <<row, users, made, apart>>
    BY DEF Delete, Goes, IInv, StateInv, RequestInv
  <1>n. /\ n \in Request /\ n.pc = "drop" /\ n.person = q.person /\ n.uuid = q.uuid
        /\ n.alone = q.alone /\ RequestInv(n)
    BY <1>q DEF RequestInv, Request
  <1>3. \A p \in Person : IdOf(p)' = IdOf(p)
    BY <1>q DEF IdOf
  <1>4. apart \subseteq apart' /\ apart' \subseteq Ids
    BY <1>q DEF IInv, StateInv
  <1> HIDE DEF n
  <1> QED BY <1>q, <1>n, <1>3, <1>4, Quiet DEF Removing

----------------------------------------------------------------------------
\* A request begins: those it meets are not alone any more.
LEMMA BeginsKeeps == ASSUME IInv, NEW t \in Thread, NEW p \in Person, NEW q \in Request,
                            request[t] = Idle, Begins(t, p, q), q.pc \in {"save", "delete"},
                            q.pc = "save" => q.uuid = None,
                            q.pc = "delete" => q.uuid = IdOf(p),
                            UNCHANGED <<row, users, made, apart>>
                     PROVE  IInv'
  <1> DEFINE met == {s \in Thread \ {t} : request[s].person = p}
             first == met = {}
             n == [q EXCEPT !.person = p, !.alone = first]
             a(s) == request[s].alone /\ s \notin met
             m(s) == [request[s] EXCEPT !.alone = a(s)]
  <1>1. request' = [s \in Thread |-> IF s = t THEN n ELSE m(s)]
    BY DEF Begins
  <1>b. first \in BOOLEAN /\ \A s \in Thread : a(s) \in BOOLEAN
    OBVIOUS
  <1>n. /\ n \in Request /\ n.pc = q.pc /\ n.person = p /\ n.uuid = q.uuid /\ n.alone = first
    <2> HIDE DEF first
    <2> QED BY <1>b DEF Request
  <1>m. ASSUME NEW s \in Thread
        PROVE  /\ m(s) \in Request /\ m(s).pc = request[s].pc /\ m(s).person = request[s].person
               /\ m(s).uuid = request[s].uuid /\ m(s).alone = a(s) /\ RequestInv(m(s))
    <2>1. request[s] \in Request /\ RequestInv(request[s])
      BY DEF IInv, StateInv
    <2> HIDE DEF a
    <2>2. /\ m(s) \in Request /\ m(s).pc = request[s].pc /\ m(s).person = request[s].person
          /\ m(s).uuid = request[s].uuid /\ m(s).alone = a(s) /\ m(s).name = request[s].name
      BY <1>b, <2>1 DEF Request
    <2>3. RequestInv(m(s))
      <3>1. CASE request[s].pc # "idle"
        BY <2>1, <2>2, <3>1 DEF RequestInv
      <3>2. CASE request[s].pc = "idle"
        <4>1. request[s] = Idle /\ request[s].person # p
          BY <2>1, <3>2, IdleFacts, NoneAssumption DEF RequestInv
        <4>2. a(s) = TRUE
          BY <4>1, IdleFacts DEF a
        <4>3. m(s) = request[s]
          BY <2>1, <4>1, <4>2, IdleFacts DEF Request
        <4> QED BY <2>1, <4>3
      <3> QED BY <3>1, <3>2
    <2> QED BY <2>2, <2>3
  <1>a. /\ first => \A s \in Thread : s # t => request[s].person # p
        /\ \A s \in Thread : s # t /\ a(s) => request[s].alone /\ request[s].person # p
    OBVIOUS
  <1> HIDE DEF n, m, a, first
  <1>2. \A s \in Thread : request'[s] = IF s = t THEN n ELSE m(s)
    BY <1>1
  <1>3. RequestInv(n)
    BY <1>n DEF RequestInv
  <1>4. Live' = Live /\ Ids' = Ids /\ Named' = Named /\ \A o \in Person : IdOf(o)' = IdOf(o)
    BY DEF Live, Ids, Named, IdOf
  <1>5. StateInv'
    <2>1. \A s \in Thread : request'[s].uuid \in Ids \cup {None}
      BY <1>2, <1>n, <1>m DEF IInv, StateInv
    <2>2. request' \in [Thread -> Request] /\ \A s \in Thread : RequestInv(request'[s])
      BY <1>1, <1>2, <1>n, <1>m, <1>3
    <2> QED BY <1>4, <2>1, <2>2 DEF IInv, StateInv
  <1>6. AloneInv'
    <2> SUFFICES ASSUME NEW r \in Thread, NEW s \in Thread, r # s, request'[s].pc # "idle",
                        request'[s].alone
                 PROVE  request'[r].person # request'[s].person
      BY DEF AloneInv
    <2>1. CASE s = t
      BY <1>2, <1>n, <1>m, <1>a, <2>1
    <2>2. CASE s # t
      <3>1. /\ request'[s].person = request[s].person /\ request[s].person # p
            /\ request[s].pc # "idle" /\ request[s].alone
        BY <1>2, <1>m, <1>a, <2>2
      <3>2. request[r].person # request[s].person
        BY <3>1 DEF IInv, AloneInv
      <3> QED BY <1>2, <1>n, <1>m, <3>1, <3>2
    <2> QED BY <2>1, <2>2
  <1>7. RemovalInv'
    <2>1. \A s \in Thread, o \in Person :
             request'[s].pc \in Removing /\ request'[s].alone /\ request'[s].person = o
             => request'[s].uuid = IdOf(o)
      <3> SUFFICES ASSUME NEW s \in Thread, NEW o \in Person, request'[s].pc \in Removing,
                          request'[s].alone, request'[s].person = o
                   PROVE  request'[s].uuid = IdOf(o)
        OBVIOUS
      <3>1. CASE s = t
        BY <1>2, <1>n, <3>1 DEF Removing
      <3>2. CASE s # t
        <4>1. /\ request[s].pc \in Removing /\ request[s].alone /\ request[s].person = o
              /\ request'[s].uuid = request[s].uuid
          BY <1>2, <1>m, <1>a, <3>2
        <4> QED BY <4>1 DEF IInv, RemovalInv
      <3> QED BY <3>1, <3>2
    <2>2. \A s \in Thread : request'[s].pc = "commit" => request'[s].uuid \notin Live \ apart
      BY <1>2, <1>n, <1>m DEF IInv, RemovalInv
    <2> QED BY <1>4, <2>1, <2>2 DEF RemovalInv
  <1>8. UniqueInv'
    <2>1. \A o \in Person, k \in Ids : Claims(o, k)' => Claims(o, k)
      BY <1>2, <1>4, <1>n, <1>m DEF Claims
    <2> QED BY <2>1, SameClaims
  <1>9. NamedInv'
    <2>1. \A s \in Thread : request[s].pc = "commit"
             => /\ request'[s].pc = "commit" /\ request'[s].person = request[s].person
                /\ request'[s].uuid = request[s].uuid
      BY <1>2, <1>m, IdleFacts
    <2>2. \A s \in Thread : request'[s].pc = "record"
                            => request[s].pc = "record" /\ request'[s].uuid = request[s].uuid
      BY <1>2, <1>m, <1>n
    <2>3. \A o \in Person :
             \/ IdOf(o) \in Live \cup apart \cup {None}
             \/ \E s \in Thread : /\ request'[s].person = o /\ request'[s].pc = "commit"
                                  /\ request'[s].uuid = IdOf(o)
      BY <2>1 DEF IInv, NamedInv
    <2>4. \A s \in Thread : request'[s].pc = "record" => request'[s].uuid \in Live \cup apart
      BY <2>2 DEF IInv, NamedInv
    <2> QED BY <1>4, <2>3, <2>4 DEF NamedInv
  <1>10. NoUserLeftBehind'
    <2>1. \A s \in Thread : request[s].uuid # None => request'[s].uuid = request[s].uuid
      BY <1>2, <1>m, IdleFacts
    <2>2. Held \subseteq Held'
      BY <2>1 DEF Held
    <2> QED BY <1>4, <2>2 DEF IInv, NoUserLeftBehind
  <1> QED BY <1>5, <1>6, <1>7, <1>8, <1>9, <1>10 DEF IInv

\* create begins without an id,
LEMMA CreateKeeps == ASSUME IInv, NEW t \in Thread, Create(t) PROVE IInv'
  <1>1. PICK p \in Person, n \in Username \cup {None} :
           Begins(t, p, [Idle EXCEPT !.pc = "save", !.posted = n, !.found = row[p] # NoRow])
    BY DEF Create
  <1> DEFINE f == row[p] # NoRow
             q == [Idle EXCEPT !.pc = "save", !.posted = n, !.found = f]
  <1>2. q \in Request /\ q.pc = "save" /\ q.uuid = None
    <2>1. f \in BOOLEAN /\ Idle \in Request
      BY IdleFacts DEF RequestInv
    <2> HIDE DEF f
    <2> QED BY <2>1, IdleFacts DEF Request
  <1> QED BY <1>1, <1>2, BeginsKeeps DEF Create

\* and removeUser with the id that the row names.
LEMMA RemoveKeeps == ASSUME IInv, NEW t \in Thread, Remove(t) PROVE IInv'
  <1>1. PICK p \in Person : Begins(t, p, [Idle EXCEPT !.pc = "delete", !.uuid = IdOf(p)])
    BY DEF Remove, IdToRemove
  <1> DEFINE q == [Idle EXCEPT !.pc = "delete", !.uuid = IdOf(p)]
  <1>2. q \in Request /\ q.pc = "delete" /\ q.uuid = IdOf(p)
    <2>1. IdOf(p) \in Uuid \cup {None} /\ Idle \in Request
      BY IdleFacts, IdFacts DEF RequestInv, IInv, StateInv
    <2> QED BY <2>1, IdleFacts DEF Request
  <1> QED BY <1>1, <1>2, BeginsKeeps DEF Remove

----------------------------------------------------------------------------
\* A step of the request of thread t, which becomes n: whatever it does to users and to the row
\* of its person, it changes no other row and adds no user that was there before.
OwnStep(t, n) ==
    /\ request' = [request EXCEPT ![t] = n]
    /\ RequestInv(n) /\ request[t].pc # "idle"
    /\ n = Idle \/ (n.person = request[t].person /\ n.alone = request[t].alone)
    /\ n.uuid \in Ids' \cup {None}
    /\ \A p \in Person : n.pc \in Removing /\ n.alone /\ p = request[t].person => n.uuid = IdOf(p)'
    /\ n.pc = "commit" => n.uuid \notin Live' \ apart'
    /\ row' \in [Person -> Row \cup {NoRow}]
    /\ \A p \in Person : p # request[t].person => IdOf(p)' = IdOf(p)
    /\ \A p \in Person : IdOf(p)' \in Ids' \cup {None}
    /\ users' \in [Username -> Uuid \cup {None}]
    /\ \A u \in Username : users'[u] \in Ids' \cup {None}
    /\ made' \in 0..MaxUsers /\ Ids \subseteq Ids'
    /\ apart \subseteq apart' /\ apart' \subseteq Ids'
    /\ \A k \in Ids : k \in Live' => k \in Live

\* It keeps what is said of types, of requests that are alone and of the removals of others.
LEMMA StepKeeps == ASSUME IInv, NEW t \in Thread, NEW n, OwnStep(t, n)
                   PROVE  /\ StateInv' /\ AloneInv' /\ RemovalInv'
                          /\ \A s \in Thread : request'[s] = IF s = t THEN n ELSE request[s]
  <1> USE DEF OwnStep
  <1>1. /\ request' \in [Thread -> Request] /\ \A s \in Thread : RequestInv(request'[s])
        /\ \A s \in Thread : request'[s] = IF s = t THEN n ELSE request[s]
        /\ AloneInv'
    BY OneRequest
  <1>2. \A s \in Thread : request'[s].uuid \in Ids' \cup {None}
    BY <1>1 DEF IInv, StateInv
  <1>3. StateInv'
    BY <1>1, <1>2 DEF StateInv
  <1>4. ASSUME NEW p \in Person, n.pc \in Removing, n.alone, n.person = p
        PROVE  n.uuid = IdOf(p)'
    <2>1. p = request[t].person
      BY <1>4, IdleFacts DEF Removing
    <2> QED BY <1>4, <2>1
  <1>5. ASSUME NEW s \in Thread
        PROVE  /\ \A p \in Person :
                     request'[s].pc \in Removing /\ request'[s].alone /\ request'[s].person = p
                     => request'[s].uuid = IdOf(p)'
               /\ request'[s].pc = "commit" => request'[s].uuid \notin Live' \ apart'
    <2>1. CASE s = t
      BY <1>1, <1>4, <2>1
    <2>2. CASE s # t
      BY <1>1, <2>2, OthersRemove
    <2> QED BY <2>1, <2>2
  <1> QED BY <1>1, <1>3, <1>5 DEF RemovalInv

\* What is known of a request that runs.
LEMMA Running == ASSUME IInv, NEW t \in Thread, request[t].pc # "idle"
                 PROVE  /\ request[t] \in Request /\ RequestInv(request[t]) /\ request[t].person \in Person
                        /\ request[t].uuid \in Ids \cup {None} /\ request[t].alone \in BOOLEAN
                        /\ IdOf(request[t].person) \in Ids \cup {None}
                        /\ row \in [Person -> Row \cup {NoRow}] /\ users \in [Username -> Uuid \cup {None}]
                        /\ request \in [Thread -> Request]
                        /\ ~request[t].alone => {request[t].uuid, IdOf(request[t].person)} \ {None}
                                                = Overlapped(request[t])
  BY DEF IInv, StateInv, RequestInv, Overlapped, Request

\* A user that is made belongs to the request, or its id is lost.
LEMMA CreateUserKeeps == ASSUME IInv, NEW t \in Thread, CreateUser(t) PROVE IInv'
  <1> DEFINE q == request[t]
             k == made + 1
             r == [q EXCEPT !.pc = "record", !.uuid = k]
  <1>q. /\ q.pc = "keycloak" /\ q \in Request /\ RequestInv(q) /\ q.person \in Person /\ q.uuid = None
        /\ q.name \in Username /\ users[q.name] = None /\ made < MaxUsers /\ made' = k
        /\ users' = [users EXCEPT ![q.name] = k] /\ row' = row
        /\ users \in [Username -> Uuid \cup {None}] /\ row \in [Person -> Row \cup {NoRow}]
        /\ request \in [Thread -> Request]
    BY Running DEF CreateUser, RequestInv
  <1>k. k \in Uuid /\ k \notin Ids /\ Ids' = Ids \cup {k} /\ k # None /\ made' \in 0..MaxUsers /\ made \in Nat
    BY <1>q, BoundAssumption, IdFacts, NoneAssumption DEF Uuid, Ids, IInv, StateInv
  <1>r. /\ r \in Request /\ r.pc = "record" /\ r.person = q.person /\ r.alone = q.alone /\ r.uuid = k
        /\ r.name = q.name
    <2> HIDE DEF k
    <2> QED BY <1>q, <1>k DEF Request
  <1>1. PICK n : /\ request' = [request EXCEPT ![t] = n]
                 /\ n = r \/ (n = Idle /\ k \in apart')
                 /\ Overlapped(q) \ {None} \subseteq apart'
                 /\ apart \subseteq apart' /\ apart' \subseteq Ids \cup {k}
    <2>1. apart \subseteq Ids /\ Overlapped(q) \subseteq Ids
      BY <1>q, IdFacts, OverlappedIds
    <2>2. /\ \/ apart' = apart \cup (Overlapped(q) \ {None})
             \/ apart' = apart \cup ((Overlapped(q) \cup {k}) \ {None})
          /\ \/ request' = [request EXCEPT ![t] = r]
             \/ request' = [request EXCEPT ![t] = Idle] /\ k \in apart'
      BY <1>q, <1>k DEF CreateUser, Ends, Parts, Request
    <2> HIDE DEF r, k
    <2> QED BY <1>k, <2>1, <2>2
  <1> HIDE DEF r, k
  <1>n. /\ RequestInv(n)
        /\ n = Idle \/ (n.person = q.person /\ n.alone = q.alone)
        /\ n.pc \notin Removing /\ n.pc # "commit" /\ n.uuid \in {k, None}
        /\ n.pc = "record" => n = r
    BY <1>q, <1>k, <1>r, <1>1, IdleFacts DEF RequestInv, Removing
  <1>2. \A p \in Person : IdOf(p)' = IdOf(p) /\ IdOf(p) \in Ids \cup {None}
    BY <1>q DEF IdOf, IInv, StateInv
  <1>3. Named' = Named
    BY <1>2 DEF Named
  <1>4. /\ \A u \in Username : users'[u] = IF u = q.name THEN k ELSE users[u]
        /\ users' \in [Username -> Uuid \cup {None}]
        /\ \A u \in Username : users'[u] \in Ids' \cup {None}
    BY <1>q, <1>k DEF IInv, StateInv
  <1>5. Live' = Live \cup {k}
    BY <1>q, <1>k, <1>4 DEF Live
  <1>7. /\ StateInv' /\ AloneInv' /\ RemovalInv'
        /\ \A s \in Thread : request'[s] = IF s = t THEN n ELSE request[s]
    <2>1. \A j \in Ids : j \in Live' => j \in Live
      BY <1>k, <1>5
    <2>2. row' \in [Person -> Row \cup {NoRow}]
      BY <1>q
    <2>3. OwnStep(t, n)
      BY <1>q, <1>k, <1>1, <1>n, <1>2, <1>4, <2>1, <2>2 DEF OwnStep
    <2> QED BY <2>3, StepKeeps
  <1>8. UniqueInv'
    <2>1. \A p \in Person, j \in Ids : Claims(p, j)' => Claims(p, j)
      BY <1>k, <1>7, <1>n, <1>r, <1>2 DEF Claims
    <2>2. \A p \in Person, j \in Ids' : j = k /\ Claims(p, j)' => p = q.person
      BY <1>k, <1>7, <1>n, <1>r, <1>2 DEF Claims, IInv, StateInv
    <2>3. ASSUME NEW p \in Person, NEW o \in Person, NEW j \in Ids', p # o, Claims(p, j)', Claims(o, j)'
          PROVE  j \in apart'
      BY <1>k, <1>1, <1>q, <2>1, <2>2, <2>3 DEF IInv, UniqueInv
    <2> QED BY <2>3 DEF UniqueInv
  <1>9. NamedInv'
    <2>1. \A s \in Thread : request[s].pc = "commit" => request'[s] = request[s]
      BY <1>7, <1>q
    <2>2. ASSUME NEW p \in Person
          PROVE  \/ IdOf(p)' \in Live' \cup apart' \cup {None}
                 \/ \E s \in Thread : /\ request'[s].person = p /\ request'[s].pc = "commit"
                                      /\ request'[s].uuid = IdOf(p)'
      BY <1>1, <1>2, <1>5, <2>1 DEF IInv, NamedInv
    <2>3. \A s \in Thread : request'[s].pc = "record" => request'[s].uuid \in Live' \cup apart'
      BY <1>1, <1>5, <1>7, <1>n, <1>r DEF IInv, NamedInv
    <2> QED BY <2>2, <2>3 DEF NamedInv
  <1>10. NoUserLeftBehind'
    <2>1. Held \subseteq Held'
      BY <1>7, <1>q DEF Held
    <2>2. k \in Held' \cup apart'
      BY <1>7, <1>1, <1>r, <1>k DEF Held
    <2> QED BY <1>1, <1>3, <1>5, <2>1, <2>2 DEF IInv, NoUserLeftBehind
  <1> QED BY <1>7, <1>8, <1>9, <1>10 DEF IInv

\* A user that is found has the id of the row already, or is parted.
LEMMA FindUserKeeps == ASSUME IInv, NEW t \in Thread, FindUser(t) PROVE IInv'
  <1> DEFINE q == request[t]
             k == users[q.name]
             n == [q EXCEPT !.pc = "record", !.uuid = k]
  <1>q. /\ q.pc = "keycloak" /\ q \in Request /\ RequestInv(q) /\ q.person \in Person /\ q.uuid = None
        /\ q.name \in Username /\ k # None /\ request' = [request EXCEPT ![t] = n]
        /\ users \in [Username -> Uuid \cup {None}] /\ row \in [Person -> Row \cup {NoRow}]
        /\ request \in [Thread -> Request]
        /\ UNCHANGED <<row, users, made>>
    BY Running DEF FindUser, RequestInv
  <1>k. k \in Live /\ k \in Uuid /\ k \in Ids
    BY <1>q, IdFacts DEF Live
  <1>a. /\ apart \subseteq apart' /\ apart' \subseteq Ids
        /\ k = IdOf(q.person) \/ k \in apart'
    <2>1. apart \subseteq Ids /\ Overlapped(q) \subseteq Ids
      BY <1>q, IdFacts, OverlappedIds
    <2> QED BY <1>q, <1>k, <2>1 DEF FindUser, Parts
  <1> HIDE DEF k
  <1>n. /\ n \in Request /\ n.pc = "record" /\ n.person = q.person /\ n.alone = q.alone /\ n.uuid = k
        /\ n.name = q.name
    BY <1>q, <1>k DEF Request
  <1> HIDE DEF n
  <1>m. RequestInv(n) /\ n.pc \notin Removing /\ n.pc # "commit"
    BY <1>q, <1>n DEF RequestInv, Removing
  <1>2. Live' = Live /\ Ids' = Ids /\ Named' = Named /\ \A p \in Person : IdOf(p)' = IdOf(p)
    BY <1>q DEF Live, Ids, Named, IdOf
  <1>3. /\ StateInv' /\ AloneInv' /\ RemovalInv'
        /\ \A s \in Thread : request'[s] = IF s = t THEN n ELSE request[s]
    <2>1. /\ row' \in [Person -> Row \cup {NoRow}] /\ users' \in [Username -> Uuid \cup {None}]
          /\ made' \in 0..MaxUsers /\ \A u \in Username : users'[u] \in Ids' \cup {None}
          /\ \A p \in Person : IdOf(p)' \in Ids' \cup {None}
      BY <1>q, <1>2 DEF IInv, StateInv
    <2>2. \A j \in Ids : j \in Live' => j \in Live
      BY <1>2
    <2>3. OwnStep(t, n)
      BY <1>q, <1>k, <1>a, <1>n, <1>m, <1>2, <2>1, <2>2 DEF OwnStep
    <2> QED BY <2>3, StepKeeps
  <1>4. UniqueInv'
    <2>1. \A p \in Person, j \in Ids : Claims(p, j)' => Claims(p, j) \/ j \in apart'
      BY <1>a, <1>n, <1>2, <1>3 DEF Claims
    <2> QED BY <1>q, <1>a, <2>1, SameClaims
  <1>5. NamedInv'
    <2>1. \A s \in Thread : request[s].pc = "commit" => request'[s] = request[s]
      BY <1>3, <1>q
    <2>2. ASSUME NEW p \in Person
          PROVE  \/ IdOf(p)' \in Live' \cup apart' \cup {None}
                 \/ \E s \in Thread : /\ request'[s].person = p /\ request'[s].pc = "commit"
                                      /\ request'[s].uuid = IdOf(p)'
      BY <1>a, <1>2, <2>1 DEF IInv, NamedInv
    <2>3. \A s \in Thread : request'[s].pc = "record" => request'[s].uuid \in Live' \cup apart'
      BY <1>a, <1>k, <1>2, <1>3, <1>n DEF IInv, NamedInv
    <2> QED BY <2>2, <2>3 DEF NamedInv
  <1>6. NoUserLeftBehind'
    <2>1. Held \subseteq Held'
      BY <1>3, <1>q DEF Held
    <2> QED BY <1>a, <1>2, <2>1 DEF IInv, NoUserLeftBehind
  <1> QED BY <1>3, <1>4, <1>5, <1>6 DEF IInv

----------------------------------------------------------------------------
\* The id that is recorded was claimed before; the one that it replaces is parted.
LEMMA RecordKeeps == ASSUME IInv, NEW t \in Thread, Record(t) PROVE IInv'
  <1> DEFINE q == request[t]
             p == q.person
             old == IdOf(p)
  <1>q. /\ q.pc = "record" /\ q \in Request /\ RequestInv(q) /\ p \in Person /\ q.uuid # None
        /\ q.uuid \in Ids /\ q.uuid \in Uuid /\ q.name \in Username /\ request' = [request EXCEPT ![t] = Idle]
        /\ users \in [Username -> Uuid \cup {None}] /\ row \in [Person -> Row \cup {NoRow}]
        /\ UNCHANGED <<users, made>> /\ old \in Ids \cup {None} /\ Overlapped(q) \subseteq Ids
    BY Running, IdFacts, OverlappedIds DEF Record, Ends, RequestInv
  <1>a. /\ apart \subseteq apart' /\ apart' \subseteq Ids
        /\ \/ /\ row' = [row EXCEPT ![p] =
                            Recorded(IF row[p] = NoRow THEN [Blank EXCEPT !.username = q.name] ELSE row[p],
                                     q.uuid)]
              /\ old \in apart' \cup {q.uuid, None}
           \/ row' = row /\ q.uuid \in apart'
    BY <1>q, IdFacts DEF Record, Parts
  <1>1. /\ row' \in [Person -> Row \cup {NoRow}]
        /\ \A o \in Person : o # p => IdOf(o)' = IdOf(o)
        /\ \/ /\ \A o \in Person : o = p => IdOf(o)' = q.uuid
              /\ old \in apart' \cup {q.uuid, None}
           \/ /\ \A o \in Person : o = p => IdOf(o)' = IdOf(o)
              /\ q.uuid \in apart'
    <2>1. CASE row' = row /\ q.uuid \in apart'
      BY <1>q, <2>1 DEF IdOf
    <2>2. CASE row' # row \/ q.uuid \notin apart'
      <3> DEFINE r == IF row[p] = NoRow THEN [Blank EXCEPT !.username = q.name] ELSE row[p]
                 k == [r EXCEPT !.uuid = q.uuid]
      <3>1. [Blank EXCEPT !.username = q.name] \in Row
        BY <1>q DEF Blank, Row
      <3>2. r \in Row
        BY <1>q, <3>1
      <3> HIDE DEF r
      <3>3. k \in Row /\ k # NoRow /\ k.uuid = q.uuid
        BY <1>q, <3>2, NoRowAssumption DEF Row
      <3>4. row' = [row EXCEPT ![p] = k] /\ old \in apart' \cup {q.uuid, None}
        BY <1>a, <2>2 DEF Recorded, r
      <3> HIDE DEF k
      <3> QED BY <1>q, <3>3, <3>4 DEF IdOf
    <2> QED BY <2>1, <2>2
  <1>2. Live' = Live /\ Ids' = Ids
    BY <1>q DEF Live, Ids
  <1>3. /\ StateInv' /\ AloneInv' /\ RemovalInv'
        /\ \A s \in Thread : request'[s] = IF s = t THEN Idle ELSE request[s]
    <2>1. /\ users' \in [Username -> Uuid \cup {None}] /\ made' \in 0..MaxUsers
          /\ \A u \in Username : users'[u] \in Ids' \cup {None}
          /\ \A o \in Person : IdOf(o)' \in Ids' \cup {None}
      BY <1>q, <1>1, <1>2 DEF IInv, StateInv
    <2>2. OwnStep(t, Idle)
      BY <1>q, <1>a, <1>1, <1>2, <2>1, IdleFacts DEF OwnStep, Removing
    <2> QED BY <2>2, StepKeeps
  <1>4. UniqueInv'
    <2>1. \A o \in Person, j \in Ids : Claims(o, j)' => Claims(o, j)
      BY <1>q, <1>1, <1>3, IdleFacts DEF Claims
    <2> QED BY <1>q, <1>a, <2>1, SameClaims
  <1>5. NamedInv'
    <2>1. \A s \in Thread : request[s].pc = "commit" => request'[s] = request[s]
      BY <1>3, <1>q
    <2>2. q.uuid \in Live \cup apart
      BY <1>q DEF IInv, NamedInv
    <2>3. ASSUME NEW o \in Person
          PROVE  \/ IdOf(o)' \in Live' \cup apart' \cup {None}
                 \/ \E s \in Thread : /\ request'[s].person = o /\ request'[s].pc = "commit"
                                      /\ request'[s].uuid = IdOf(o)'
      <3>1. CASE IdOf(o)' = q.uuid
        BY <1>a, <1>2, <2>2, <3>1
      <3>2. CASE IdOf(o)' = IdOf(o)
        BY <1>a, <1>2, <2>1, <3>2 DEF IInv, NamedInv
      <3> QED BY <1>1, <3>1, <3>2
    <2>4. \A s \in Thread : request'[s].pc = "record" => request'[s].uuid \in Live' \cup apart'
      BY <1>a, <1>2, <1>3, IdleFacts DEF IInv, NamedInv
    <2> QED BY <2>3, <2>4 DEF NamedInv
  <1>6. NoUserLeftBehind'
    <2> SUFFICES ASSUME NEW k \in Live, k \notin apart' PROVE k \in Named' \cup Held'
      BY <1>2 DEF NoUserLeftBehind
    <2>1. k # None /\ k \in Named \cup Held
      BY <1>a DEF Live, IInv, NoUserLeftBehind
    <2>2. CASE k = q.uuid
      BY <1>q, <1>1, <2>1, <2>2 DEF Named
    <2>3. CASE k # q.uuid /\ k \in Named
      <3>1. PICK o \in Person : k = IdOf(o)
        BY <2>3 DEF Named
      <3>2. IdOf(o)' = k
        BY <1>1, <2>1, <2>3, <3>1
      <3> QED BY <2>1, <3>2 DEF Named
    <2>4. CASE k # q.uuid /\ k \in Held
      <3>1. PICK s \in Thread : request[s].uuid = k
        BY <2>4 DEF Held
      <3>2. request'[s].uuid = k
        BY <1>3, <2>4, <3>1
      <3> QED BY <2>1, <3>2 DEF Held
    <2> QED BY <2>1, <2>2, <2>3, <2>4
  <1> QED BY <1>3, <1>4, <1>5, <1>6 DEF IInv

\* A user that is dropped is nobody's but the person's whose removal goes on, or is parted.
LEMMA DropUserKeeps == ASSUME IInv, NEW t \in Thread, DropUser(t) PROVE IInv'
  <1> DEFINE q == request[t]
             p == q.person
             n == [q EXCEPT !.pc = "commit"]
  <1>q. /\ q.pc = "drop" /\ q \in Request /\ RequestInv(q) /\ p \in Person /\ q.uuid \in Ids \cup {None}
        /\ users \in [Username -> Uuid \cup {None}] /\ row \in [Person -> Row \cup {NoRow}]
        /\ request' = [request EXCEPT ![t] = n] /\ UNCHANGED <<row, made>> /\ Overlapped(q) \subseteq Ids
    BY Running, OverlappedIds DEF DropUser, Goes
  <1>n. /\ n \in Request /\ n.pc = "commit" /\ n.person = p /\ n.alone = q.alone /\ n.uuid = q.uuid
        /\ RequestInv(n) /\ n # Idle
    BY <1>q, IdleFacts DEF Request, RequestInv
  <1> HIDE DEF n
  <1>a. /\ apart \subseteq apart' /\ apart' \subseteq Ids
        /\ q.alone \/ q.uuid \in apart' \cup {None}
        /\ users' = users => q.uuid \in apart' \cup {None} \/ \A u \in Username : users[u] # q.uuid
    BY <1>q, IdFacts, Running DEF DropUser, Parts, Dropped
  <1>1. Ids' = Ids /\ Named' = Named /\ \A o \in Person : IdOf(o)' = IdOf(o)
    BY <1>q DEF Ids, Named, IdOf
  <1>2. /\ users' \in [Username -> Uuid \cup {None}]
        /\ \A u \in Username : users'[u] \in {users[u], None}
        /\ \A u \in Username : users[u] # q.uuid => users'[u] = users[u]
    BY <1>q DEF DropUser, Dropped
  <1>3. Live' \subseteq Live /\ Live \subseteq Live' \cup {q.uuid}
    BY <1>2 DEF Live
  <1>4. q.uuid \notin Live' \ apart'
    <2>1. q.uuid \in apart' \cup {None} \/ \A u \in Username : users'[u] # q.uuid
      BY <1>q, <1>a, <1>2, IdFacts DEF DropUser, Dropped
    <2> QED BY <2>1 DEF Live
  <1>5. /\ StateInv' /\ AloneInv' /\ RemovalInv'
        /\ \A s \in Thread : request'[s] = IF s = t THEN n ELSE request[s]
    <2>1. /\ row' \in [Person -> Row \cup {NoRow}] /\ made' \in 0..MaxUsers
          /\ \A u \in Username : users'[u] \in Ids' \cup {None}
          /\ \A o \in Person : IdOf(o)' \in Ids' \cup {None}
      BY <1>q, <1>1, <1>2 DEF IInv, StateInv
    <2>2. q.alone => q.uuid = IdOf(p)
      BY <1>q DEF IInv, RemovalInv, Removing
    <2>3. OwnStep(t, n)
      BY <1>q, <1>n, <1>a, <1>1, <1>2, <1>3, <1>4, <2>1, <2>2 DEF OwnStep
    <2> QED BY <2>3, StepKeeps
  <1>6. UniqueInv'
    <2>1. \A o \in Person, j \in Ids : Claims(o, j)' => Claims(o, j)
      BY <1>q, <1>n, <1>1, <1>5 DEF Claims
    <2> QED BY <1>q, <1>a, <2>1, SameClaims
  <1>7. \A o \in Person : o # p /\ Claims(o, q.uuid) => q.uuid \in apart' \cup {None}
    <2> SUFFICES ASSUME NEW o \in Person, o # p, Claims(o, q.uuid), q.alone, q.uuid # None
                 PROVE  q.uuid \in apart'
      BY <1>a
    <2>1. Claims(p, q.uuid)
      BY <1>q DEF Claims, IInv, RemovalInv, Removing
    <2> QED BY <1>q, <1>a, <2>1 DEF IInv, UniqueInv
  <1>8. NamedInv'
    <2>1. \A s \in Thread : request[s].pc = "commit" => request'[s] = request[s]
      BY <1>5, <1>q
    <2>2. ASSUME NEW o \in Person
          PROVE  \/ IdOf(o)' \in Live' \cup apart' \cup {None}
                 \/ \E s \in Thread : /\ request'[s].person = o /\ request'[s].pc = "commit"
                                      /\ request'[s].uuid = IdOf(o)'
      <3>1. CASE IdOf(o) = q.uuid /\ o = p
        BY <1>1, <1>5, <1>n, <3>1
      <3>2. CASE IdOf(o) = q.uuid /\ o # p
        BY <1>1, <1>7, <3>2 DEF Claims
      <3>3. CASE IdOf(o) # q.uuid
        BY <1>a, <1>1, <1>3, <2>1, <3>3 DEF IInv, NamedInv
      <3> QED BY <3>1, <3>2, <3>3
    <2>3. ASSUME NEW s \in Thread, request'[s].pc = "record"
          PROVE  request'[s].uuid \in Live' \cup apart'
      <3>1. s # t /\ request'[s] = request[s]
        BY <1>5, <1>n, <2>3
      <3>2. request[s].uuid \in Live \cup apart /\ request[s].person \in Person /\ request[s].uuid # None
        BY <2>3, <3>1 DEF IInv, NamedInv, StateInv, RequestInv
      <3>3. CASE request[s].uuid # q.uuid
        BY <1>a, <1>3, <3>1, <3>2, <3>3
      <3>4. CASE request[s].uuid = q.uuid /\ request[s].person # p
        BY <1>7, <2>3, <3>1, <3>2, <3>4 DEF Claims
      <3>5. CASE request[s].uuid = q.uuid /\ request[s].person = p
        BY <1>q, <1>a, <3>1, <3>2, <3>5 DEF IInv, AloneInv
      <3> QED BY <3>3, <3>4, <3>5
    <2> QED BY <2>2, <2>3 DEF NamedInv
  <1>9. NoUserLeftBehind'
    <2>1. Held' = Held
      BY <1>5, <1>n DEF Held
    <2> QED BY <1>a, <1>1, <1>3, <2>1 DEF IInv, NoUserLeftBehind
  <1> QED BY <1>5, <1>6, <1>8, <1>9 DEF IInv

\* The row goes; the user that it names is gone, or is parted.
LEMMA CommitKeeps == ASSUME IInv, NEW t \in Thread, Commit(t) PROVE IInv'
  <1> DEFINE q == request[t]
             p == q.person
  <1>q. /\ q.pc = "commit" /\ p \in Person /\ request' = [request EXCEPT ![t] = Idle]
        /\ row \in [Person -> Row \cup {NoRow}] /\ row' = [row EXCEPT ![p] = NoRow]
        /\ UNCHANGED <<users, made>> /\ Overlapped(q) \subseteq Ids
    BY Running, OverlappedIds DEF Commit, Ends
  <1>a. /\ apart \subseteq apart' /\ apart' \subseteq Ids
        /\ q.alone \/ IdOf(p) \in apart' \cup {None}
    BY <1>q, IdFacts, Running DEF Commit, Parts
  <1>1. /\ row' \in [Person -> Row \cup {NoRow}]
        /\ \A o \in Person : o # p => IdOf(o)' = IdOf(o)
        /\ \A o \in Person : o = p => IdOf(o)' = None
    BY <1>q DEF IdOf
  <1>2. Live' = Live /\ Ids' = Ids
    BY <1>q DEF Live, Ids
  <1>3. /\ StateInv' /\ AloneInv' /\ RemovalInv'
        /\ \A s \in Thread : request'[s] = IF s = t THEN Idle ELSE request[s]
    <2>1. /\ users' \in [Username -> Uuid \cup {None}] /\ made' \in 0..MaxUsers
          /\ \A u \in Username : users'[u] \in Ids' \cup {None}
          /\ \A o \in Person : IdOf(o)' \in Ids' \cup {None}
      BY <1>q, <1>1, <1>2 DEF IInv, StateInv
    <2>2. OwnStep(t, Idle)
      BY <1>q, <1>a, <1>1, <1>2, <2>1, IdleFacts DEF OwnStep, Removing
    <2> QED BY <2>2, StepKeeps
  <1>4. UniqueInv'
    <2>1. \A o \in Person, j \in Ids : Claims(o, j)' => Claims(o, j)
      BY <1>q, <1>1, <1>3, IdleFacts, IdFacts DEF Claims
    <2> QED BY <1>q, <1>a, <2>1, SameClaims
  <1>5. NamedInv'
    <2>1. \A s \in Thread : request[s].pc = "commit" /\ s # t => request'[s] = request[s]
      BY <1>3
    <2>2. ASSUME NEW o \in Person
          PROVE  \/ IdOf(o)' \in Live' \cup apart' \cup {None}
                 \/ \E s \in Thread : /\ request'[s].person = o /\ request'[s].pc = "commit"
                                      /\ request'[s].uuid = IdOf(o)'
      <3>1. CASE o = p
        BY <1>1, <3>1
      <3>2. CASE o # p
        BY <1>a, <1>1, <1>2, <2>1, <3>2 DEF IInv, NamedInv
      <3> QED BY <3>1, <3>2
    <2>3. \A s \in Thread : request'[s].pc = "record" => request'[s].uuid \in Live' \cup apart'
      BY <1>a, <1>2, <1>3, IdleFacts DEF IInv, NamedInv
    <2> QED BY <2>2, <2>3 DEF NamedInv
  <1>6. NoUserLeftBehind'
    <2> SUFFICES ASSUME NEW k \in Live, k \notin apart' PROVE k \in Named' \cup Held'
      BY <1>2 DEF NoUserLeftBehind
    <2>1. k # None /\ k \in Named \cup Held /\ k \notin apart
      BY <1>a DEF Live, IInv, NoUserLeftBehind
    <2>2. k # q.uuid
      BY <1>q, <2>1 DEF IInv, RemovalInv
    <2>3. k # IdOf(p)
      BY <1>q, <1>a, <2>1, <2>2 DEF IInv, RemovalInv, Removing
    <2>4. CASE k \in Named
      <3>1. PICK o \in Person : k = IdOf(o)
        BY <2>4 DEF Named
      <3>2. IdOf(o)' = k
        BY <1>1, <2>3, <3>1
      <3> QED BY <2>1, <3>2 DEF Named
    <2>5. CASE k \in Held
      <3>1. PICK s \in Thread : request[s].uuid = k
        BY <2>5 DEF Held
      <3>2. request'[s].uuid = k
        BY <1>3, <2>2, <3>1
      <3> QED BY <2>1, <3>2 DEF Held
    <2> QED BY <2>1, <2>4, <2>5
  <1> QED BY <1>3, <1>4, <1>5, <1>6 DEF IInv

\* A request that fails leaves its id behind only in the windows that part it.
LEMMA FailKeeps == ASSUME IInv, NEW t \in Thread, Fail(t) PROVE IInv'
  <1> DEFINE q == request[t]
             p == q.person
  <1>q. /\ q.pc # "idle" /\ p \in Person /\ request' = [request EXCEPT ![t] = Idle]
        /\ row \in [Person -> Row \cup {NoRow}] /\ q.uuid \in Ids \cup {None}
        /\ UNCHANGED <<row, users, made>> /\ Overlapped(q) \subseteq Ids
    BY Running, OverlappedIds DEF Fail, Ends
  <1>a. /\ apart \subseteq apart' /\ apart' \subseteq Ids
        /\ q.alone \/ q.uuid \in apart' \cup {None}
        /\ q.pc \in {"record", "commit"} => q.uuid \in apart' \cup {None}
    BY <1>q, IdFacts, Running DEF Fail, Parts
  <1>1. Live' = Live /\ Ids' = Ids /\ Named' = Named /\ \A o \in Person : IdOf(o)' = IdOf(o)
    BY <1>q DEF Live, Ids, Named, IdOf
  <1>3. /\ StateInv' /\ AloneInv' /\ RemovalInv'
        /\ \A s \in Thread : request'[s] = IF s = t THEN Idle ELSE request[s]
    <2>1. /\ users' \in [Username -> Uuid \cup {None}] /\ made' \in 0..MaxUsers
          /\ \A u \in Username : users'[u] \in Ids' \cup {None}
          /\ \A o \in Person : IdOf(o)' \in Ids' \cup {None}
          /\ row' \in [Person -> Row \cup {NoRow}]
      BY <1>q, <1>1 DEF IInv, StateInv
    <2>2. OwnStep(t, Idle)
      BY <1>q, <1>a, <1>1, <2>1, IdleFacts DEF OwnStep, Removing
    <2> QED BY <2>2, StepKeeps
  <1>4. UniqueInv'
    <2>1. \A o \in Person, j \in Ids : Claims(o, j)' => Claims(o, j)
      BY <1>q, <1>1, <1>3, IdleFacts DEF Claims
    <2> QED BY <1>q, <1>a, <2>1, SameClaims
  <1>5. NamedInv'
    <2>1. \A s \in Thread : request[s].pc = "commit" /\ s # t => request'[s] = request[s]
      BY <1>3
    <2>2. ASSUME NEW o \in Person
          PROVE  \/ IdOf(o)' \in Live' \cup apart' \cup {None}
                 \/ \E s \in Thread : /\ request'[s].person = o /\ request'[s].pc = "commit"
                                      /\ request'[s].uuid = IdOf(o)'
      <3>1. CASE q.pc = "commit" /\ q.uuid = IdOf(o)
        BY <1>a, <1>1, <3>1
      <3>2. CASE ~(q.pc = "commit" /\ q.uuid = IdOf(o))
        BY <1>a, <1>1, <2>1, <3>2 DEF IInv, NamedInv
      <3> QED BY <3>1, <3>2
    <2>3. \A s \in Thread : request'[s].pc = "record" => request'[s].uuid \in Live' \cup apart'
      BY <1>a, <1>1, <1>3, IdleFacts DEF IInv, NamedInv
    <2> QED BY <2>2, <2>3 DEF NamedInv
  <1>6. NoUserLeftBehind'
    <2> SUFFICES ASSUME NEW k \in Live, k \notin apart' PROVE k \in Named' \cup Held'
      BY <1>1 DEF NoUserLeftBehind
    <2>1. k # None /\ k \in Named \cup Held
      BY <1>a DEF Live, IInv, NoUserLeftBehind
    <2>2. CASE k \in Named
      BY <1>1, <2>2
    <2>3. CASE k \in Held /\ k # q.uuid
      <3>1. PICK s \in Thread : request[s].uuid = k
        BY <2>3 DEF Held
      <3>2. request'[s].uuid = k
        BY <1>3, <2>3, <3>1
      <3> QED BY <2>1, <3>2 DEF Held
    <2>4. CASE k = q.uuid
      <3>1. q.alone /\ q.pc \in {"delete", "drop"}
        BY <1>q, <1>a, <2>1, <2>4, Running DEF RequestInv, Request
      <3>2. q.uuid = IdOf(p)
        BY <1>q, <3>1 DEF IInv, RemovalInv, Removing
      <3> QED BY <1>q, <1>1, <2>1, <2>4, <3>2 DEF Named
    <2> QED BY <2>1, <2>2, <2>3, <2>4
  <1> QED BY <1>3, <1>4, <1>5, <1>6 DEF IInv

\* A row that goes alone parts its id; no request on its person is alone from then on.
LEMMA RemoveBaseEntityKeeps == ASSUME IInv, NEW p \in Person, RemoveBaseEntity(p) PROVE IInv'
  <1> DEFINE a(s) == request[s].alone /\ request[s].person # p
             m(s) == [request[s] EXCEPT !.alone = a(s)]
  <1>q. /\ row \in [Person -> Row \cup {NoRow}] /\ row' = [row EXCEPT ![p] = NoRow]
        /\ request' = [s \in Thread |-> m(s)] /\ UNCHANGED <<users, made>>
        /\ apart \subseteq apart' /\ apart' \subseteq Ids /\ IdOf(p) \in apart' \cup {None}
    BY IdFacts DEF RemoveBaseEntity, Parts, IInv, StateInv
  <1>m. ASSUME NEW s \in Thread
        PROVE  /\ m(s) \in Request /\ m(s).pc = request[s].pc /\ m(s).person = request[s].person
               /\ m(s).uuid = request[s].uuid /\ m(s).alone = a(s) /\ RequestInv(m(s))
    <2>1. request[s] \in Request /\ RequestInv(request[s]) /\ a(s) \in BOOLEAN
      BY DEF IInv, StateInv
    <2>2. /\ m(s) \in Request /\ m(s).pc = request[s].pc /\ m(s).person = request[s].person
          /\ m(s).uuid = request[s].uuid /\ m(s).alone = a(s) /\ m(s).name = request[s].name
      <3> HIDE DEF a
      <3> QED BY <2>1 DEF Request
    <2>3. CASE request[s].pc # "idle"
      BY <2>1, <2>2, <2>3 DEF RequestInv
    <2>4. CASE request[s].pc = "idle"
      <3>1. request[s] = Idle /\ a(s) = TRUE
        BY <2>1, <2>4, IdleFacts, NoneAssumption DEF RequestInv
      <3> HIDE DEF a
      <3>2. m(s) = request[s]
        BY <2>1, <3>1, IdleFacts DEF Request
      <3> QED BY <2>1, <2>2, <3>2
    <2> QED BY <2>2, <2>3, <2>4
  <1> HIDE DEF m
  <1>1. /\ row' \in [Person -> Row \cup {NoRow}]
        /\ \A o \in Person : o # p => IdOf(o)' = IdOf(o)
        /\ \A o \in Person : o = p => IdOf(o)' = None
    BY <1>q DEF IdOf
  <1>2. Live' = Live /\ Ids' = Ids
    BY <1>q DEF Live, Ids
  <1>3. \A s \in Thread : /\ request'[s].pc = request[s].pc /\ request'[s].person = request[s].person
                          /\ request'[s].uuid = request[s].uuid /\ RequestInv(request'[s])
                          /\ request'[s].alone => request[s].alone /\ request[s].person # p
    BY <1>q, <1>m
  <1>4. StateInv'
    <2>1. request' \in [Thread -> Request]
      BY <1>q, <1>m
    <2> QED BY <1>q, <1>1, <1>2, <1>3, <2>1 DEF IInv, StateInv
  <1>5. AloneInv'
    BY <1>3 DEF IInv, AloneInv
  <1>6. RemovalInv'
    <2>1. \A s \in Thread, o \in Person :
             request'[s].pc \in Removing /\ request'[s].alone /\ request'[s].person = o
             => request'[s].uuid = IdOf(o)'
      BY <1>1, <1>3 DEF IInv, RemovalInv
    <2>2. \A s \in Thread : request'[s].pc = "commit" => request'[s].uuid \notin Live' \ apart'
      BY <1>q, <1>2, <1>3 DEF IInv, RemovalInv
    <2> QED BY <2>1, <2>2 DEF RemovalInv
  <1>7. UniqueInv'
    <2>1. \A o \in Person, j \in Ids : Claims(o, j)' => Claims(o, j)
      BY <1>1, <1>3, IdFacts DEF Claims
    <2> QED BY <1>q, <2>1, SameClaims
  <1>8. NamedInv'
    <2>1. ASSUME NEW o \in Person
          PROVE  \/ IdOf(o)' \in Live' \cup apart' \cup {None}
                 \/ \E s \in Thread : /\ request'[s].person = o /\ request'[s].pc = "commit"
                                      /\ request'[s].uuid = IdOf(o)'
      BY <1>q, <1>1, <1>2, <1>3 DEF IInv, NamedInv
    <2>2. \A s \in Thread : request'[s].pc = "record" => request'[s].uuid \in Live' \cup apart'
      BY <1>q, <1>2, <1>3 DEF IInv, NamedInv
    <2> QED BY <2>1, <2>2 DEF NamedInv
  <1>9. NoUserLeftBehind'
    <2>1. Held' = Held
      BY <1>3 DEF Held
    <2>2. \A k \in Named : k \in Named' \/ k \in apart'
      BY <1>q, <1>1 DEF Named
    <2> QED BY <1>q, <1>2, <2>1, <2>2 DEF IInv, NoUserLeftBehind
  <1> QED BY <1>4, <1>5, <1>6, <1>7, <1>8, <1>9 DEF IInv

----------------------------------------------------------------------------
\* Every step keeps the invariant.
LEMMA NextIInv == IInv /\ [Next]_vars => IInv'
  <1> SUFFICES ASSUME IInv, [Next]_vars PROVE IInv'
    OBVIOUS
  <1>1. ASSUME NEW t \in Thread,
               \/ Create(t) \/ Save(t) \/ Answers(t) \/ Look(t) \/ CreateUser(t) \/ FindUser(t) \/ Record(t)
               \/ Remove(t) \/ Delete(t) \/ DropUser(t) \/ Commit(t) \/ Fail(t)
        PROVE  IInv'
    BY <1>1, CreateKeeps, SaveKeeps, AnswersKeeps, LookKeeps, CreateUserKeeps, FindUserKeeps, RecordKeeps,
       RemoveKeeps, DeleteKeeps, DropUserKeeps, CommitKeeps, FailKeeps
  <1>2. ASSUME NEW p \in Person, RemoveBaseEntity(p) PROVE IInv'
    BY <1>2, RemoveBaseEntityKeeps
  <1>3. CASE UNCHANGED vars
    BY <1>3 DEF vars, IInv, StateInv, Ids, IdOf, AloneInv, RemovalInv, Live, UniqueInv, Claims, NamedInv,
                NoUserLeftBehind, Named, Held
  <1> QED BY <1>1, <1>2, <1>3 DEF Next

\* The inductive invariant always holds.
LEMMA SpecIInv == Spec => []IInv
  BY InitIInv, NextIInv, PTL DEF Spec

----------------------------------------------------------------------------
\* Rows, users and requests are of their types, every id at hand was made, and only a request
\* that has an id records one.
THEOREM PersonsTypeCorrect == Spec => []TypeOK
  <1>1. IInv => TypeOK
    <2> SUFFICES ASSUME IInv PROVE TypeOK
      OBVIOUS
    <2>1. Live \cup Named \cup Held \subseteq 1..made /\ apart \subseteq 1..made
      BY IdFacts DEF Ids
    <2> QED BY <2>1 DEF IInv, StateInv, RequestInv, TypeOK
  <1> QED BY <1>1, SpecIInv, PTL

\* create and removeUser leave no Keycloak user behind outside the windows that the module
\* names, for any number of persons, usernames and request threads.
THEOREM UsersAreNamed == Spec => []NoUserLeftBehind
  <1>1. IInv => NoUserLeftBehind
    BY DEF IInv
  <1> QED BY <1>1, SpecIInv, PTL

\* The row of a person whom no request is at names a user that is there, outside those windows:
\* removeUser drops nobody else's user.
THEOREM RowsNameUsers == Spec => []NoIdDangles
  <1>1. IInv => NoIdDangles
    BY NoneAssumption DEF IInv, NamedInv, NoIdDangles, Busy
  <1> QED BY <1>1, SpecIInv, PTL
=============================================================================
