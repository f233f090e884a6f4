--------------------------- MODULE SheetSyncProofs ---------------------------
(***************************************************************************)
(* Concurrent /syncsheets for any number of units, threads, versions and   *)
(* requests: the cache follows the rows, and what an answered request      *)
(* promised stays.  The inductive invariant IInv says what a request knows *)
(* at each step (RequestInv), that no two hold the same rows (LockInv),    *)
(* and whose entries the cache has (CacheInv).                             *)
(***************************************************************************)
EXTENDS SheetSync, TLAPS, FiniteSetTheorems

\* The data of a request is as old as when it was fetched, but as new as was promised to its
\* client, and as new as what is owed to others for the units on which nobody overtook it.
\* (The sheets are sh, the StateModel is sm, and ow is owed.)
RequestInv(q, sh, sm, ow) ==
    /\ q \in Request
    /\ q.pc \in {"idle", "get"} => q.todo = <<>> /\ q.done = {}
    /\ q.pc \in {"import", "push"} => q.todo # <<>>
    /\ q.overtaken \subseteq UnitsOf(q)
    /\ \A u \in Unit : q.promise[u] <= sh[u]
    /\ q.pc = "get" => \A u \in Unit \ sm : q.promise[u] = 1
    /\ q.pc \notin {"idle", "get"} =>
          \A u \in Unit :
              /\ q.promise[u] <= q.data[u] /\ q.data[u] <= sh[u]
              /\ u \notin UnitsOf(q) => q.promise[u] = 1
              /\ u \in UnitsOf(q) \ q.overtaken => ow[u][q.kind] <= q.data[u]

StateInv ==
    /\ sheet \in [Unit -> Version]
    /\ stateModel \subseteq Unit /\ posts \in 0..MaxRequests
    /\ bean \in Thread \cup {Free}
    /\ rows \in [Unit -> [Kind -> Version]] /\ cache \in [Unit -> Version]
    /\ owed \in [Unit -> [Kind -> Version]]
    /\ request \in [Thread -> Request]
    /\ stale \subseteq Unit

RequestsInv == \A t \in Thread : RequestInv(request[t], sheet, stateModel, owed)
BeanInv == \A t \in Thread : request[t].pc \in {"import", "push"} => bean = t
LockInv == \A s, t \in Thread : s # t => Locked(request[s]) \cap Locked(request[t]) = {}

\* The rows of a unit once a request that has them locked commits.
Written(q, u) == [rows[u] EXCEPT ![q.kind] = q.data[u]]

\* The holder of a unit's rows has pushed what it is going to commit of the imported ones.
CacheInv ==
    \A u \in Unit :
        /\ \A t \in Thread : u \in request[t].done => cache[u] = Pushed(request[t], u)
        /\ u \notin stale /\ (\A t \in Thread : u \notin request[t].done)
           => cache[u] = rows[u]["POST"]

OwedInv == \A u \in Unit, k \in Kind : owed[u][k] <= rows[u][k] /\ owed[u][k] <= sheet[u]

IInv == StateInv /\ RequestsInv /\ BeanInv /\ LockInv /\ CacheInv /\ OwedInv

----------------------------------------------------------------------------
\* Versions are numbers from 1.
LEMMA VersionFacts == Version \subseteq Nat /\ 1 \in Version /\ \A v \in Version : 1 <= v
  BY BoundAssumption DEF Version

\* A thread that serves no request has promised nothing.
LEMMA IdleFacts == /\ Idle \in Request /\ Idle.pc = "idle" /\ Idle.todo = <<>> /\ Idle.done = {}
                   /\ Idle.overtaken = {} /\ Idle.promise = Nothing /\ UnitsOf(Idle) = {}
                   /\ Locked(Idle) = {}
  <1>1. Nothing \in [Unit -> Version]
    BY VersionFacts DEF Nothing
  <1> QED BY <1>1 DEF Idle, Request, Kind, UnitsOf, Locked

\* A thread that serves nothing claims nothing.
LEMMA IdleSound == ASSUME NEW sh \in [Unit -> Version], NEW sm, NEW ow
                   PROVE  RequestInv(Idle, sh, sm, ow)
  <1>1. \A u \in Unit : Nothing[u] = 1 /\ 1 <= sh[u]
    BY VersionFacts DEF Nothing
  <1> QED BY <1>1, IdleFacts DEF RequestInv

\* At first nobody serves and rows and cache are those of the startup.
LEMMA InitIInv == Init => IInv
  <1> SUFFICES ASSUME Init PROVE IInv
    OBVIOUS
  <1>1. StateInv
    BY VersionFacts, IdleFacts, BoundAssumption DEF Init, StateInv
  <1>2. RequestsInv
    BY <1>1, IdleSound DEF Init, StateInv, RequestsInv
  <1>3. BeanInv /\ LockInv /\ CacheInv
    BY IdleFacts DEF Init, BeanInv, LockInv, CacheInv, Kind
  <1>4. OwedInv
    BY VersionFacts DEF Init, OwedInv
  <1> QED BY <1>1, <1>2, <1>3, <1>4 DEF IInv

\* A step that changes one request keeps what the others know.
LEMMA OneRequest == ASSUME IInv, NEW t \in Thread, NEW k,
                           request' = [request EXCEPT ![t] = k],
                           RequestInv(k, sheet, stateModel, owed),
                           UNCHANGED <<sheet, stateModel, owed>>
                    PROVE  request' \in [Thread -> Request] /\ RequestsInv'
  <1>1. k \in Request
    BY DEF RequestInv
  <1> QED BY <1>1 DEF IInv, StateInv, RequestsInv

\* No request holds more rows than before.
LEMMA SameLocks == ASSUME IInv, \A s \in Thread : Locked(request'[s]) \subseteq Locked(request[s])
                   PROVE  LockInv'
  <1> SUFFICES ASSUME NEW r \in Thread, NEW s \in Thread, r # s
               PROVE  Locked(request'[r]) \cap Locked(request'[s]) = {}
    BY DEF LockInv, Locked
  <1> QED BY DEF IInv, LockInv

\* Rows, cache and what requests are through with stay, and so does whose entries the cache has.
LEMMA SameHolders == ASSUME IInv, UNCHANGED <<rows, cache, stale>>,
                            \A s \in Thread :
                               /\ request'[s].done = request[s].done
                               /\ request[s].done # {} => /\ request'[s].kind = request[s].kind
                                                          /\ request'[s].data = request[s].data
                     PROVE  CacheInv'
  <1> SUFFICES ASSUME NEW u \in Unit
               PROVE  /\ \A s \in Thread : u \in request'[s].done => cache[u] = Pushed(request'[s], u)
                      /\ u \notin stale /\ (\A s \in Thread : u \notin request'[s].done)
                         => cache[u] = rows[u]["POST"]
    BY DEF CacheInv, Pushed
  <1> QED BY DEF IInv, CacheInv, Pushed

----------------------------------------------------------------------------
\* The model names the units of the new request alone; the others in its place are promised
\* nothing any more.
LEMMA SetStateModelKeeps == ASSUME IInv, NEW t \in Thread, SetStateModel(t) PROVE IInv'
  <1>1. PICK k \in Kind, S \in (SUBSET Unit) \ {{}} :
          /\ stateModel' = S
          /\ request' = [s \in Thread |->
                IF s = t THEN [Idle EXCEPT !.pc = "get", !.kind = k,
                                  !.promise = [u \in Unit |-> IF u \in S THEN sheet[u] ELSE 1]]
                ELSE IF request[s].pc = "get" THEN [request[s] EXCEPT !.promise = Nothing]
                ELSE request[s]]
    BY DEF SetStateModel
  <1> DEFINE p == [u \in Unit |-> IF u \in S THEN sheet[u] ELSE 1]
             n == [Idle EXCEPT !.pc = "get", !.kind = k, !.promise = p]
             m(s) == [request[s] EXCEPT !.promise = Nothing]
  <1>n. /\ n \in Request /\ n.pc = "get" /\ n.todo = <<>> /\ n.done = {} /\ n.overtaken = {}
        /\ n.promise = p
    <2>1. p \in [Unit -> Version]
      BY VersionFacts DEF IInv, StateInv
    <2> HIDE DEF p
    <2> QED BY <2>1, IdleFacts DEF Request
  <1>m. ASSUME NEW s \in Thread
        PROVE  /\ m(s) \in Request /\ m(s).pc = request[s].pc /\ m(s).todo = request[s].todo
               /\ m(s).done = request[s].done /\ m(s).overtaken = request[s].overtaken
               /\ m(s).kind = request[s].kind /\ m(s).data = request[s].data
               /\ m(s).promise = Nothing
    <2>1. Nothing \in [Unit -> Version] /\ request[s] \in Request
      BY VersionFacts DEF Nothing, IInv, StateInv
    <2> QED BY <2>1 DEF Request
  <1>2. request' = [s \in Thread |-> IF s = t THEN n
                                     ELSE IF request[s].pc = "get" THEN m(s) ELSE request[s]]
    BY <1>1
  <1> HIDE DEF n, m
  <1>3. ASSUME NEW s \in Thread PROVE RequestInv(request'[s], sheet, S, owed)
    <2>q. RequestInv(request[s], sheet, stateModel, owed)
      BY DEF IInv, RequestsInv
    <2>v. \A u \in Unit : 1 <= sheet[u] /\ sheet[u] <= sheet[u] /\ Nothing[u] = 1
      <3>1. \A u \in Unit : sheet[u] \in Version
        BY DEF IInv, StateInv
      <3>2. \A v \in Version : 1 <= v /\ v <= v
        BY VersionFacts
      <3> QED BY <3>1, <3>2 DEF Nothing
    <2>1. CASE s = t
      <3>1. request'[s] = n
        BY <1>2, <2>1
      <3> QED BY <1>n, <2>v, <3>1 DEF RequestInv
    <2>2. CASE s # t /\ request[s].pc = "get"
      <3>1. request'[s] = m(s)
        BY <1>2, <2>2
      <3> QED BY <1>m, <2>q, <2>v, <2>2, <3>1 DEF RequestInv, UnitsOf
    <2>3. CASE s # t /\ request[s].pc # "get"
      <3>1. request'[s] = request[s]
        BY <1>2, <2>3
      <3> QED BY <2>q, <2>3, <3>1 DEF RequestInv
    <2> QED BY <2>1, <2>2, <2>3
  <1>4. request[t].pc = "idle" /\ request[t].done = {}
    BY DEF SetStateModel, IInv, RequestsInv, RequestInv
  <1>5. ASSUME NEW s \in Thread
        PROVE  /\ s = t => request'[s].pc = "get"
               /\ s # t => /\ request'[s].pc = request[s].pc
                           /\ request'[s].todo = request[s].todo
               /\ request'[s].done = request[s].done
               /\ request[s].done # {} => /\ request'[s].kind = request[s].kind
                                          /\ request'[s].data = request[s].data
    BY <1>n, <1>m, <1>2, <1>4
  <1>6. StateInv'
    <2>1. request' \in [Thread -> Request]
      BY <1>2, <1>3 DEF RequestInv
    <2>2. posts' \in 0..MaxRequests
      <3>1. posts \in 0..MaxRequests /\ posts < MaxRequests /\ posts' = posts + 1
        BY DEF SetStateModel, IInv, StateInv
      <3> QED BY <3>1, BoundAssumption
    <2> QED BY <1>1, <2>1, <2>2 DEF SetStateModel, IInv, StateInv
  <1>7. LockInv'
    <2>1. \A s \in Thread : Locked(request'[s]) \subseteq Locked(request[s])
      BY <1>5 DEF Locked
    <2> QED BY <2>1, SameLocks
  <1>8. CacheInv'
    <2>1. UNCHANGED <<rows, cache, stale>>
      BY DEF SetStateModel
    <2> QED BY <1>5, <2>1, SameHolders
  <1>9. RequestsInv'
    BY <1>1, <1>3 DEF SetStateModel, RequestsInv
  <1> QED BY <1>5, <1>6, <1>7, <1>8, <1>9 DEF SetStateModel, IInv, BeanInv, OwedInv

\* The data fetched is that of the sheets as they are, for the units that the model names.
LEMMA GetUnitsKeeps == ASSUME IInv, NEW t \in Thread, GetUnits(t) PROVE IInv'
  <1> DEFINE q == request[t]
             d == [u \in Unit |-> IF u \in stateModel THEN Data(u) ELSE 1]
  <1>q. q \in Request /\ q.pc = "get" /\ RequestInv(q, sheet, stateModel, owed) /\ q.done = {}
    BY DEF GetUnits, IInv, StateInv, RequestsInv, RequestInv
  <1>1. PICK s \in Orders(stateModel) :
           request' = [request EXCEPT ![t].pc = "enter", ![t].todo = s, ![t].data = d]
    BY DEF GetUnits
  <1>s. s \in Seq(Unit) /\ {s[i] : i \in 1..Len(s)} = stateModel
    <2>1. stateModel \subseteq Unit
      BY DEF IInv, StateInv
    <2>2. Cardinality(stateModel) \in Nat
      BY <2>1, UnitAssumption, FS_Subset, FS_CardinalityType
    <2>3. /\ s \in [1..Cardinality(stateModel) -> stateModel]
          /\ \A u \in stateModel : \E i \in DOMAIN s : s[i] = u
      BY DEF Orders
    <2>4. s \in Seq(Unit) /\ Len(s) = Cardinality(stateModel) /\ DOMAIN s = 1..Len(s)
      BY <2>1, <2>2, <2>3
    <2> QED BY <2>3, <2>4
  <1>d. d \in [Unit -> Version] /\ \A u \in Unit : d[u] = IF u \in stateModel THEN sheet[u] ELSE 1
    BY VersionFacts DEF Data, IInv, StateInv
  <1> DEFINE n == [q EXCEPT !.pc = "enter", !.todo = s, !.data = d]
  <1> HIDE DEF d
  <1>2. request' = [request EXCEPT ![t] = n]
    BY <1>q, <1>1 DEF Request, IInv, StateInv
  <1>n. /\ n \in Request /\ n.pc = "enter" /\ n.todo = s /\ n.done = {} /\ n.data = d
        /\ n.promise = q.promise /\ n.overtaken = q.overtaken /\ n.kind = q.kind
    BY <1>q, <1>s, <1>d DEF Request
  <1> HIDE DEF n
  <1>3. RequestInv(n, sheet, stateModel, owed)
    <2>1. UnitsOf(n) = stateModel
      BY <1>n, <1>s DEF UnitsOf
    <2>2. q.overtaken = {}
      BY <1>q DEF RequestInv, UnitsOf
    <2>3. ASSUME NEW u \in Unit
          PROVE  /\ n.promise[u] <= n.data[u] /\ n.data[u] <= sheet[u]
                 /\ u \notin stateModel => n.promise[u] = 1
                 /\ u \in stateModel => owed[u][n.kind] <= n.data[u]
      <3>1. sheet[u] \in Nat /\ 1 <= sheet[u] /\ n.kind \in Kind
        BY <1>n, VersionFacts DEF IInv, StateInv, Request
      <3>2. n.promise[u] <= sheet[u] /\ (u \notin stateModel => n.promise[u] = 1)
        BY <1>q, <1>n DEF RequestInv
      <3>3. owed[u][n.kind] <= sheet[u]
        BY <3>1 DEF IInv, OwedInv
      <3> QED BY <1>n, <1>d, <3>1, <3>2, <3>3
    <2>4. \A u \in Unit : n.promise[u] <= sheet[u]
      BY <1>q, <1>n DEF RequestInv
    <2> QED BY <1>n, <2>1, <2>2, <2>3, <2>4 DEF RequestInv
  <1>4. request' \in [Thread -> Request] /\ RequestsInv'
    BY <1>2, <1>3, OneRequest DEF GetUnits
  <1>5. \A s2 \in Thread : Locked(request'[s2]) \subseteq Locked(request[s2])
    BY <1>2, <1>n DEF Locked, IInv, StateInv
  <1>6. LockInv'
    BY <1>5, SameLocks
  <1>7. CacheInv'
    <2>1. UNCHANGED <<rows, cache, stale>>
      BY DEF GetUnits
    <2>2. \A s2 \in Thread : request'[s2] = IF s2 = t THEN n ELSE request[s2]
      BY <1>2 DEF IInv, StateInv
    <2> QED BY <1>q, <1>n, <2>1, <2>2, SameHolders
  <1>8. BeanInv'
    BY <1>2, <1>n DEF GetUnits, IInv, StateInv, BeanInv
  <1> QED BY <1>4, <1>6, <1>7, <1>8 DEF GetUnits, IInv, StateInv, OwedInv

\* The request that enters is the only one in the bean.
LEMMA EnterKeeps == ASSUME IInv, NEW t \in Thread, Enter(t) PROVE IInv'
  <1> DEFINE q == request[t]
             n == [q EXCEPT !.pc = "import"]
  <1>q. /\ q \in Request /\ q.pc = "enter" /\ q.todo # <<>>
        /\ RequestInv(q, sheet, stateModel, owed)
    BY DEF Enter, IInv, StateInv, RequestsInv
  <1>1. request' = [request EXCEPT ![t] = n] /\ request \in [Thread -> Request]
    BY DEF Enter, IInv, StateInv
  <1>n. /\ n \in Request /\ n.pc = "import" /\ n.todo = q.todo /\ n.done = q.done /\ n.data = q.data
        /\ n.promise = q.promise /\ n.overtaken = q.overtaken /\ n.kind = q.kind
    BY <1>q DEF Request
  <1> HIDE DEF n
  <1>2. RequestInv(n, sheet, stateModel, owed)
    BY <1>q, <1>n DEF RequestInv, UnitsOf
  <1>3. request' \in [Thread -> Request] /\ RequestsInv'
    BY <1>1, <1>2, OneRequest DEF Enter
  <1>4. \A s \in Thread : request'[s] = IF s = t THEN n ELSE request[s]
    BY <1>1
  <1>5. LockInv'
    <2>1. \A s \in Thread : Locked(request'[s]) \subseteq Locked(request[s])
      BY <1>4, <1>n DEF Locked
    <2> QED BY <2>1, SameLocks
  <1>6. CacheInv'
    <2>1. UNCHANGED <<rows, cache, stale>>
      BY DEF Enter
    <2> QED BY <1>4, <1>n, <2>1, SameHolders
  <1>7. BeanInv'
    BY <1>4, FreeAssumption DEF Enter, IInv, BeanInv
  <1> QED BY <1>3, <1>5, <1>6, <1>7 DEF Enter, IInv, StateInv, OwedInv

\* The rows that the request takes are held by nobody else.
LEMMA ImportKeeps == ASSUME IInv, NEW t \in Thread, Import(t) PROVE IInv'
  <1> DEFINE q == request[t]
             n == [q EXCEPT !.pc = "push"]
  <1>q. q \in Request /\ q.pc = "import" /\ RequestInv(q, sheet, stateModel, owed) /\ bean = t
    BY DEF Import, IInv, StateInv, RequestsInv, BeanInv
  <1>1. request' = [request EXCEPT ![t] = n] /\ request \in [Thread -> Request]
    BY DEF Import, IInv, StateInv
  <1>n. /\ n \in Request /\ n.pc = "push" /\ n.todo = q.todo /\ n.done = q.done /\ n.data = q.data
        /\ n.promise = q.promise /\ n.overtaken = q.overtaken /\ n.kind = q.kind
    BY <1>q DEF Request
  <1> HIDE DEF n
  <1>2. RequestInv(n, sheet, stateModel, owed)
    BY <1>q, <1>n DEF RequestInv, UnitsOf
  <1>3. request' \in [Thread -> Request] /\ RequestsInv'
    BY <1>1, <1>2, OneRequest DEF Import
  <1>4. \A s \in Thread : request'[s] = IF s = t THEN n ELSE request[s]
    BY <1>1
  <1>5. LockInv'
    <2>1. Locked(n) = Locked(q) \cup {Head(q.todo)}
      BY <1>q, <1>n DEF Locked
    <2>2. \A s \in Thread : s # t => Head(q.todo) \notin Locked(request[s])
      BY DEF Import, RowsFree
    <2>3. \A s \in Thread : s # t => Locked(n) \cap Locked(request[s]) = {}
      BY <2>1, <2>2 DEF IInv, LockInv
    <2> SUFFICES ASSUME NEW r \in Thread, NEW s \in Thread, r # s
                 PROVE  Locked(request'[r]) \cap Locked(request'[s]) = {}
      BY DEF LockInv, Locked
    <2>4. Locked(request[r]) \cap Locked(request[s]) = {}
      BY DEF IInv, LockInv
    <2> QED BY <1>4, <2>3, <2>4
  <1>6. CacheInv'
    <2>1. UNCHANGED <<rows, cache, stale>>
      BY DEF Import
    <2> QED BY <1>4, <1>n, <2>1, SameHolders
  <1>7. BeanInv'
    BY <1>4, <1>q DEF Import, IInv, BeanInv
  <1> QED BY <1>3, <1>5, <1>6, <1>7 DEF Import, IInv, StateInv, OwedInv

\* What is still to be done and what is done are the same units, whether or not the next one is through.
LEMMA UnitsMove == ASSUME NEW todo \in Seq(Unit), todo # <<>>
                   PROVE  /\ Head(todo) \in Unit /\ Tail(todo) \in Seq(Unit)
                          /\ {todo[i] : i \in 1..Len(todo)}
                                = {Head(todo)} \cup {Tail(todo)[i] : i \in 1..Len(Tail(todo))}
  <1>1. /\ Head(todo) \in Unit /\ Tail(todo) \in Seq(Unit) /\ Head(todo) = todo[1]
        /\ Len(todo) \in Nat /\ Len(todo) > 0 /\ Len(Tail(todo)) = Len(todo) - 1
    OBVIOUS
  <1>2. \A i \in 1..Len(Tail(todo)) : Tail(todo)[i] = todo[i + 1] /\ i + 1 \in 1..Len(todo)
    BY <1>1
  <1>3. ASSUME NEW i \in 1..Len(todo), i # 1
        PROVE  i - 1 \in 1..Len(Tail(todo)) /\ Tail(todo)[i - 1] = todo[i]
    <2>1. i - 1 \in 1..Len(Tail(todo)) /\ (i - 1) + 1 = i
      BY <1>1, <1>3
    <2> QED BY <1>2, <2>1
  <1>4. 1 \in 1..Len(todo)
    BY <1>1
  <1> QED BY <1>1, <1>2, <1>3, <1>4

\* The cache gets what the request is going to commit; nobody else holds these rows.
LEMMA PushKeeps == ASSUME IInv, NEW t \in Thread, Push(t) PROVE IInv'
  <1> DEFINE q == request[t]
             u == Head(q.todo)
             n == [q EXCEPT !.pc = "enter", !.todo = Tail(q.todo), !.done = q.done \cup {u}]
  <1>q. /\ q \in Request /\ q.pc = "push" /\ q.todo # <<>> /\ q.todo \in Seq(Unit)
        /\ RequestInv(q, sheet, stateModel, owed) /\ bean = t
    BY DEF Push, IInv, StateInv, RequestsInv, RequestInv, BeanInv, Request
  <1>u. /\ u \in Unit /\ Tail(q.todo) \in Seq(Unit)
        /\ {q.todo[i] : i \in 1..Len(q.todo)} = {u} \cup {Tail(q.todo)[i] : i \in 1..Len(Tail(q.todo))}
    BY <1>q, UnitsMove
  <1>1. request' = [request EXCEPT ![t] = n] /\ request \in [Thread -> Request]
    BY <1>q DEF Push, IInv, StateInv, Request
  <1>n. /\ n \in Request /\ n.pc = "enter" /\ n.todo = Tail(q.todo) /\ n.done = q.done \cup {u}
        /\ n.data = q.data /\ n.promise = q.promise /\ n.overtaken = q.overtaken
        /\ n.kind = q.kind
    BY <1>q, <1>u DEF Request
  <1> HIDE DEF n
  <1>2. RequestInv(n, sheet, stateModel, owed)
    <2>1. UnitsOf(n) = UnitsOf(q)
      BY <1>n, <1>u DEF UnitsOf
    <2> QED BY <1>q, <1>n, <2>1 DEF RequestInv
  <1>3. request' \in [Thread -> Request] /\ RequestsInv'
    BY <1>1, <1>2, OneRequest DEF Push
  <1>4. \A s \in Thread : request'[s] = IF s = t THEN n ELSE request[s]
    BY <1>1
  <1>5. LockInv'
    <2>1. Locked(n) = Locked(q)
      BY <1>q, <1>n DEF Locked
    <2>2. \A s \in Thread : Locked(request'[s]) \subseteq Locked(request[s])
      BY <1>4, <2>1
    <2> QED BY <2>2, SameLocks
  <1>6. \A s \in Thread : s # t => u \notin request[s].done
    <2>1. u \in Locked(q) /\ \A s \in Thread : request[s].done \subseteq Locked(request[s])
      BY <1>q DEF Locked
    <2> QED BY <2>1 DEF IInv, LockInv
  <1>7. /\ cache' = [cache EXCEPT ![u] = Pushed(q, u)] /\ UNCHANGED <<rows, stale>>
        /\ cache \in [Unit -> Version]
    BY DEF Push, IInv, StateInv
  <1>8. \A v \in Unit : Pushed(n, v) = Pushed(q, v) /\ Pushed(q, v) \in Version
    <2>1. q.kind \in Kind /\ q.data \in [Unit -> Version] /\ rows \in [Unit -> [Kind -> Version]]
      BY <1>q DEF Request, IInv, StateInv
    <2> QED BY <1>n, <2>1 DEF Pushed, Kind
  <1>9. CacheInv'
    <2> SUFFICES ASSUME NEW v \in Unit
                 PROVE  /\ \A s \in Thread : v \in request'[s].done
                                             => cache'[v] = Pushed(request'[s], v)
                        /\ v \notin stale /\ (\A s \in Thread : v \notin request'[s].done)
                           => cache'[v] = rows[v]["POST"]
      BY <1>7 DEF CacheInv, Pushed
    <2>1. CASE v = u
      <3>1. cache'[v] = Pushed(n, v)
        BY <1>u, <1>7, <1>8, <2>1
      <3>2. v \in request'[t].done /\ \A s \in Thread : v \in request'[s].done => s = t
        BY <1>4, <1>n, <1>6, <2>1
      <3> QED BY <1>4, <3>1, <3>2
    <2>2. CASE v # u
      <3>1. cache'[v] = cache[v]
        BY <1>7, <2>2
      <3>2. \A s \in Thread : (v \in request'[s].done) = (v \in request[s].done)
        BY <1>4, <1>n, <2>2
      <3>3. \A s \in Thread : Pushed(request'[s], v) = Pushed(request[s], v)
        BY <1>4, <1>8
      <3> QED BY <3>1, <3>2, <3>3 DEF IInv, CacheInv
    <2> QED BY <2>1, <2>2
  <1>10. BeanInv'
    BY <1>4, <1>n, <1>q DEF IInv, BeanInv
  <1>11. cache' \in [Unit -> Version] /\ bean' = Free
    BY <1>7, <1>8, <1>u DEF Push
  <1> QED BY <1>3, <1>5, <1>7, <1>9, <1>10, <1>11 DEF Push, IInv, StateInv, OwedInv

\* The rows become what the cache has of them.  What is owed for them is no newer than the
\* request's data, and every other request on them is overtaken.
LEMMA CommitKeeps == ASSUME IInv, NEW t \in Thread, Commit(t) PROVE IInv'
  <1> DEFINE q == request[t]
             kept(u) == IF u \in q.overtaken THEN q.data[u]
                        ELSE IF q.promise[u] > owed[u][q.kind] THEN q.promise[u]
                        ELSE owed[u][q.kind]
             m(s) == [request[s] EXCEPT !.overtaken = @ \cup (q.done \cap UnitsOf(request[s]))]
  <1>q. /\ q \in Request /\ q.pc = "enter" /\ q.todo = <<>> /\ q.done \subseteq Unit
        /\ q.kind \in Kind /\ q.data \in [Unit -> Version] /\ q.promise \in [Unit -> Version]
        /\ RequestInv(q, sheet, stateModel, owed)
    BY DEF Commit, IInv, StateInv, RequestsInv, Request
  <1>t. /\ rows \in [Unit -> [Kind -> Version]] /\ owed \in [Unit -> [Kind -> Version]]
        /\ sheet \in [Unit -> Version] /\ request \in [Thread -> Request]
        /\ \A u \in Unit, k \in Kind : owed[u][k] <= rows[u][k] /\ owed[u][k] <= sheet[u]
    BY DEF IInv, StateInv, OwedInv
  <1>1. /\ rows' = [u \in Unit |-> IF u \in q.done THEN Written(q, u) ELSE rows[u]]
        /\ owed' = [u \in Unit |-> [owed[u] EXCEPT ![q.kind] = kept(u)]]
        /\ stale' = stale \ q.done
        /\ request' = [s \in Thread |-> IF s = t THEN Idle ELSE m(s)]
        /\ UNCHANGED <<sheet, stateModel, bean, cache, posts>>
    BY DEF Commit, Written
  <1>d. UnitsOf(q) = q.done /\ q.overtaken \subseteq q.done
    <2>1. Len(<<>>) = 0 /\ 1..0 = {}
      OBVIOUS
    <2> QED BY <1>q, <2>1 DEF UnitsOf, RequestInv
  <1>k. ASSUME NEW u \in Unit
        PROVE  /\ kept(u) \in Version /\ kept(u) <= sheet[u]
               /\ u \in q.done => kept(u) <= q.data[u]
               /\ u \notin q.done => kept(u) = owed[u][q.kind]
    <2>1. /\ q.promise[u] <= q.data[u] /\ q.data[u] <= sheet[u]
          /\ u \notin q.done => q.promise[u] = 1
          /\ u \in q.done \ q.overtaken => owed[u][q.kind] <= q.data[u]
      BY <1>q, <1>d DEF RequestInv
    <2>2. /\ q.promise[u] \in Version /\ q.data[u] \in Version /\ sheet[u] \in Version
          /\ owed[u][q.kind] \in Version /\ owed[u][q.kind] <= sheet[u]
      BY <1>q, <1>t
    <2>3. /\ q.promise[u] \in Nat /\ q.data[u] \in Nat /\ sheet[u] \in Nat
          /\ owed[u][q.kind] \in Nat /\ 1 <= owed[u][q.kind]
      BY <2>2, VersionFacts
    <2> QED BY <1>d, <2>1, <2>2, <2>3
  <1> HIDE DEF kept
  <1>o. ASSUME NEW u \in Unit, NEW k \in Kind
        PROVE  /\ owed'[u][k] = IF k = q.kind THEN kept(u) ELSE owed[u][k]
               /\ u \notin q.done => owed'[u][k] = owed[u][k]
    <2>1. owed'[u] = [owed[u] EXCEPT ![q.kind] = kept(u)] /\ owed[u] \in [Kind -> Version]
      BY <1>1, <1>t
    <2>2. owed'[u][k] = IF k = q.kind THEN kept(u) ELSE owed[u][k]
      BY <2>1
    <2> QED BY <2>2, <1>k
  <1>p. ASSUME NEW u \in Unit, NEW k \in Kind
        PROVE  Written(q, u)[k] = IF k = q.kind THEN q.data[u] ELSE rows[u][k]
    BY <1>q, <1>t DEF Written
  <1>m. ASSUME NEW s \in Thread
        PROVE  /\ m(s) \in Request /\ m(s).pc = request[s].pc /\ m(s).todo = request[s].todo
               /\ m(s).done = request[s].done /\ m(s).promise = request[s].promise
               /\ m(s).kind = request[s].kind /\ m(s).data = request[s].data
               /\ m(s).overtaken = request[s].overtaken \cup (q.done \cap UnitsOf(request[s]))
    BY <1>q, <1>t DEF Request
  <1> HIDE DEF m
  <1>2. \A s \in Thread : request'[s] = IF s = t THEN Idle ELSE m(s)
    BY <1>1
  <1>3. RequestsInv'
    <2> SUFFICES ASSUME NEW s \in Thread
                 PROVE  RequestInv(request'[s], sheet, stateModel, owed')
      BY <1>1 DEF RequestsInv
    <2>1. CASE s = t
      BY <1>2, <1>t, <2>1, IdleSound
    <2>2. CASE s # t
      <3> DEFINE r == request[s]
      <3>1. RequestInv(r, sheet, stateModel, owed) /\ r.kind \in Kind
        BY <1>t DEF IInv, RequestsInv, Request
      <3>2. UnitsOf(m(s)) = UnitsOf(r)
        BY <1>m DEF UnitsOf
      <3>3. \A u \in Unit : u \in UnitsOf(r) \ m(s).overtaken
                            => u \in UnitsOf(r) \ r.overtaken /\ owed'[u][r.kind] = owed[u][r.kind]
        BY <1>m, <1>o, <3>1
      <3>4. RequestInv(m(s), sheet, stateModel, owed')
        BY <1>m, <3>1, <3>2, <3>3 DEF RequestInv
      <3> QED BY <1>2, <2>2, <3>4
    <2> QED BY <2>1, <2>2
  <1>4. LockInv'
    <2>1. \A s \in Thread : Locked(request'[s]) \subseteq Locked(request[s])
      BY <1>2, <1>m, IdleFacts DEF Locked
    <2> QED BY <2>1, SameLocks
  <1>5. \A s \in Thread : s # t => q.done \cap request[s].done = {}
    <2>1. \A s \in Thread : request[s].done \subseteq Locked(request[s])
      BY DEF Locked
    <2> QED BY <2>1 DEF IInv, LockInv
  <1>6. CacheInv'
    <2> SUFFICES ASSUME NEW u \in Unit
                 PROVE  /\ \A s \in Thread :
                              u \in request'[s].done
                              => cache[u] = IF request'[s].kind = "POST" THEN request'[s].data[u]
                                            ELSE rows'[u]["POST"]
                        /\ u \notin stale' /\ (\A s \in Thread : u \notin request'[s].done)
                           => cache[u] = rows'[u]["POST"]
      BY <1>1 DEF CacheInv, Pushed
    <2>1. CASE u \in q.done
      <3>1. cache[u] = Pushed(q, u) /\ rows'[u]["POST"] = Pushed(q, u)
        BY <1>1, <1>p, <1>q, <2>1 DEF IInv, CacheInv, Pushed, Kind
      <3>2. \A s \in Thread : u \notin request'[s].done
        BY <1>2, <1>m, <1>5, <2>1, IdleFacts
      <3> QED BY <3>1, <3>2
    <2>2. CASE u \notin q.done
      <3>1. rows'[u] = rows[u] /\ (u \in stale' <=> u \in stale)
        BY <1>1, <2>2
      <3>2. \A s \in Thread : u \in request'[s].done
               => /\ u \in request[s].done /\ request'[s].kind = request[s].kind
                  /\ request'[s].data = request[s].data
        BY <1>2, <1>m, IdleFacts
      <3>3. (\A s \in Thread : u \notin request'[s].done) => \A s \in Thread : u \notin request[s].done
        BY <1>2, <1>m, <2>2
      <3>4. \A s \in Thread : u \in request[s].done
               => cache[u] = Pushed(request[s], u)
        BY DEF IInv, CacheInv, Pushed
      <3>5. u \notin stale /\ (\A s \in Thread : u \notin request[s].done) => cache[u] = rows[u]["POST"]
        BY DEF IInv, CacheInv
      <3>6. ASSUME NEW s \in Thread, u \in request'[s].done
            PROVE  cache[u] = IF request'[s].kind = "POST" THEN request'[s].data[u]
                              ELSE rows'[u]["POST"]
        BY <3>1, <3>2, <3>4, <3>6 DEF Pushed
      <3> QED BY <3>1, <3>3, <3>5, <3>6
    <2> QED BY <2>1, <2>2
  <1>7. OwedInv'
    <2> SUFFICES ASSUME NEW u \in Unit, NEW k \in Kind
                 PROVE  owed'[u][k] <= rows'[u][k] /\ owed'[u][k] <= sheet[u]
      BY <1>1 DEF OwedInv
    <2>1. owed'[u][k] <= sheet[u]
      BY <1>o, <1>k, <1>t
    <2>2. CASE u \in q.done
      <3>1. rows'[u][k] = IF k = q.kind THEN q.data[u] ELSE rows[u][k]
        BY <1>1, <1>p, <2>2
      <3> QED BY <1>o, <1>k, <1>t, <2>1, <2>2, <3>1
    <2>3. CASE u \notin q.done
      <3>1. rows'[u][k] = rows[u][k]
        BY <1>1, <2>3
      <3> QED BY <1>o, <1>t, <2>1, <2>3, <3>1
    <2> QED BY <2>2, <2>3
  <1>8. StateInv'
    <2>1. rows' \in [Unit -> [Kind -> Version]]
      <3>1. \A u \in Unit : Written(q, u) \in [Kind -> Version]
        BY <1>q, <1>t DEF Written
      <3> QED BY <1>1, <1>t, <3>1
    <2>2. owed' \in [Unit -> [Kind -> Version]]
      <3>1. \A u \in Unit : [owed[u] EXCEPT ![q.kind] = kept(u)] \in [Kind -> Version]
        BY <1>q, <1>t, <1>k
      <3> QED BY <1>1, <3>1
    <2>3. request' \in [Thread -> Request]
      BY <1>1, <1>m, IdleFacts
    <2> QED BY <1>1, <2>1, <2>2, <2>3 DEF IInv, StateInv
  <1>9. BeanInv'
    BY <1>1, <1>2, <1>m, IdleFacts DEF IInv, BeanInv
  <1> QED BY <1>3, <1>4, <1>6, <1>7, <1>8, <1>9 DEF IInv

\* What a request that gives up has pushed is stale; the locks it had are free.
LEMMA RollsBackKeeps == ASSUME IInv, NEW t \in Thread, RollsBack(t) PROVE IInv'
  <1>1. request' = [request EXCEPT ![t] = Idle] /\ request \in [Thread -> Request]
    BY DEF RollsBack, IInv, StateInv
  <1>2. UNCHANGED <<sheet, stateModel, rows, cache, posts, owed>>
    BY DEF RollsBack
  <1>3. \A s \in Thread : request'[s] = IF s = t THEN Idle ELSE request[s]
    BY <1>1
  <1>4. request' \in [Thread -> Request] /\ RequestsInv'
    <2>1. RequestInv(Idle, sheet, stateModel, owed)
      BY IdleSound DEF IInv, StateInv
    <2> QED BY <1>1, <1>2, <2>1, OneRequest
  <1>5. LockInv'
    <2>1. \A s \in Thread : Locked(request'[s]) \subseteq Locked(request[s])
      BY <1>3, IdleFacts
    <2> QED BY <2>1, SameLocks
  <1>6. CacheInv'
    <2> SUFFICES ASSUME NEW u \in Unit
                 PROVE  /\ \A s \in Thread : u \in request'[s].done
                                             => cache[u] = Pushed(request'[s], u)
                        /\ u \notin stale' /\ (\A s \in Thread : u \notin request'[s].done)
                           => cache[u] = rows[u]["POST"]
      BY <1>2 DEF CacheInv, Pushed
    <2>1. stale' = stale \cup request[t].done
      BY DEF RollsBack
    <2>2. \A s \in Thread : u \in request'[s].done => request'[s] = request[s]
      BY <1>3, IdleFacts
    <2>3. u \notin stale' /\ (\A s \in Thread : u \notin request'[s].done)
          => u \notin stale /\ (\A s \in Thread : u \notin request[s].done)
      BY <1>3, <2>1
    <2> QED BY <2>2, <2>3 DEF IInv, CacheInv
  <1>7. BeanInv'
    BY <1>3, IdleFacts DEF RollsBack, Released, IInv, BeanInv
  <1>8. bean' \in Thread \cup {Free} /\ stale' \subseteq Unit
    <2>1. request[t].done \subseteq Unit
      BY <1>1 DEF Request
    <2> QED BY <2>1 DEF RollsBack, Released, IInv, StateInv
  <1> QED BY <1>2, <1>4, <1>5, <1>6, <1>7, <1>8 DEF IInv, StateInv, OwedInv

\* A newer sheet is newer than everything that goes by it.
LEMMA EditSheetKeeps == ASSUME IInv, NEW u \in Unit, EditSheet(u) PROVE IInv'
  <1>1. /\ sheet' = [sheet EXCEPT ![u] = @ + 1] /\ sheet[u] < MaxVersion
        /\ UNCHANGED <<stateModel, bean, rows, cache, request, posts, stale, owed>>
        /\ sheet \in [Unit -> Version] /\ request \in [Thread -> Request]
        /\ owed \in [Unit -> [Kind -> Version]]
    BY DEF EditSheet, IInv, StateInv
  <1>2. sheet' \in [Unit -> Version]
    <2>1. sheet[u] + 1 \in Version
      BY <1>1, BoundAssumption DEF Version
    <2> QED BY <1>1, <2>1
  <1>3. ASSUME NEW v \in Unit, NEW w \in Version, w <= sheet[v] PROVE w <= sheet'[v]
    <2>1. w \in Nat /\ sheet[v] \in Nat /\ sheet'[v] \in {sheet[v], sheet[v] + 1}
      BY <1>1, VersionFacts
    <2> QED BY <1>3, <2>1
  <1>4. RequestsInv'
    <2> SUFFICES ASSUME NEW s \in Thread
                 PROVE  RequestInv(request[s], sheet', stateModel, owed)
      BY <1>1 DEF RequestsInv
    <2>1. RequestInv(request[s], sheet, stateModel, owed)
      BY DEF IInv, RequestsInv
    <2>2. request[s].promise \in [Unit -> Version] /\ request[s].data \in [Unit -> Version]
      BY <1>1 DEF Request
    <2>3. \A v \in Unit : /\ request[s].promise[v] <= sheet[v] => request[s].promise[v] <= sheet'[v]
                          /\ request[s].data[v] <= sheet[v] => request[s].data[v] <= sheet'[v]
      BY <1>3, <2>2
    <2> QED BY <2>1, <2>3 DEF RequestInv
  <1>5. OwedInv'
    <2> SUFFICES ASSUME NEW v \in Unit, NEW k \in Kind
                 PROVE  owed[v][k] <= rows[v][k] /\ owed[v][k] <= sheet'[v]
      BY <1>1 DEF OwedInv
    <2>1. owed[v][k] <= rows[v][k] /\ owed[v][k] <= sheet[v] /\ owed[v][k] \in Version
      BY <1>1 DEF IInv, OwedInv
    <2> QED BY <1>3, <2>1
  <1>6. BeanInv' /\ LockInv' /\ CacheInv'
    BY <1>1 DEF IInv, BeanInv, LockInv, Locked, CacheInv, Pushed
  <1> QED BY <1>1, <1>2, <1>4, <1>5, <1>6 DEF IInv, StateInv

\* Every step keeps IInv.
LEMMA NextIInv == ASSUME IInv, [Next]_vars PROVE IInv'
  <1>1. CASE UNCHANGED vars
    BY <1>1 DEF vars, IInv, StateInv, RequestsInv, BeanInv, LockInv, Locked, CacheInv, Pushed, OwedInv
  <1>2. ASSUME NEW t \in Thread, SetStateModel(t) \/ Serve(t) \/ Fail(t) PROVE IInv'
    BY <1>2, SetStateModelKeeps, GetUnitsKeeps, EnterKeeps, ImportKeeps, PushKeeps, CommitKeeps,
       RollsBackKeeps
    DEF Serve, EnterTimeout, RowTimeout, Fail
  <1>3. ASSUME NEW u \in Edited, EditSheet(u) PROVE IInv'
    BY <1>3, EditSheetKeeps, BoundAssumption
  <1> QED BY <1>1, <1>2, <1>3 DEF Next

\* IInv holds in every reachable state.
LEMMA SpecIInv == Spec => []IInv
  BY InitIInv, NextIInv, PTL DEF Spec

----------------------------------------------------------------------------
\* Requests, rows and cache keep their types, and who works in the bean is the one in it.
THEOREM SyncsTypeCorrect == Spec => []TypeOK
  <1>1. IInv => TypeOK
    BY DEF IInv, StateInv, RequestsInv, RequestInv, BeanInv, TypeOK
  <1> QED BY SpecIInv, <1>1, PTL

\* However many requests overlap, what one of them was promised and answered stays.
THEOREM AnsweredRequestsLast == Spec => []AnsweredChangesStay
  <1>1. ASSUME IInv PROVE AnsweredChangesStay
    <2> SUFFICES ASSUME NEW u \in Unit, NEW k \in Kind PROVE rows[u][k] >= owed[u][k]
      BY DEF AnsweredChangesStay
    <2>1. rows[u][k] \in Nat /\ owed[u][k] \in Nat
      BY <1>1, VersionFacts DEF IInv, StateInv
    <2>2. owed[u][k] <= rows[u][k]
      BY <1>1 DEF IInv, OwedInv
    <2> QED BY <2>1, <2>2
  <1> QED BY SpecIInv, <1>1, PTL

\* However many requests meet on a unit, give up or commit, its entries follow its rows.
THEOREM CacheFollows == Spec => []CacheFollowsRows
  <1>1. IInv => CacheFollowsRows
    BY DEF IInv, CacheInv, Locked, CacheFollowsRows
  <1> QED BY SpecIInv, <1>1, PTL
=============================================================================
