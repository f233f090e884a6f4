------------------------------ MODULE SheetSync ------------------------------
(***************************************************************************)
(* Concurrent /syncsheets requests.  POST imports the changed rows of      *)
(* realm units, DELETE removes the rows that went.  Both leave the posted  *)
(* StateModel in a static field and then ask StateManagement for the       *)
(* realm units it names; then they call StartupService once per unit.      *)
(* That bean is a @Singleton: the container lets one call in at a time and *)
(* gives up on a caller that has waited too long.  The request is one      *)
(* transaction, so the rows it has written stay locked until its end,      *)
(* while it waits for the bean again: it and a request inside the bean     *)
(* that needs these rows wait for each other until one of them gives up.   *)
(* What one call does inside is the subject of RealmStartup; here it       *)
(* changes the rows of a unit, then pushes them to the cache.              *)
(***************************************************************************)
EXTENDS Naturals, Sequences, FiniteSets

CONSTANTS
    Unit,        \* realm units
    Thread,      \* request threads
    MaxVersion,  \* bound: versions of a unit's sheet
    MaxRequests, \* bound: requests that are posted
    Edited,      \* bound: units whose sheets are edited
    Free         \* nobody is in the bean

Version == 1..MaxVersion
Kind == {"POST", "DELETE"}

ASSUME BoundAssumption == MaxVersion \in Nat \ {0} /\ MaxRequests \in Nat /\ Edited \subseteq Unit
ASSUME UnitAssumption == IsFiniteSet(Unit)
ASSUME FreeAssumption == Free \notin Thread

VARIABLES
    sheet,       \* version of each unit's sheet
    stateModel,  \* StateManagement's static model: the units it names
    bean,        \* who is in the StartupService
    rows,        \* committed: per unit and kind, the version last imported or cleared away
    cache,       \* the version of the imported rows in the cache, per unit
    request,     \* per thread, the request it serves
    posts,       \* requests posted so far
    stale,       \* history: units whose pushed entries were not committed
    owed         \* history: the version that an answered request lets its client count on

vars == <<sheet, stateModel, bean, rows, cache, request, posts, stale, owed>>

(***************************************************************************)
(* A request: the units it works on, with the data it fetched of them, and *)
(* the units it is through with.  History: what its client may count on    *)
(* when it is answered, which is nothing (version 1, which all have) once  *)
(* another request sets the model before this one has read it; and units   *)
(* of which newer rows were committed since it fetched their data.         *)
(***************************************************************************)
Request == [pc : {"idle", "get", "enter", "import", "push"}, kind : Kind,
            todo : Seq(Unit), data : [Unit -> Version], done : SUBSET Unit,
            promise : [Unit -> Version], overtaken : SUBSET Unit]

Nothing == [u \in Unit |-> 1]
Idle == [pc |-> "idle", kind |-> "POST", todo |-> <<>>, data |-> Nothing, done |-> {},
         promise |-> Nothing, overtaken |-> {}]

UnitsOf(q) == q.done \cup {q.todo[i] : i \in 1..Len(q.todo)}
\* The rows that a request has written and so keeps locked.
Locked(q) == q.done \cup IF q.pc = "push" THEN {Head(q.todo)} ELSE {}
RowsFree(t, u) == \A s \in Thread \ {t} : u \notin Locked(request[s])
Orders(S) == {s \in [1..Cardinality(S) -> S] : \A u \in S : \E i \in DOMAIN s : s[i] = u}

----------------------------------------------------------------------------
Init ==
    /\ sheet = [u \in Unit |-> 1]
    /\ stateModel = {}
    /\ bean = Free
    /\ rows = [u \in Unit |-> [k \in Kind |-> 1]]
    /\ cache = [u \in Unit |-> 1]
    /\ request = [t \in Thread |-> Idle]
    /\ stale = {} /\ posts = 0
    /\ owed = rows

\* A client posts the units it has changed; setStateModel.
SetStateModel(t) ==
    /\ request[t].pc = "idle" /\ posts < MaxRequests
    /\ posts' = posts + 1
    /\ \E k \in Kind, S \in (SUBSET Unit) \ {{}} :
          /\ stateModel' = S
          /\ request' = [s \in Thread |->
                IF s = t THEN [Idle EXCEPT !.pc = "get", !.kind = k,
                                  !.promise = [u \in Unit |-> IF u \in S THEN sheet[u] ELSE 1]]
                ELSE IF request[s].pc = "get" THEN [request[s] EXCEPT !.promise = Nothing]
                ELSE request[s]]
    /\ UNCHANGED <<sheet, bean, rows, cache, stale, owed>>

\* (A mutant: sheets that are still as they were when the server started.)
DataAtStartup(u) == 1
\* The rows of a unit's sheet as its RealmUnit carries them from now on.
Data(u) == sheet[u]

\* getUpdatedRealmUnits, getDeletedRowsFromRealmUnits.
GetUnits(t) ==
    /\ request[t].pc = "get"
    /\ \E s \in Orders(stateModel) :
          request' = [request EXCEPT ![t].pc = "enter", ![t].todo = s,
                                     ![t].data = [u \in Unit |-> IF u \in stateModel THEN Data(u) ELSE 1]]
    /\ UNCHANGED <<sheet, stateModel, bean, rows, cache, posts, stale, owed>>

\* update or deleteFromSheets of the next unit: the container's write lock.
Enter(t) ==
    /\ request[t].pc = "enter" /\ request[t].todo # <<>>
    /\ bean = Free
    /\ bean' = t
    /\ request' = [request EXCEPT ![t].pc = "import"]
    /\ UNCHANGED <<sheet, stateModel, rows, cache, posts, stale, owed>>

\* saveProjectBes, persistProject or deleteFromProject: waits for the rows of the unit.
Import(t) ==
    /\ request[t].pc = "import"
    /\ RowsFree(t, Head(request[t].todo))
    /\ request' = [request EXCEPT ![t].pc = "push"]
    /\ UNCHANGED <<sheet, stateModel, bean, rows, cache, posts, stale, owed>>

\* (A mutant: rows read outside of the transaction that has changed them.)
PushedFromOutside(q, u) == rows[u]["POST"]
\* What pushToDTT reads and puts in the cache: the rows of the unit that are there, the
\* transaction's own imports or, for one that removes rows, those imported before.  The cache
\* keeps the entries of removed rows, which nothing takes out of it.
Pushed(q, u) == IF q.kind = "POST" THEN q.data[u] ELSE rows[u]["POST"]

\* pushToDTT, then the call returns and the next caller may enter.
Push(t) ==
    LET q == request[t]  u == Head(q.todo) IN
    /\ q.pc = "push"
    /\ cache' = [cache EXCEPT ![u] = Pushed(q, u)]
    /\ bean' = Free
    /\ request' = [request EXCEPT ![t].pc = "enter", ![t].todo = Tail(@), ![t].done = @ \cup {u}]
    /\ UNCHANGED <<sheet, stateModel, rows, posts, stale, owed>>

\* All units are done: the transaction commits and the client gets its 200.  It may count on
\* what it was promised; a unit on which this request was overtaken goes back to older rows.
Commit(t) ==
    LET q == request[t]
        kept(u) == IF u \in q.overtaken THEN q.data[u]
                   ELSE IF q.promise[u] > owed[u][q.kind] THEN q.promise[u]
                   ELSE owed[u][q.kind] IN
    /\ q.pc = "enter" /\ q.todo = <<>>
    /\ rows' = [u \in Unit |-> IF u \in q.done THEN [rows[u] EXCEPT ![q.kind] = q.data[u]]
                               ELSE rows[u]]
    /\ owed' = [u \in Unit |-> [owed[u] EXCEPT ![q.kind] = kept(u)]]
    /\ stale' = stale \ q.done
    /\ request' = [s \in Thread |->
          IF s = t THEN Idle
          ELSE [request[s] EXCEPT !.overtaken = @ \cup (q.done \cap UnitsOf(request[s]))]]
    /\ UNCHANGED <<sheet, stateModel, bean, cache, posts>>

\* (A mutant: an exception frees the bean whoever is in it.)
FreeForAll(t) == Free
\* The container takes a caller out of the bean however its call ends.
Released(t) == IF bean = t THEN Free ELSE bean

\* (A mutant: a caller whose wait is over waits again.)
WaitsAgain(t) == UNCHANGED vars
\* The transaction is rolled back and the client gets an error.
RollsBack(t) ==
    /\ stale' = stale \cup request[t].done
    /\ bean' = Released(t)
    /\ request' = [request EXCEPT ![t] = Idle]
    /\ UNCHANGED <<sheet, stateModel, rows, cache, posts, owed>>

\* The caller has waited long enough for the bean (ConcurrentAccessTimeoutException).
EnterTimeout(t) ==
    /\ request[t].pc = "enter" /\ request[t].todo # <<>> /\ bean # Free
    /\ RollsBack(t)

\* The database has waited long enough for the lock of a row.
RowTimeout(t) ==
    /\ request[t].pc = "import" /\ ~RowsFree(t, Head(request[t].todo))
    /\ RollsBack(t)

\* Any other exception: an unreadable sheet, a row that does not fit, a failing commit.
Fail(t) ==
    /\ request[t].pc # "idle"
    /\ RollsBack(t)

EditSheet(u) ==
    /\ sheet[u] < MaxVersion
    /\ sheet' = [sheet EXCEPT ![u] = @ + 1]
    /\ UNCHANGED <<stateModel, bean, rows, cache, request, posts, stale, owed>>

Serve(t) ==
    \/ GetUnits(t) \/ Enter(t) \/ Import(t) \/ Push(t) \/ Commit(t)
    \/ EnterTimeout(t) \/ RowTimeout(t)

Next ==
    \/ \E t \in Thread : SetStateModel(t) \/ Serve(t) \/ Fail(t)
    \/ \E u \in Edited : EditSheet(u)

Spec == Init /\ [][Next]_vars

\* Each request's thread runs on, and waits that last too long are given up.
FairSpec == Spec /\ \A t \in Thread : WF_vars(Serve(t))

----------------------------------------------------------------------------
TypeOK ==
    /\ sheet \in [Unit -> Version]
    /\ stateModel \subseteq Unit /\ posts \in 0..MaxRequests
    /\ bean \in Thread \cup {Free}
    /\ rows \in [Unit -> [Kind -> Version]] /\ cache \in [Unit -> Version]
    /\ owed \in [Unit -> [Kind -> Version]]
    /\ \A t \in Thread : request[t] \in Request
    /\ \A t \in Thread : request[t].pc \in {"import", "push"} => bean = t /\ request[t].todo # <<>>
    /\ stale \subseteq Unit

\* A unit's rows are at least as new as the sheet was when a request for it was posted that
\* has been answered, unless another request set the StateModel between that request's
\* setStateModel and its reading of the units, or one that had fetched older data committed
\* after it (syncSheets, syncDeletedRowFromSheets).
AnsweredChangesStay == \A u \in Unit, k \in Kind : rows[u][k] >= owed[u][k]

\* Where no request holds the rows of a unit, the cache has its imported rows as they are
\* committed, unless the last request to push them was rolled back: requests that meet on a
\* unit, in whatever order they enter the bean, give up or commit, never leave one's rows with
\* the other's entries (update, deleteFromSheets, pushToDTT).  Entries of rows that are not
\* there any more are no part of it.
CacheFollowsRows ==
    \A u \in Unit :
        u \notin stale /\ (\A t \in Thread : u \notin Locked(request[t])) => cache[u] = rows[u]["POST"]

\* Every request ends, although one may wait for the bean and hold the rows that the one in
\* the bean waits for (@Singleton StartupService, @Transactional syncSheets).
RequestsEnd == \A t \in Thread : request[t].pc # "idle" ~> request[t].pc = "idle"
=============================================================================
