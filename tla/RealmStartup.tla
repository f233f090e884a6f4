---------------------------- MODULE RealmStartup ----------------------------
(***************************************************************************)
(* StartupService: how the realms of the hosting sheet reach the database, *)
(* the shared cache and the memory of this server.  inits() runs a         *)
(* pipeline of stages over every realm unit when the server starts;        *)
(* update() and deleteFromSheets() run the same stages over one unit when  *)
(* a user posts to /syncsheets, then reload the attributes of every realm. *)
(* The bean is a @Singleton, so at most one run goes on at a time.  A run  *)
(* is one database transaction; the cache is another server and keeps what *)
(* a crashed or failed run wrote.                                          *)
(***************************************************************************)
EXTENDS Naturals, Sequences

CONSTANTS
    Realm,        \* realm codes
    Units,        \* the realm units in the order of rx.getDataUnits()
    MainRealm,    \* GennySettings.mainrealm, where Service.currentRealm starts
    Attributes,   \* codes of attributes,
    Entities,     \* of base entities
    Questions,    \* and of questions in the sheets
    PER_SERVICE,  \* the code of the service user's entity
    FirstSheet,   \* the codes in each realm's sheet at first
    UpsertWrites, \* whether the library's upsert writes the entity to the cache
    MaxVersion,   \* bound: versions of a row of a sheet
    MaxEdits,     \* bound: edits of the sheets
    MaxFailures,  \* bound: crashes and failed runs
    MaxRequests,  \* bound: /syncsheets runs
    None

\* Codes of the sheets' rows, and of rows: a realm r stands for the code PRJ_r of its project.
SheetCode == Attributes \cup Entities \cup Questions
Code == SheetCode \cup Realm \cup {PER_SERVICE}

ASSUME UnitsAssumption ==
    /\ Units \in Seq(Realm) /\ MainRealm \in Realm
    /\ \A i, j \in 1..Len(Units) : Units[i] = Units[j] => i = j
ASSUME CodesAssumption ==
    /\ Attributes \cap (Entities \cup Questions \cup Realm \cup {PER_SERVICE}) = {}
    /\ Questions \cap (Entities \cup Realm \cup {PER_SERVICE}) = {}
    /\ Entities \cap (Realm \cup {PER_SERVICE}) = {} /\ PER_SERVICE \notin Realm
    /\ FirstSheet \in [Realm -> SUBSET SheetCode]
ASSUME UpsertAssumption == UpsertWrites \in BOOLEAN
ASSUME BoundsAssumption ==
    MaxVersion \in Nat \ {0} /\ MaxEdits \in Nat /\ MaxFailures \in Nat /\ MaxRequests \in Nat

VARIABLES
    disabled,      \* units the hosting sheet marks as disabled
    sheet,         \* each realm's sheet: the version of each row (0: not there)
    committed,     \* the database: per realm and code, the row
    db,            \* the database as the open transaction sees it
    cache,         \* the Infinispan caches, one field per kind of entry
    jsonMap,       \* realms with their keys in SecureResources.keycloakJsonMap
    localhost,     \* the realm behind that map's "localhost" keys
    attributeMap,  \* RulesUtils.realmAttributeMap: per realm, whose attributes it holds
    run,           \* the run that goes on
    started,       \* realms the run has announced with EVT_QWANDA_SERVICE_STARTED
    failures, requests, edits

vars == <<disabled, sheet, committed, db, cache, jsonMap, localhost,
          attributeMap, run, started, failures, requests, edits>>

Version == 0..MaxVersion
Elements(s) == {s[i] : i \in 1..Len(s)}
Enabled == Elements(Units) \ disabled

\* A row: the realm whose unit it tells of, the version of that realm's sheet (0 for a project
\* or service user, which come from the hosting sheet), and the realms of its attributes.  The
\* cache keeps the first two.
Content == [of : Realm, version : Version]
Row == [of : Realm, version : Version, attributes : SUBSET Realm]
ASSUME NoneAssumption == None \notin Realm \cup Row
Database == [Realm -> [Code -> Row \cup {None}]]

\* What the cache holds of a row.
ContentOf(row) == IF row = None THEN None ELSE [of |-> row.of, version |-> row.version]

\* The message at key "attributes": the realm it was read for, and that realm's attributes.
AttributeList == [of : Realm, list : [Attributes -> Content \cup {None}]]

\* project: the realm whose copy of PRJ_r is at key PROJECT of cache r; attributes: the list at
\* its key "attributes"; entities: what is at the keys of base entities and questions; urls:
\* realms whose URLs lead to their project and token; realms: the list REALMS.
Cache == [project : [Realm -> Realm \cup {None}],
          attributes : [Realm -> AttributeList \cup {None}],
          entities : [Realm -> [Code -> Content \cup {None}]],
          urls : SUBSET Realm,
          realms : (SUBSET Realm) \cup {None}]

(***************************************************************************)
(* A run: its stage, the units the stage has yet to reach, all its units,  *)
(* the changed units that its request has still to update one by one, the  *)
(* realm of the user who asked for it (None at startup), the field         *)
(* currentRealm of the Service it works with, and what it does to the rows *)
(* of the sheets: update or inits import them unless the settings say no,  *)
(* deleteFromSheets removes those that went.                               *)
(***************************************************************************)
Stage == {"down", "up", "projects", "services", "urls", "import", "attributes",
          "urlsAgain", "enable", "realms", "reload"}
Task == {"skip", "import", "delete"}
Run == [stage : Stage, todo : Seq(Realm), units : Seq(Realm), later : Seq(Realm),
        principal : Realm \cup {None}, currentRealm : Realm, task : Task]

NoRun(stage) == [stage |-> stage, todo |-> <<>>, units |-> <<>>, later |-> <<>>, principal |-> None,
                 currentRealm |-> MainRealm, task |-> "skip"]
NewRun(units, later, principal, task) ==
    [stage |-> "projects", todo |-> units, units |-> units, later |-> later, principal |-> principal,
     currentRealm |-> MainRealm, task |-> task]

\* Service.getRealm: the user's realm wins, currentRealm counts only without a user.
GetRealm == IF run.principal = None THEN run.currentRealm ELSE run.principal

\* The unit a stage works on.
Unit == Head(run.todo)
At(stage) == run.stage = stage /\ run.todo # <<>>

\* The stage is done with its unit, and the Service now points at realm r.
DoneWith(r) == run' = [run EXCEPT !.todo = Tail(@), !.currentRealm = r]
\* (Mutants: the realm of the user, no call of setCurrentRealm, no look at the disabled flag.)
VisitedByPrincipal == DoneWith(run.principal)
VisitedKeepsRealm == DoneWith(run.currentRealm)
VisitedIgnoresFlag == DoneWith(Unit)
\* Stages that set currentRealm do so for an enabled unit only.
Visited == DoneWith(IF Unit \in disabled THEN run.currentRealm ELSE Unit)

Outside == <<disabled, sheet, committed, failures, requests, edits>>

----------------------------------------------------------------------------
Init ==
    /\ disabled \in SUBSET Realm
    /\ sheet = [r \in Realm |-> [c \in SheetCode |-> IF c \in FirstSheet[r] THEN 1 ELSE 0]]
    /\ committed = [r \in Realm |-> [c \in Code |-> None]]
    /\ db = committed
    /\ cache = [project |-> [r \in Realm |-> None], attributes |-> [r \in Realm |-> None],
                entities |-> [r \in Realm |-> [c \in Code |-> None]], urls |-> {}, realms |-> None]
    /\ jsonMap = {} /\ localhost = None /\ started = {}
    /\ attributeMap = [r \in Realm |-> {}]
    /\ run = NoRun("down")
    /\ failures = 0 /\ requests = 0 /\ edits = 0

\* inits(): SKIPBOOTXPORT and the GennySettings decide whether it imports.
Start ==
    /\ run.stage = "down"
    /\ \E task \in {"skip", "import"} : run' = NewRun(Units, <<>>, None, task)
    /\ UNCHANGED <<db, cache, jsonMap, localhost, attributeMap, started, Outside>>

\* The units of a /syncsheets request: the state model gives each changed unit once, in an
\* order of its own.
Batches == {s \in UNION {[1..n -> Elements(Units)] : n \in 1..Len(Units)} :
                \A i, j \in DOMAIN s : s[i] = s[j] => i = j}

\* A user of realm p posts to /syncsheets and some units have changed: update or
\* deleteFromSheets for each of them, all in the request's transaction.
Request(p) ==
    /\ run.stage = "up" /\ requests < MaxRequests
    /\ \E task \in Task : \E units \in Batches :
          run' = NewRun(<<Head(units)>>, Tail(units), p, task)
    /\ requests' = requests + 1
    /\ started' = {}
    /\ UNCHANGED <<disabled, sheet, committed, db, cache, jsonMap, localhost,
                   attributeMap, failures, edits>>

\* (A mutant: the project saved before setCurrentRealm.)
HomeBefore == GetRealm
\* The realm that rows are saved in once setCurrentRealm(unit) is called.
Home == IF run.principal = None THEN Unit ELSE run.principal

\* saveProjectBes and saveServiceBes upsert a row that tells of the unit, in the realm in force
\* and with attributes of that realm.
Upsert(code) ==
    /\ db' = [db EXCEPT ![Home][code] = [of |-> Unit, version |-> 0, attributes |-> {Home}]]
    /\ cache' = [cache EXCEPT
          !.project[Unit] = IF code = Unit THEN Home ELSE @,
          !.entities[Home][code] = IF UpsertWrites THEN [of |-> Unit, version |-> 0] ELSE @]

\* saveProjectBes: PRJ_<unit> is found or made, its Keycloak configuration registered, and the
\* project written to the unit's cache too.
SaveProject ==
    /\ At("projects")
    /\ Visited
    /\ IF Unit \in disabled
         THEN UNCHANGED <<db, cache, jsonMap, localhost>>
         ELSE /\ Upsert(Unit)
              /\ jsonMap' = jsonMap \cup {Unit}
              /\ localhost' = Unit
    /\ UNCHANGED <<attributeMap, started, Outside>>

\* saveServiceBes: PER_SERVICE, with the unit's name and token.
SaveService ==
    /\ At("services")
    /\ Visited
    /\ IF Unit \in disabled THEN UNCHANGED <<db, cache>> ELSE Upsert(PER_SERVICE)
    /\ UNCHANGED <<jsonMap, localhost, attributeMap, started, Outside>>

\* pushProjectsUrlsToDTT finds PRJ_<unit> in the unit's own realm ...
PushUrls ==
    /\ At("urls") \/ At("urlsAgain")
    /\ Unit \in disabled \/ db[Unit][Unit] # None
    /\ Visited
    /\ cache' = IF Unit \in disabled THEN cache ELSE [cache EXCEPT !.urls = @ \cup {Unit}]
    /\ UNCHANGED <<db, jsonMap, localhost, attributeMap, started, Outside>>

\* A row of the unit's sheet that the realm has not is inserted there; one that it has is
\* changed, and bulkUpdate sets its realm to that of getRealm: the row moves to the user's.
Target(c) == IF db[Unit][c] = None THEN Unit ELSE Home
RowOf(c) == [of |-> Unit, version |-> sheet[Unit][c],
             attributes |-> {Unit} \cup (IF db[Unit][c] = None THEN {} ELSE db[Unit][c].attributes)]
Imported(codes) ==
    [r \in Realm |-> [c \in Code |->
        IF c \in codes /\ r = Target(c) THEN RowOf(c)
        ELSE IF c \in codes /\ r = Unit THEN None ELSE db[r][c]]]

\* Code and realm are unique together: a row that is there already is in the way.
Clash(codes) == \E c \in codes : Target(c) # Unit /\ db[Target(c)][c] # None

\* The codes of a run's rows: all in the sheet at startup (rows that have not changed stay as
\* they are), those that the state model found for a request.
InSheet == {c \in SheetCode : sheet[Unit][c] # 0}
Gone == {c \in SheetCode : sheet[Unit][c] = 0 /\ db[Unit][c] # None}
Due == IF run.principal = None THEN {InSheet} ELSE SUBSET InSheet

\* persistEnabledProject, deleteFromEnabledProject: the unit's rows follow its sheet.
Import ==
    /\ At("import")
    /\ IF run.task = "skip" THEN DoneWith(run.currentRealm) ELSE Visited
    /\ CASE run.task = "skip" \/ Unit \in disabled -> db' = db
         [] run.task = "import" /\ Unit \notin disabled ->
                \E codes \in Due : ~Clash(codes) /\ db' = Imported(codes)
         [] run.task = "delete" /\ Unit \notin disabled ->
                \E codes \in SUBSET Gone :
                   db' = [db EXCEPT ![Unit] = [c \in Code |-> IF c \in codes THEN None ELSE db[Unit][c]]]
    /\ UNCHANGED <<cache, jsonMap, localhost, attributeMap, started, Outside>>

\* findAttributes for realm r, as a message.
AttributesOf(r) == [of |-> r, list |-> [c \in Attributes |-> ContentOf(db[r][c])]]

\* The attributes of the realm in force, which go to the unit's attribute map.
AttributesRead ==
    IF \A c \in Attributes : db[GetRealm][c] = None THEN attributeMap
    ELSE [attributeMap EXCEPT ![Unit] = @ \cup {GetRealm}]

\* The rows that pushBEsToCache and pushQuestionsToCache select for realm r: base entities with
\* an attribute of that realm, and questions of it.
Selected(r, h, c) ==
    /\ c \notin Attributes /\ db[h][c] # None
    /\ IF c \in Questions THEN h = r ELSE r \in db[h][c].attributes

\* (A mutant: only rows of the unit's own realm.)
PushedOwnRows ==
    [h \in Realm |-> [c \in Code |->
        IF h = Unit /\ Selected(Unit, h, c) THEN ContentOf(db[h][c]) ELSE cache.entities[h][c]]]
\* writeToDDT puts each selected row at its code in the cache of its realm; nothing removes the
\* entry of a row that is not there.
Pushed ==
    [h \in Realm |-> [c \in Code |->
        IF Selected(Unit, h, c) THEN ContentOf(db[h][c]) ELSE cache.entities[h][c]]]

\* pushToDTT.  The attributes come first, read and written for the realm that getRealm
\* gives before the stage turns to its unit, and copied to the unit's attribute map, even for
\* a disabled unit; then, for an enabled one, its base entities and questions.
PushToDTT ==
    /\ At("attributes")
    /\ Visited
    /\ cache' = [cache EXCEPT !.attributes[GetRealm] = AttributesOf(GetRealm),
                              !.entities = IF Unit \in disabled THEN @ ELSE Pushed]
    /\ attributeMap' = AttributesRead
    /\ UNCHANGED <<db, jsonMap, localhost, started, Outside>>

\* setEnabledRealm: announce an enabled unit.
SetEnabledRealm ==
    /\ At("enable")
    /\ Visited
    /\ started' = IF Unit \in disabled THEN started ELSE started \cup {Unit}
    /\ UNCHANGED <<db, cache, jsonMap, localhost, attributeMap, Outside>>

\* The list of enabled realms, written unless it is empty; update goes on to the units.
PushRealms ==
    /\ run.stage = "realms"
    /\ cache' = IF Enabled = {} THEN cache ELSE [cache EXCEPT !.realms = Enabled]
    /\ run' = [run EXCEPT !.stage = "reload",
                          !.todo = IF run.principal = None THEN <<>> ELSE Units]
    /\ UNCHANGED <<db, jsonMap, localhost, attributeMap, started, Outside>>

\* loadAllAttributesIntoCache, for each enabled realm at the end of update: the attributes
\* that findAttributes gives, those of getRealm, go to the realm of the service token.
ReloadAttributes ==
    /\ At("reload")
    /\ run' = [run EXCEPT !.todo = Tail(@)]
    /\ IF Unit \in disabled
         THEN UNCHANGED <<cache, attributeMap>>
         ELSE /\ cache' = [cache EXCEPT !.attributes[Unit] = AttributesOf(GetRealm)]
              /\ attributeMap' = AttributesRead
    /\ UNCHANGED <<db, jsonMap, localhost, started, Outside>>

\* The order of the stages.
StageAfter(stage) ==
    CASE stage = "projects" -> "services" [] stage = "services" -> "urls"
      [] stage = "urls" -> "import" [] stage = "import" -> "attributes"
      [] stage = "attributes" -> "urlsAgain" [] stage = "urlsAgain" -> "enable"
      [] stage = "enable" -> "realms"

NextStage ==
    /\ run.stage \notin {"down", "up", "realms", "reload"} /\ run.todo = <<>>
    /\ LET next == StageAfter(run.stage) IN
       run' = [run EXCEPT !.stage = next,
                          !.todo = IF next = "realms" THEN <<>> ELSE run.units]
    /\ UNCHANGED <<db, cache, jsonMap, localhost, attributeMap, started, Outside>>

\* The request goes on to its next unit ...
NextUnit ==
    /\ run.stage = "reload" /\ run.todo = <<>> /\ run.later # <<>>
    /\ run' = NewRun(<<Head(run.later)>>, Tail(run.later), run.principal, run.task)
    /\ UNCHANGED <<db, cache, jsonMap, localhost, attributeMap, started, Outside>>

\* ... or the run ends, and its transaction commits.
Finish ==
    /\ run.stage = "reload" /\ run.todo = <<>> /\ run.later = <<>>
    /\ run' = NoRun("up")
    /\ committed' = db
    /\ UNCHANGED <<disabled, sheet, db, cache, jsonMap, localhost, attributeMap,
                   started, failures, requests, edits>>

----------------------------------------------------------------------------
\* ... and dereferences null when there is none.
ProjectMissing ==
    (At("urls") \/ At("urlsAgain")) /\ Unit \notin disabled /\ db[Unit][Unit] = None

\* A row of the user's realm is in the way of one that bulkUpdate moves there.
ImportClashes == At("import") /\ run.task = "import" /\ Unit \notin disabled /\ Clash(InSheet)

\* An exception ends a request's run and rolls its transaction back; what it wrote to the
\* cache and to this server's memory stays.
RequestFails ==
    /\ run.stage \notin {"down", "up"} /\ run.principal # None
    /\ ProjectMissing \/ ImportClashes \/ failures < MaxFailures
    /\ failures' = IF ProjectMissing \/ ImportClashes THEN failures ELSE failures + 1
    /\ run' = NoRun("up")
    /\ db' = committed
    /\ UNCHANGED <<disabled, sheet, committed, cache, jsonMap, localhost,
                   attributeMap, started, requests, edits>>

\* The server dies, or an exception ends inits() and with it the deployment: only the
\* committed database and the cache server remain.
Crash ==
    /\ run.stage # "down"
    /\ failures < MaxFailures
    /\ failures' = failures + 1
    /\ run' = NoRun("down")
    /\ db' = committed
    /\ jsonMap' = {} /\ localhost' = None /\ started' = {}
    /\ attributeMap' = [r \in Realm |-> {}]
    /\ UNCHANGED <<disabled, sheet, committed, cache, requests, edits>>

\* The sheets change under the server, whenever they like, but only the import looks at them;
\* the units' flags are read anew at each start.
EditSheet(r) ==
    /\ At("import") /\ edits < MaxEdits
    /\ \E c \in SheetCode : \E version \in Version \ {sheet[r][c]} :
          sheet' = [sheet EXCEPT ![r][c] = version]
    /\ edits' = edits + 1
    /\ UNCHANGED <<disabled, committed, db, cache, jsonMap, localhost, attributeMap,
                   run, started, failures, requests>>
EditFlag(r) ==
    /\ run.stage = "down" /\ failures > 0
    /\ disabled' = IF r \in disabled THEN disabled \ {r} ELSE disabled \cup {r}
    /\ UNCHANGED <<sheet, committed, db, cache, jsonMap, localhost, attributeMap,
                   run, started, failures, requests, edits>>

Pipeline ==
    \/ SaveProject \/ SaveService \/ PushUrls \/ Import \/ PushToDTT
    \/ SetEnabledRealm \/ PushRealms \/ ReloadAttributes \/ NextStage \/ NextUnit \/ Finish

Next ==
    \/ Start
    \/ \E p \in Realm : Request(p)
    \/ Pipeline
    \/ RequestFails \/ Crash
    \/ \E r \in Realm : EditSheet(r) \/ EditFlag(r)

Spec == Init /\ [][Next]_vars
\* The container starts the bean whenever the server comes up, and its one thread runs on
\* until it returns; nothing makes users post or servers crash.
FairSpec == Spec /\ WF_vars(Start) /\ WF_vars(Pipeline) /\ WF_vars(RequestFails)

----------------------------------------------------------------------------
TypeOK ==
    /\ disabled \subseteq Realm
    /\ sheet \in [Realm -> [SheetCode -> Version]]
    /\ committed \in Database /\ db \in Database
    /\ cache.project \in [Realm -> Realm \cup {None}]
    /\ cache.attributes \in [Realm -> AttributeList \cup {None}]
    /\ cache.entities \in [Realm -> [Code -> Content \cup {None}]]
    /\ cache.urls \subseteq Realm
    /\ cache.realms = None \/ cache.realms \subseteq Realm
    /\ jsonMap \subseteq Realm
    /\ localhost \in Realm \cup {None}
    /\ attributeMap \in [Realm -> SUBSET Realm]
    /\ run.stage \in Stage /\ run.currentRealm \in Realm /\ run.principal \in Realm \cup {None}
    /\ run.task \in Task
    /\ started \subseteq Realm

\* Every row that the push of realm r selects is in the cache of the realm it lies in.
RowsCached(r) ==
    \A h \in Realm : \A c \in Code :
        Selected(r, h, c) => cache.entities[h][c] = ContentOf(db[h][c])

\* A run announces a realm (setEnabledRealm) only when the realm's URLs and Keycloak
\* configuration are in place and every row that pushToDTT selects for it, wherever bulkUpdate
\* has moved it, is in the cache as its transaction sees it; at startup also its own attributes
\* and project, though pushToDTT writes each realm's list a unit late.
ReadyWhenAnnounced ==
    [][\A r \in started' \ started :
          /\ r \in cache.urls /\ r \in jsonMap /\ RowsCached(r)
          /\ run.principal = None => cache.attributes[r] = AttributesOf(r) /\ cache.project[r] = r]_vars

\* Whatever crashes, failed runs and requests left in the cache, a startup that completes
\* leaves every enabled realm's own project and attributes there, each row that it selects and
\* that it commits, and the exact list of enabled realms (inits, pushToDTT).  Entries of rows
\* that are not there are another matter: nothing removes them.
BootHealsCache ==
    [][run.stage = "reload" /\ run.principal = None /\ run'.stage = "up" =>
          /\ committed' = db
          /\ \A r \in Enabled :
                /\ cache.project[r] = r /\ cache.attributes[r] = AttributesOf(r)
                /\ RowsCached(r)
                /\ r \in cache.urls /\ cache.realms = Enabled]_vars

\* The rows of a disabled realm change only in the name of its own users, who may post to
\* /syncsheets for other units, and so do its entries of the cache, but for rows that are there
\* with attributes of a realm that is not.  No run registers or announces it or writes
\* its project or URLs; its attributes only for its own user, or when no unit is enabled at all
\* (pushToDTT then writes the main realm's).
DisabledRealmsUntouched ==
    [][\A r \in disabled :
          /\ cache'.project[r] = cache.project[r]
          /\ r \in cache'.urls <=> r \in cache.urls
          /\ r \in jsonMap' => r \in jsonMap
          /\ r \in started' => r \in started
          /\ run.principal # r =>
                /\ db'[r] = db[r] /\ committed'[r] = committed[r]
                /\ \A c \in Code : cache'.entities[r][c] = cache.entities[r][c]
                                    \/ \E e \in Realm \ disabled : Selected(e, r, c)
                /\ Enabled # {} => cache'.attributes[r] = cache.attributes[r]]_vars

\* A server that is down comes up in the end, once it crashes no more: every stage finds
\* what the stages before it have left (inits, pushProjectsUrlsToDTT).
StartupCompletes == run.stage = "down" ~> run.stage = "up"

\* The attribute map of a realm holds that realm's attributes, as pushToDTT logs
\* ("Completed loading attributes into RulesUtils.realmAttributeMap for realm ...").
AttributeMapOfOwnRealm == \A r \in Realm : attributeMap[r] \subseteq {r}

\* The list "attributes" in a realm's cache is that realm's, as update logs ("Now loading in
\* the attributes for realm ...").
CachedAttributesOfOwnRealm ==
    \A r \in Realm : cache.attributes[r] # None => cache.attributes[r].of = r
=============================================================================
