# Qwanda service: TLA+ models, checks and proofs

The Qwanda service is the data tier of a Genny installation: a WildFly application that keeps
base entities, attributes, questions and answers of several *realms* in one relational database,
copies them into a shared Infinispan cache that the other services read, logs a service user in
to Keycloak for each realm, and accepts answers over HTTP and Kafka. This directory models the
parts of it that keep state. File names below are relative to
`src/qwanda-service-war/src/main/java/life/genny/`.

## 1. The system

### 1.1 Components, their state and their operations

| Component (source) | State | Operations | What makes it correct |
|---|---|---|---|
| **StartupService** (`qwanda/service/StartupService.java`) `@Startup @Singleton` | import mode, the realm units, `RulesUtils.realmAttributeMap` | `inits` (at startup), `update` and `deleteFromSheets` (from `/syncsheets`): stages over realm units | realms are announced when what clients read is in place; a completed startup heals the cache; disabled realms are left alone; it completes |
| **ServiceTokenService** (`qwanda/service/ServiceTokenService.java`) `@ApplicationScoped` | a plain `HashMap` realm → access token | `init`, `getServiceToken`, `generateServiceToken` | tokens never cross realms; a returned token has life left |
| **Service** (`qwanda/service/Service.java`) `@RequestScoped` | `currentRealm`, the entity manager's transaction | `insert`/`update`/`writeToDDT`, link-change events, `getKeycloakUrl` | the cache follows the committed rows |
| **WildflyCache** (`io/vertx/.../WildflyCache.java`) and **Hazel** (`qwanda/service/Hazel.java`) | the Infinispan caches, the registry of cache handles | `writeCache`, `readCache`, `clear`, `getMapBaseEntitys` | one write is atomic; a handle is stored for each known realm |
| **SecureResources** (`security/SecureResources.java`) | `keycloakJsonMap`, several keys per realm | `addRealm`, `removeRealm`, `reload` | a reload loses no file |
| **PathBasedKeycloakConfigResolver** (`qwanda/util/`) | cached `KeycloakDeployment`s | `resolve`, for every request | every realm is checked against its own configuration |
| **QwandaEndpoint** (`qwanda/endpoint/QwandaEndpoint.java`) | none of its own; the static `StateManagement` of `/syncsheets` | REST operations on entities, links, answers, asks, search | each request's effect on rows and cache |
| **ServiceEndpoint** (`qwanda/endpoint/ServiceEndpoint.java`) | none | cache writes and clears, synchronisation, hiding and removal, realms, layouts, users | as above; what is synchronised is what is stored |
| **Controller** (`qwanda/controller/Controller.java`) | none | rows deleted from a sheet are hidden | hides the rows that went, and no others |
| **AnswerListener**, **EventBusBean** (`io/vertx/.../`) | Kafka acknowledgements | answers in, events out | each answer is stored once |
| **SecurityService** (`qwanda/service/SecurityService.java`) | import mode (static), the caller's token | `getRealm`, roles | the realm in force |
| **Keycloak users** (`ServiceEndpoint.create`, `QwandaEndpoint.removeUser`) | users in Keycloak beside rows | create, remove | the two stores agree |
| KeycloakService, KeycloakEndpoint, UtilsEndpoint, VersionEndpoint, JMS helpers, VertxApiMonitor, PersistenceHelper, filters | none | plumbing | – |
| Swagger UI (`webapp/`) | – | vendored browser code | – |

### 1.2 How they interact

* The container constructs `StartupService`, which calls everything else while no request is
  served: it logs each realm in (`ServiceTokenService.init`), saves the project entity of every
  enabled realm and registers its Keycloak configuration (`SecureResources.addRealm`), imports
  the sheets, pushes attributes, entities and questions to the cache, and announces the realms.
* Every later request passes the resolver (reads `keycloakJsonMap`), runs in a JTA transaction,
  reads and changes rows through `Service`, and writes the changed entities to the cache *inside*
  the transaction (`Service.writeToDDT`). The cache is another server, so these writes are
  neither undone by a rollback nor lost in a crash, and nothing orders them with other
  transactions' commits.
* `/syncsheets` runs `StartupService.update` in the requesting user's name. `Service.getRealm`
  prefers the user's realm to `currentRealm`, so the stages that say `setCurrentRealm` do not
  always get what they ask for.
* `Service.getKeycloakUrl` and `ServiceTokenService.generateServiceToken` read, and now and then
  refill or extend, the map that the resolver reads.

### 1.3 What is hard here

Unsynchronised shared maps (the service tokens), check-then-act on concurrent ones (the Keycloak
map, the deployments), cache writes inside transactions that may roll back, read-then-write
synchronisation that races ordinary updates, a pipeline whose stages depend on a realm set by
the stage before, crashes between the two stores, a static request parameter and a bean lock
taken inside a transaction that already holds rows, writes that belong to no transaction, and
answers that cross Kafka, HTTP and a transaction with an acknowledgement that depends on none
of them. `PROJECT.json` lists each as a hazard with its line and the properties that cover it; a hazard
without a property has a note that says why.

## 2. The modules

Every model abstracts data to what the properties tell apart (a token is a realm and an expiry,
a row is a version, a configuration is the realm it belongs to) and keeps the control: each
access to shared state is one action.

### 2.1 `ServiceTokens` – the service user's tokens

| Model | Code |
|---|---|
| `serviceTokens` | the `HashMap` of the same name (`null` is `NoToken`) |
| `toInit`, `InitRealm` | `init(RealmUnit)`, called per unit by the startup thread; no call runs before it is through |
| `call[c].pc` | where a call of `getServiceToken` stands |
| `Call`, `Resolve` | entry and renaming of the realm (devMode, `genny` → main realm), lines 127–140 |
| `Lookup`, `Judge`, `Reusable` | `get`, then the check of the remaining life against the limit |
| `FindJson`, `LoginOk`, `LoginFails` | `generateServiceToken`: configuration found or not, Keycloak answers or not |
| `Throws` | an exception outside the `try` (reading the configuration, `decrypt` at line 226) leaves the call |
| `StoreAccess` | the `put`, and the return of the new token |
| `Tick` | the wall clock |

The `HashMap` is not synchronised. A `get` that races a `put` may miss the entry, and of two puts
that race one may be lost (`OtherWriting`): these are the outcomes of the data race that are kept.
`refreshServiceTokens` is written and never read by a call and is left out. During `init` such an
exception ends the deployment, and `InitRealm` stores what a login gave or null.

Properties: `TokensStayInTheirRealm`, `ReturnedTokenHadLife` (a caller gets no token on another
call's judgement). Nothing is said of how many calls log in at once: the code does not bound it.

### 2.2 `RealmStartup` – the pipeline over the realms

| Model | Code |
|---|---|
| `run` | the run of `inits`, `update` or `deleteFromSheets`: its stage, the units still to do, the user's realm (`principal`), `currentRealm`, what it does with the sheets' rows (`task`) |
| `committed`, `db` | per realm and code the row, committed and as the open transaction sees it: the realm whose unit it tells of, the version of that realm's sheet, the realms of its attributes |
| `sheet` | per realm the version of each row of its Google sheet (0: not there) |
| `cache` | per realm the project at key `PROJECT`, the list `attributes` and what is at the keys of entities and questions; the URL entries; the list `REALMS` |
| `jsonMap`, `localhost` | which realms' keys were registered and who holds `localhost` |
| `attributeMap` | `RulesUtils.realmAttributeMap` |
| `GetRealm`, `Home` | `Service.getRealm`: the user's realm wins over the unit that `setCurrentRealm` named |
| `SaveProject`, `SaveService`, `Upsert` | `PRJ_<unit>` and `PER_SERVICE` are written in `Home` with attributes of `Home`: by a request, in the user's realm, over what was there |
| `PushUrls`, `ProjectMissing` | `pushProjectsUrlsToDTT` looks for `PRJ_<unit>` in the unit's own realm and dereferences null when it is not there |
| `Import`, `Target`, `Clash` | `persistEnabledProject`, `deleteFromEnabledProject`. A new row is inserted under the unit's code; one that is there is changed and moved to `Home`, because `bulkUpdate` sets its realm to that of `getRealm`; a row of the user's realm with the same code is in the way |
| `PushToDTT`, `Selected`, `Pushed` | `pushToDTT`: the attributes of the realm in force, then the base entities with an attribute of the unit's realm and the questions of that realm, each written at its code to the cache of *its* realm. Nothing removes an entry |
| `SetEnabledRealm`, `PushRealms` | the announcement of a unit and the list of enabled realms |
| `StageAfter`, `NextStage` | the order of the stages |
| `Batches`, `Due`, `Request` | the units of a `/syncsheets` request: each changed unit once, in the state model's order, with any of the sheet's rows |
| `ReloadAttributes`, `NextUnit`, `Finish` | the end of `update` (a disabled unit is passed over), the next changed unit of the same request, the commit |
| `RequestFails`, `Crash` | any exception of a request; process death or a failed deployment |
| `EditSheet`, `EditFlag` | the Google sheets change |

A run is one transaction and there is one at a time (the bean is a `@Singleton` with container
locks), so a step per stage and unit is as fine as other parties can observe.

Properties:

* `ReadyWhenAnnounced`: at the announcement of a realm its URLs and its Keycloak configuration are
  in place and every row that the push selects for it is in the cache *of the realm it lies in*.
  After a request of another realm's user that is not always the announced realm: `bulkUpdate` has
  moved the changed rows, and a client that looks in the announced realm's cache finds the old
  entry or none. The code announces the realm all the same and nothing in it says otherwise, so the
  property claims what the pipeline gives. At startup `getRealm` is the unit, and the realm's own
  attributes and project are there as well.
* `BootHealsCache`: after crashes, failed runs and requests of other realms' users, a startup that
  completes has put back every enabled realm's own project and attributes, each row that it selects
  as it commits it, and the exact list of realms. Entries of rows that are *not* there (removed,
  moved or rolled back) stay in the cache: the push only puts, and the property does not claim them.
* `DisabledRealmsUntouched`: what a disabled realm is safe from. Its own users may post to
  `/syncsheets` for other units, and then rows of those units are written in their realm; so rows
  and entries are claimed for runs in nobody's or another realm's name only, and entries may also
  be written for rows that lie there with attributes of an enabled realm.
* `StartupCompletes`, the liveness property.

They rely on the order of the stages, on which realm the stage before has left in `currentRealm`
and on where rows lie, which is how the code works and what a change of it would break.

*Assumptions taken from use:* `GennySettings.loadDdtInStartup` is on; `BatchLoading` gives the rows
it inserts the unit's code as their realm and hands the rows that are there to `bulkUpdate`;
code and realm are unique together; every entity of a sheet has an attribute there (one
without any would never be pushed); whether the library's `upsert` writes the entity to the cache is
the constant `UpsertWrites` (the runs have it `TRUE`, the theorems hold for both);
a deletion removes rows in the unit's realm; `findAttributes` reads the realm of
`Service.getRealm`. *Left out:* the attributes that `createAnswer` defines on its way, and
`saveLayouts`, which has no caller. Only the import reads the sheets, so they are edited just then.

### 2.3 `EntityCache` – rows, transactions and the cache

| Model | Code |
|---|---|
| `committed[c]` | the row of a base entity: a version, `Removed`, or `Hidden` (in the realm "hidden") |
| `cache[c]` | the version in the realm's cache |
| `request[t]` | a request: operation, its view of the rows, how many of its cache writes are done |
| `Begin`, `Found`, `Refused` | a request begins with its query; the row it finds; `NoResultException` |
| `CodesFor`, `Present` | the entities a request is about: one, an old and a new parent, or all that the query of `synchronizeCacheBEs` gives |
| `Modify`, `Discard` | the change in the transaction's own view |
| `Put` | `writeToDDT` → `VertxUtils.writeCachedJson` → `WildflyCache.writeCache` |
| `Commit`, `Rollback` | the transaction ends; the cache keeps what it got |
| `CacheWrite`, `CacheClear` | the cache endpoints of `ServiceEndpoint` |

The database is read-committed; conflicting commits are not refused, except an insert of a row
that is there and an update of one that is gone. `@Asynchronous` on `Service` methods has no
effect because `Service` is not an EJB, so writes happen in the calling thread. That
`BaseEntityService2.insert` and `update` call the overridden `writeToDDT` is taken from how
`Service` overrides it (`EntityCache.Row` in the map is external).

The cache cannot always be right, so the property says when it must be: `tainted` collects the
codes that overlap, a rollback, a removal, a swallowed link event or a direct cache write may
have spoiled, and forgets them when an undisturbed request writes the entity and commits, or the
cache is cleared. `CoherentUnlessTainted`: every other entry that no request works on is the
committed row or absent. `NoStepBack`: an undisturbed request never moves an unspoiled entry back.

`removeEntityAttribute` over many entities is one update of each of them (`Modify`); what the call
does to them together is decided in the entity library.

### 2.4 `KeycloakRealms` – Keycloak configurations and deployments

| Model | Code |
|---|---|
| `jsonMap` | `SecureResources.keycloakJsonMap`: key (name, with or without `.json`) → the realm whose configuration it holds |
| `deployments` | the resolver's `cache` |
| `thread[t]` | a thread in the middle of a registration, reload, resolution or token copy |
| `Register`, `Put` | `StartupService.saveProjectBes` (one run at a time), one `addRealm` per step |
| `SyncRealms`, `GetKeycloakUrl`, `Clear`, `Put` | `reload`: clear, then one put per step (`EntriesOf`: a file gives one or two keys) |
| `CreateRealm`, `RemoveRealm` | the REST operations |
| `Resolve`, `ResolveFirst`, `ReadFirst`, `Lookup`, `Build` | `resolve`: with a token, without one, `get`, build and `cache.put` |
| `FindJson`, `ReadGenny`, `CopyGenny` | `generateServiceToken(String)` in devMode |

Properties: `DeploymentOfOwnRealm` (whose configuration a deployment has; host names such as
`localhost` are shared by all realms and must not decide), `ReloadLosesNoFile` (reloads overlap
because `getKeycloakUrl` starts one whenever it sees the map empty), `RegisteredRealmsResolve`.

*Assumptions:* a file of `realmDir` that is named after a realm holds that realm's configuration
(a misnamed file breaks `DeploymentOfOwnRealm` at once). *Left out:* sub-directories, which are
read by their bare name; unreadable files; a missing directory; the resolver's look-up by host
name, whose result is overwritten before it is used; the further host-name keys of a realm, which behave
like `localhost`.

### 2.5 `SheetSync` – concurrent `/syncsheets`

| Model | Code |
|---|---|
| `stateModel` | `StateManagement.stateModel`, static |
| `bean` | the caller inside the `@Singleton` `StartupService` |
| `rows` | per unit and kind (imported rows, removed rows), the sheet's version last applied |
| `cache` | per unit, the version of its imported rows in the cache |
| `request[t]` | a request: `pc`, the units still to do with the data fetched of them, the units done |
| `SetStateModel` | `syncSheets`, `syncDeletedRowFromSheets`: `setStateModel` |
| `GetUnits` | `getUpdatedRealmUnits`, `getDeletedRowsFromRealmUnits`: the units of whatever model is there by now, in any order |
| `Enter`, `Import`, `Push` | one call of `update` or `deleteFromSheets`: the container's lock, the rows, the cache |
| `Commit`, `Fail` | the request's transaction ends; the next request may be in between |
| `EnterTimeout`, `RowTimeout` | the container's access timeout; the lock timeout of `persistence.xml` |

The rows a request has written stay locked until its transaction ends, while it leaves and
enters the bean once per unit. So request A can hold rows of unit 1 and wait for the bean while
B is in the bean and waits for these rows: a circular wait of a lock of the container and one of
the database, which neither of them sees. `RequestsEnd` says that time-outs end it; either of the two
is enough. `AnsweredChangesStay` says which clients may rely on their 200: those whose
`setStateModel` was not followed by another before their units were read, and who were not
overtaken by a request with data fetched earlier. `CacheFollowsRows` says that overlapping requests never
leave the imported rows of one with the cache entries of another. A removal of rows pushes what is
left and takes no entry away (`pushBEsToCache`, `pushQuestionsToCache` only put), so `cache` is about imported
rows alone and a request of kind `DELETE` writes their committed version again.

*Assumptions:* a `RealmUnit` carries the sheet data from when it was made; the requests come
from users of one realm; the database reads committed rows (`persistence.xml`); what the bean
does inside, and in which realm `bulkUpdate` leaves the rows, is the subject of `RealmStartup`.

### 2.6 `AnswerFlow` and `AnswerDelivery` – answers from Kafka

| Model | Code |
|---|---|
| `published`, `committed` | the topic, one partition, and the offset the broker was told |
| `next`, `pc` | where `AnswerListener.fromAnswers` stands |
| `FromAnswers`, `Response`, `PostFails`, `Ack` | parse and `apiPostEntity2`; its return; its `IOException`, which is swallowed; `message.ack()` |
| `Unparsable` | the parser throws out of `fromAnswers`; the channel ends |
| `serving`, `Store`, `Refuse` | POSTs that the server has not decided; `QwandaEndpoint.create(Answer)` commits, or ends without change |
| `Crash`, `Restart` | the server dies with its POSTs; the consumer takes up at the committed offset, or at the end of the topic |

`keepsGroup` is a choice of the initial state: `microprofile-config.properties` (81–87) sets no
`group.id`, so the connector makes a new group for each start, which begins at the end of the
topic (`FALSE`); a deployment that sets one takes up at its committed offset (`TRUE`).

A message is acknowledged whatever became of its POST, so delivery is neither at-least-once nor
at-most-once. The properties say precisely what it is. `PassedIsStored`: what is lost is exactly
what failed or was skipped. `RepeatsFromCrashesOnly`: an answer is repeated once per crash
at most. `LastAnswerWins`: replays and late POSTs do not leave an attribute with an old value
unless one of its answers was lost. `EveryMessagePassed`: nothing but an unparsable message stops the channel.

`AnswerDelivery` is the abstract specification: answers taken in order, none left behind that was
neither stored nor lost, a restart from what was reported done or from the end.
`AnswerFlow` implements it (`DeliversAnswers`) under the mapping at the end of the module, which hides the
listener's program counter, the POSTs under way and the crashes.

*Left out:* answers that other clients POST directly (each is one request of `EntityCache`'s
kind), `writeMessage`'s channel (`ServiceEndpoint` 414–450, the sending side), bulk answers
(`createBulk`, `createBulk2`: decided in the entity library); an unchecked exception of
`apiPostEntity2` (line 43), which would end the channel without an acknowledgement as an
unparsable message does.

### 2.7 `KeycloakUsers` – persons' rows and Keycloak users

| Model | Code |
|---|---|
| `row[p]` | a person's row: its username if all four `PRI_` attributes are there, and `PRI_KEYCLOAK_UUID` |
| `users`, `made` | Keycloak: username → id |
| `Create`, `Save`, `Answers`, `Look`, `CreateUser`/`FindUser`, `Record` | `ServiceEndpoint.create`, one step per call |
| `Remove`, `Delete`, `DropUser`, `Commit` | `QwandaEndpoint.removeUser`: read the id, remove the row, drop the user, commit |
| `RemoveBaseEntity` | `ServiceEndpoint.removeBaseEntity`: the row alone |
| `Fail` | an exception or the server's death at any step |

`create` carries no `@Transactional` and the entity manager is an extended one, so each of its
writes takes effect, throws, or is lost without a word. `apart` collects the ids that
one of the named windows may have parted from their row; `NoUserLeftBehind` and `NoIdDangles`
say that nothing else parts the stores. `NoIdDangles` is also why a removal never takes another
person's user: it goes by the recorded id and not by the name, which may have changed.

The comment at `ServiceEndpoint` 722 ("if it is a person AND it has a username then ensure that
keycloak is updated") promises more than the code does: Keycloak is also left alone when a first
or last name or an e-mail address is missing, and when `createUser` throws (swallowed).

### 2.8 `DeletedRows` – rows that went from a sheet

| Model | Code |
|---|---|
| `saved` | `BatchLoading.savedProjectData` for one table, static |
| `shown` | the table's rows in the realm (a row that is hidden or removed is not shown) |
| `sync[t]` | a run of `Controller.synchronizeSheetsToDataBase` |
| `Start`, `ReadSheet`, `Deletions` | `retrieveDeletionRecords`: copy the saved data, read the sheet, the keys of the one and not of the other |
| `Hide`, `Upsert` | one record of `updateBaseEntity` and its like; the second `persistProject` |
| `EditSheet`, `OtherRequest` | the sheet changes; another request creates or removes a row |

`Controller` is made with `new`, so its `@Transactional` does nothing. Whether the library
remembers and writes what the first reading got is not decided by this code: both are modelled.
`RowsOfOthersStay`: rows that never came from the sheet are not taken for deleted.
`SheetRowsShown`: a run that goes by an older reading takes away no row for good. `DeletionsHidden`: an
undisturbed run hides all that went.

`RealmStartup`, `ServiceTokens` and `KeycloakRealms` meet in the Keycloak map: `RealmStartup`
sees only which realms have been registered, `ServiceTokens` treats the search as found or not
found at any moment, which covers every state of that map `KeycloakRealms` allows.
`SheetSync` puts around a call of the bean what other requests can do between two calls, and has
`RealmStartup`'s stages as one import and one push.

## 3. The runs

All runs use model values and the bounds named in the `.cfg` files. In the passing ones TLC
explores every reachable state.

| Run | Configuration | Shows |
|---|---|---|
| `service_tokens` | 3 realms (`genny`, main, another), 2 threads, limit 2, lifetimes 1 and 3, clock to 2; 0.8 M states | types, `TokensStayInTheirRealm`, `ReturnedTokenHadLife` |
| `realm_startup` | 2 units, any of them disabled, an attribute, an entity and a question in the sheet of one, versions to 2, 1 edit, 1 crash or failed run, 1 `/syncsheets` of any units in any order and any of their rows; 1.4 M states, 2 to 3 minutes | types, `ReadyWhenAnnounced`, `BootHealsCache`, `DisabledRealmsUntouched`, `StartupCompletes` |
| `entity_cache` | 2 entities, 2 threads, versions to 3, clients that kept version 1; 0.8 M states | types, `CoherentUnlessTainted`, `NoStepBack` |
| `keycloak_realms` | 2 realms, 2 files, 2 threads, devMode; 1.3 M states | types, `DeploymentOfOwnRealm`, `ReloadLosesNoFile`, `RegisteredRealmsResolve` |
| `sheet_sync` | 2 units, the sheet of one is edited, versions to 2, 2 threads, 3 requests; 0.2 M states | types, `AnsweredChangesStay`, `CacheFollowsRows`, `RequestsEnd` |
| `answer_flow` | 3 answers about 2 attributes, any of them unparsable, 2 crashes, with and without a lasting group; 45 k states | types, `PassedIsStored`, `RepeatsFromCrashesOnly`, `LastAnswerWins`, `EveryMessagePassed`, the refinement `DeliversAnswers` |
| `keycloak_users` | 2 persons, usernames and threads, 2 Keycloak users ever made; 1.3 M states | types, `NoUserLeftBehind`, `NoIdDangles` |
| `deleted_rows` | 2 keys, 2 threads; 72 k states | types, `RowsOfOthersStay`, `SheetRowsShown`, `DeletionsHidden` |
| `startup_attribute_maps` | as `realm_startup` | *violated*: `AttributeMapOfOwnRealm` |
| `update_attribute_cache` | as `realm_startup` | *violated*: `CachedAttributesOfOwnRealm` |
| `entity_cache_late_sync` | as `entity_cache` | *violated*: `SyncedToCache` |
| `created_realm` | as `keycloak_realms` | *violated*: `CreatedRealmResolves` |

Why the bounds are enough to meet the interesting cases:

* *service_tokens*: two lifetimes on either side of the limit, a clock that lets a good token
  turn bad while a call holds it, two threads for every race on the map, and the three kinds of
  realm name that the renaming tells apart.
* *realm_startup*: two units give each stage a predecessor that left another realm in force, one
  failure leaves half-written caches for the next startup to heal, and a user of either realm,
  enabled or not, posts the request. The sheet of the first unit has one row of each kind, of which
  the attribute, the entity and the question are pushed in three different ways; an edit
  adds, changes or removes a row of either sheet. A request of the second realm's user moves rows of
  the first unit to his realm, or meets rows there that are in the way.
* *entity_cache*: a request that reads before and writes after another's commit needs two
  threads; an old and a new parent of a link, or a list to synchronise, need two entities;
  versions 1 to 3 allow two changes on top of the first row.
* *keycloak_realms*: two overlapping reloads, or a reload and a resolution, registration or
  token copy; one file that makes two keys by its name and one that is also the main realm's.
  devMode only adds behaviour, so it is on.

* *sheet_sync*: the circular wait needs two requests that both name two units, in opposite
  order; a third request meets what the first two have left. Orders and overtaking need one sheet that is edited.
* *answer_flow*: an attribute with two answers that another one separates shows late and
  repeated stores out of order; the second crash repeats a repetition.
* *keycloak_users*: two requests on one person, or on two that share a username; a user that is
  dropped and one that is made again in its place.
* *deleted_rows*: one row that goes while another comes, two runs of which the slower goes by the older reading.

`CHECK_DEADLOCK FALSE` appears where the bounds stop the system. `RealmStartup`: a server that
is up, with requests, failures and edits used up, has nothing left to do. `SheetSync`: no request is
left to post. `AnswerFlow`: all messages are passed, or the channel has ended for good.

**Fairness.** Nothing makes users post, servers crash or sheets change.

* `RealmStartup!FairSpec`: weak fairness of `Start` (the container starts the bean), of the
  pipeline (its one thread runs on) and of `RequestFails` (an exception that is raised ends the run).
* `SheetSync!FairSpec`: weak fairness of each thread's `Serve`: threads run on, and a wait that
  lasts ends with a time-out. The container does not queue callers fairly, and the property does not need it to.
* `AnswerFlow!FairSpec`: weak fairness of the listener's steps, of the decision of each POST
  (commit or error: a request of the server ends) and of `Restart`. Responses need not come: `PostFails` has no fairness.

### What the violated properties show

* `AttributeMapOfOwnRealm`: `pushToDTT` reads the attributes before it calls `setCurrentRealm`,
  so with two enabled realms each attribute map gets the other's attributes, while the log
  names the realm of the map.
* `CachedAttributesOfOwnRealm`: the reload at the end of `update` writes the requesting user's
  attributes into every realm's cache.
* `SyncedToCache`: `cacheSync` writes the row it read even when the row has been changed or removed since.
* `CreatedRealmResolves`: a realm added over REST is stored only under the key with `.json`; the
  resolver reads the one without.

## 4. The proofs

The eight `...Proofs` modules hold for every value of the constants that satisfies the assumptions
named in the modules: any number of realms, realm units, threads, files, answers, crashes, persons
and rows. Each proves an inductive invariant `IInv` with one lemma per action (`InitIInv`, `NextIInv`,
`SpecIInv`) and takes the properties from it. The assumptions say
that bounds are numbers and special values are not members of the sets they are set apart from.
Two models need more: `SheetSync` finitely many units (`UnitAssumption`), since a request takes them
one by one, and `EntityCache` finitely many entities (`CodeAssumption`), since a query lists them.

**ServiceTokens.** Theorems `TokensTypeCorrect`, `TokensNeverCrossRealms`, `ReturnedTokensHadLife`.
The properties are not inductive: a token of the wrong realm in the hands
of a call that is about to store it, or a call past its judgement with an unjudged token, would
break them a step later. `IInv` therefore says for each program point what the call knows
(`CallInv`: the key is the one meant, the token is the key's, a rejected token was short of
life at the judgement, one about to be stored was issued alive to this call) beside what the map holds (`StoredInv`).
`OneCall` reduces a step of a call to `CallInv` of its new record; one step of
`CallStepIInv` per action does the rest.

**KeycloakRealms.** Theorems `RealmsTypeCorrect`, `DeploymentsStayApart`, `ReloadsLoseNoFile`,
`RegistrationsStand`. `IInv` adds that under a realm's plain name lies its own configuration or
nothing (`MapInv`), and that what threads still hold is sound (`StateInv`): entries yet to be put
respect `MapInv` (`Own`), a thread that puts has a valid place in its work, and a configuration
looked up for a deployment is the realm's own. `PutsOfItem` carries `Own` from a file to the
entries made of it, `DirectoryAssumption` gives it for the files. `ReloadLosesNoFile` needs no account
of what other threads have put: a clear leaves every entry still to be put by the thread
that clears, a put takes away only the entry it puts, and a removal records its key.

**AnswerFlow.** Theorems `AnswersTypeCorrect`, `PassedAnswersAreStored`, `OnlyCrashesRepeat`,
`LastAnswersWin`, and `ListenerDelivers`: the listener implements `AnswerDelivery`. `IInv`
follows a message through one life of the server: not posted yet (`Unposted`), with the server
(`PlaceInv`), settled. `RepeatInv` counts how often an answer may have been stored at each of these
places, so that a POST that is under way may add one; `LatestInv` says that the value of an
attribute is at least as new as the last of its settled answers, which is why a replay, storing old
answers again, ends with the newest. `InitMaps` and `StepMaps` take an answer for stored when it has
been stored at all and forget how often: a restart is a `TakeUp` or a `PassOver`, reading, posting,
responses and the crash itself are stutters.

**DeletedRows.** Theorems `RowsTypeCorrect`, `OthersKeepTheirRows`, `SheetRowsComeBack`,
`DeletionsAreHidden` (an action property, from `IInv` before the step). `SyncInv` says what a run
knows at each step: what it is going to hide has been in the sheet, and while nobody disturbs it, every
row that went is still to be hidden or its write was lost. `OwedInv` adds who has yet to put
back what was hidden.

**SheetSync.** Theorems `SyncsTypeCorrect`, `AnsweredRequestsLast`, `CacheFollows`. `RequestInv`
relates what a request promised its client, the version of the sheet that it fetched, and what
earlier requests are owed: its data is at least as new as all of them, except for units on which another
request overtook it. `LockInv` keeps the rows of two requests apart, and `CacheInv` says whose
imported rows the cache has: those of the request that has pushed and not committed, else the committed ones.

**KeycloakUsers.** Theorems `PersonsTypeCorrect`, `UsersAreNamed`, `RowsNameUsers`. Neither
property is inductive. A user that a removal drops could be another person's: `UniqueInv` says that an
id which a row names or a request is about to record (`Claims`) belongs to one person or is parted.
A removal could drop an id that the row has exchanged since: `RemovalInv` says that one which is
alone on its person (`AloneInv`) still has the row's id until it commits, and that the user
it dropped is gone. `NamedInv` says where an id that a row names is in between. `OwnStep` gathers
what most steps have in common, and `StepKeeps` shows once that they keep types, `AloneInv` and `RemovalInv`.

**EntityCache.** Theorems `EntriesTypeCorrect`, `CacheIsCoherent`, `EntriesNeverStepBack`. That an
entry is the committed row says nothing of the request that is about to write it or to commit, so
`IInv` says what a request's own view is worth. `AloneInv`: nobody else touches the
entities of a request that is alone. `ViewInv`: it sees the committed rows, but for those it has
changed, which are no older. `OwnEntryInv`: what it has written is in the cache, unless somebody has
cleared it. `EntryInv`: an unspoiled entry that nobody has written is the committed row or absent.
`RequestInv` has what a request knows of itself: that its entities are distinct makes each
of its writes the first one. `OwnStep` and `StepKeeps` carry `StateInv` and `AloneInv` over the
steps of one request, `EndKeeps` does the same for its end, and the direct cache operations have
lemmas of their own. `EntriesNeverStepBack` is an action property: only `Put` writes more
(`GrowingPuts`), and `OwnEntryInv`, `EntryInv` and `ViewInv` before the step compare what it replaces
with what it writes.

**RealmStartup.** Theorems `StartupTypeCorrect`, `AnnouncedRealmsAreReady`, `StartupsHealTheCache`,
`DisabledRealmsStayUntouched` (all but the first are action properties). None of them says anything until a
late stage, so `IInv` follows the pipeline. `Done(run, stage)` is the set of units that a stage
is through with, and `DoneInv` says what each stage has left for them. `RunInv`: what a stage has
still to do is the end of the run's units, and these are distinct, so no stage comes to a unit twice.
The attributes are harder, because `pushToDTT` writes those of the realm in force *before* it
turns to its unit: each unit's list is written when the next one comes, and the last one's is
written by the first step. `PlaceInv` therefore says that the last enabled unit is in force at
the end of every stage, or still to come, and `FreshInv` that an enabled unit has its attributes, is
yet to come, or is the realm in force. A startup that does not import
leaves the realm in force alone during that stage, which is why `PlaceInv` has a line on it.
`RowsInv` says that only a run of its own user changes a disabled realm's rows: an import or an upsert
goes to its unit, which is enabled, or to the user's realm. An announcement follows the push of its
unit within the same run and no stage between them changes rows, so `DoneInv` before the step is
enough for `AnnouncedRealmsAreReady`, whose rows may lie in any realm. `RealmsInv` has the list of
realms. `UnitStep` says what a stage may do to one unit and what it must; `UnitsStep` shows that all six stage actions are such steps and
`UnitStepKeeps`, part by part, that these keep `IInv`. `RunBegins`, `NextStageKeeps` and `EndKeeps` do
the same for the beginning of a run, a change of stage and the end of a run. That a last enabled unit
exists (`LastExists`) is the one place where the number of units matters: it takes the least distance
from the end, by the well-foundedness of the natural numbers.

The proof attempt corrected the model once: with `MaxVersion = 0`, which `BoundsAssumption` used to allow, no
sheet could have the version it starts with.

**Only model-checked:** every liveness property (`StartupCompletes`, `RequestsEnd`,
`EveryMessagePassed`). Liveness under fairness, `ENABLED`, induction over data and
recursive operators are out of the prover's reach; the modules are written without recursive
operators so that the safety properties can be proved. Every invariant and every action property of the
passing runs is a theorem. The four violated properties have their counterexamples from TLC.

## 5. Not modelled

* The only JavaScript of the repository is the vendored Swagger UI under `webapp/api-docs/`
  (swagger-ui, handlebars, marked, es5-shim, translations): third-party browser code that shows
  the REST documentation and takes no part in what the service does. The service is Java; the
  map points to that.
* Searches and fetches of `QwandaEndpoint` and `ServiceEndpoint`: reads without effect on state.
* `Hazel`: its registry is filled under one container lock, so its steps are sequential; that a
  failing `getCache` leaves a realm noted without a handle is listed as a hazard.
* The cutting of the realm list (`ServiceEndpoint` 482–491) and the layout index (1034–1043):
  sequential arithmetic, and nothing in the repository says what result is expected.
* Bulk answers (`createBulk`, `createBulk2`), decided in the entity library.
* JMS senders that nobody calls, the Vert.x monitor, response filters, version and utility
  pages: no state. `saveLayouts`: no caller.
* The entity library (`BaseEntityService2`, `BatchLoading`), Infinispan, Keycloak, Kafka and
  Google Sheets: external, modelled by how this code uses them.

## 6. Plan

Done: all eight models above, the refinement of `AnswerDelivery`, and the proofs of every safety
property of the passing runs in all of them. What is left is outside the prover's reach (liveness).
A further step would be an abstract specification of `EntityCache` (a cache that follows the rows,
but for entries named as spoiled) for other services to build on, and its refinement.
