---------------------------- MODULE KeycloakRealms ----------------------------
(***************************************************************************)
(* The Keycloak configurations of the realms.  SecureResources keeps them  *)
(* in one ConcurrentHashMap under several keys per realm; StartupService   *)
(* registers the realms of its sheet, administrators add and remove keys,  *)
(* and reload empties the map and reads a directory file by file.  Any     *)
(* number of request threads look configurations up meanwhile: the         *)
(* PathBasedKeycloakConfigResolver for every request, and caches the       *)
(* deployment it builds per realm for ever; getKeycloakUrl, which reloads  *)
(* an empty map first; and the token service, which in devMode copies the  *)
(* configuration of "genny".  Each access to a map is one step.            *)
(***************************************************************************)
EXTENDS Naturals, Sequences

CONSTANTS
    Realm,      \* realms, Genny among them
    Genny,      \* the realm code "genny"
    MainRealm,  \* GennySettings.mainrealm
    Localhost,  \* the host name "localhost", for all host names of a realm's URL list
    Directory,  \* files of GennySettings.realmDir in the order of listFiles
    Thread,     \* request threads
    DevMode,    \* GennySettings.devMode
    None        \* null

\* A key of the map: a name, plain or followed by ".json".
Name == Realm \cup {Localhost}
Plain(n) == [name |-> n, json |-> FALSE]
Json(n) == [name |-> n, json |-> TRUE]
Key == [name : Name, json : BOOLEAN]

ASSUME RealmAssumption == Genny \in Realm /\ MainRealm \in Realm /\ Localhost \notin Realm
ASSUME DirectoryAssumption ==
    \* A file: its name, which is a key, and the realm whose configuration it holds; a file
    \* that is named after a realm holds that realm's.
    /\ Directory \in Seq([key : Key, realm : Realm])
    /\ \A i \in 1..Len(Directory) :
          Directory[i].key.name \in Realm => Directory[i].realm = Directory[i].key.name
ASSUME NoneAssumption == None \notin Realm
ASSUME DevModeAssumption == DevMode \in BOOLEAN

VARIABLES
    jsonMap,      \* keycloakJsonMap: the realm whose configuration lies under a key, or None
    deployments,  \* the resolver's cache: per realm, the realm whose configuration it uses
    thread,       \* per thread, what it does
    reloaded,     \* history: some reload has cleared the map
    lost,         \* history: keys removed one by one and not put back, nor the map cleared, since
    registered    \* history: realms that StartupService has registered since then

vars == <<jsonMap, deployments, thread, reloaded, lost, registered>>

(***************************************************************************)
(* A thread: the operation and where it stands, the realm it is about, and *)
(* what it has yet to put: entries of a registration, or files of which    *)
(* the first has its entries from number next on still to be put.          *)
(***************************************************************************)
Step == {"idle", "puts", "clear", "first", "lookup", "build", "token", "copy"}
Entry == [key : Key, realm : Realm]
State == [op : {"none", "register", "reload", "resolve", "token"}, pc : Step,
          realm : Realm, todo : Seq(Entry), next : 1..2]
At(op, pc, r, todo, n) == [op |-> op, pc |-> pc, realm |-> r, todo |-> todo, next |-> n]
Idle == At("none", "idle", Genny, <<>>, 1)

Keys == {k \in Key : jsonMap[k] # None}

\* The entries that saveProjectBes adds for realm r, in its order.
Registration(r) ==
    <<[key |-> Plain(r), realm |-> r], [key |-> Json(r), realm |-> r],
      [key |-> Json(Localhost), realm |-> r], [key |-> Plain(Localhost), realm |-> r]>>

\* The entries that readFilenamesFromDirectory makes of a file: localhost.json is also the main
\* realm's; a name that does not end in .json is also put with that ending.
EntriesOf(f) ==
    IF f.key = Json(Localhost)
      THEN <<[key |-> Json(MainRealm), realm |-> f.realm], f>>
      ELSE IF f.key.json THEN <<f>> ELSE <<f, [key |-> Json(f.key.name), realm |-> f.realm]>>
PutsOf(op, item) == IF op = "register" THEN <<item>> ELSE EntriesOf(item)

\* (A mutant: the loop begins at the second file.)
FilesButFirst == Tail(Directory)
\* The files that a reload reads.
Files == Directory

----------------------------------------------------------------------------
Init ==
    /\ jsonMap = [k \in Key |-> None]
    /\ deployments = [r \in Realm |-> None]
    /\ thread = [t \in Thread |-> Idle]
    /\ reloaded = FALSE /\ lost = {} /\ registered = {}

Goto(t, q) == thread' = [thread EXCEPT ![t] = q]
Return(t) == Goto(t, Idle)
Free(t) == thread[t].pc = "idle"

\* StartupService.saveProjectBes for realm r; the bean's lock lets one thread in.
Register(t, r) ==
    /\ Free(t)
    /\ \A u \in Thread : thread[u].op # "register"
    /\ Goto(t, At("register", "puts", r, Registration(r), 1))
    /\ UNCHANGED <<jsonMap, deployments, reloaded, lost, registered>>

\* One put of a registration (SecureResources.addRealm) or of a reload.
Put(t) ==
    LET q == thread[t]
        puts == PutsOf(q.op, Head(q.todo))
        e == puts[q.next] IN
    /\ q.pc = "puts"
    /\ jsonMap' = [jsonMap EXCEPT ![e.key] = e.realm]
    /\ Goto(t, IF q.next < Len(puts) THEN At(q.op, "puts", q.realm, q.todo, q.next + 1)
               ELSE IF Tail(q.todo) # <<>> THEN At(q.op, "puts", q.realm, Tail(q.todo), 1)
               ELSE Idle)
    /\ lost' = lost \ {e.key}
    /\ registered' = IF q.op = "register" /\ e.key = Plain(q.realm)
                       THEN registered \cup {q.realm} ELSE registered
    /\ UNCHANGED <<deployments, reloaded>>

\* createRealm: the posted configuration of realm r under its clientId n with .json, and
\* nothing else.
CreateRealm(n, r) ==
    /\ jsonMap' = [jsonMap EXCEPT ![Json(n)] = r]
    /\ lost' = lost \ {Json(n)}
    /\ UNCHANGED <<deployments, thread, reloaded, registered>>

\* (A mutant: both keys of the name.)
RemovedName(k) == {Plain(k.name), Json(k.name)}
\* removeRealm: the one key that is posted.
RemovedKeys(k) == {k}
RemoveRealm(k) ==
    /\ k \in Keys
    /\ jsonMap' = [j \in Key |-> IF j \in RemovedKeys(k) THEN None ELSE jsonMap[j]]
    /\ lost' = lost \cup {k}
    /\ UNCHANGED <<deployments, thread, reloaded, registered>>

\* syncrealms: reload whatever the map holds.
SyncRealms(t) ==
    /\ Free(t)
    /\ Goto(t, At("reload", "clear", Genny, <<>>, 1))
    /\ UNCHANGED <<jsonMap, deployments, reloaded, lost, registered>>

\* getKeycloakUrl: reload the map if it is empty at this moment.  The read that follows,
\* and that comes at once if it is not empty, changes nothing.
GetKeycloakUrl(t) ==
    /\ Free(t)
    /\ Keys = {}
    /\ Goto(t, At("reload", "clear", Genny, <<>>, 1))
    /\ UNCHANGED <<jsonMap, deployments, reloaded, lost, registered>>

\* reload: clear the map, then one put after the other.
Clear(t) ==
    /\ thread[t].pc = "clear"
    /\ jsonMap' = [k \in Key |-> None]
    /\ Goto(t, IF Files = <<>> THEN Idle ELSE At(thread[t].op, "puts", Genny, Files, 1))
    /\ reloaded' = TRUE /\ lost' = {} /\ registered' = {}
    /\ UNCHANGED <<deployments>>

\* resolve: a request with a token of realm r looks for its deployment.  One that an earlier
\* request has cached is returned as it is.
Resolve(t, r) ==
    /\ Free(t)
    /\ deployments[r] = None
    /\ Goto(t, At("resolve", "lookup", r, <<>>, 1))
    /\ UNCHANGED <<jsonMap, deployments, reloaded, lost, registered>>

\* Without a token the first key of the map, if there is one, decides ...
ResolveFirst(t) ==
    /\ Free(t)
    /\ \E k \in Keys :
          Goto(t, At("resolve", "first", Genny, <<[key |-> k, realm |-> Genny]>>, 1))
    /\ UNCHANGED <<jsonMap, deployments, reloaded, lost, registered>>

\* ... and the realm that its configuration names is resolved, as if a token named it.  A key
\* that has gone in between makes the request throw.
ReadFirst(t) ==
    LET r == jsonMap[Head(thread[t].todo).key] IN
    /\ thread[t].pc = "first"
    /\ IF r = None THEN Return(t)
       ELSE IF deployments[r] # None THEN Return(t)
       ELSE Goto(t, At("resolve", "lookup", r, <<>>, 1))
    /\ UNCHANGED <<jsonMap, deployments, reloaded, lost, registered>>

\* (A mutant: the first host name of the request in place of its realm.)
LookupHost(r) == Plain(Localhost)
\* The key under which the resolver looks a realm up: the plain one.
LookupKey(r) == Plain(r)

\* The configuration is read; without one there is no deployment.
Lookup(t) ==
    LET q == thread[t]  found == jsonMap[LookupKey(q.realm)] IN
    /\ q.pc = "lookup"
    /\ IF found = None THEN Return(t)
       ELSE Goto(t, At("resolve", "build", q.realm,
                       <<[key |-> LookupKey(q.realm), realm |-> found]>>, 1))
    /\ UNCHANGED <<jsonMap, deployments, reloaded, lost, registered>>

\* KeycloakDeploymentBuilder.build, which may fail, and cache.put.
Build(t) ==
    LET q == thread[t] IN
    /\ q.pc = "build"
    /\ \/ deployments' = [deployments EXCEPT ![q.realm] = Head(q.todo).realm]
       \/ UNCHANGED deployments
    /\ Return(t)
    /\ UNCHANGED <<jsonMap, reloaded, lost, registered>>

\* generateServiceToken in devMode, when it has not found genny.json: copy the plain key, in
\* two more steps; without one the put throws.  Otherwise it only reads.
FindJson(t) ==
    /\ Free(t)
    /\ DevMode /\ jsonMap[Json(Genny)] = None
    /\ Goto(t, At("token", "token", Genny, <<>>, 1))
    /\ UNCHANGED <<jsonMap, deployments, reloaded, lost, registered>>
\* (A mutant: no check for null.)
ReadGennyUnchecked(t) ==
    /\ thread[t].pc = "token"
    /\ Goto(t, At("token", "copy", jsonMap[Plain(Genny)], <<>>, 1))
    /\ UNCHANGED <<jsonMap, deployments, reloaded, lost, registered>>
ReadGenny(t) ==
    /\ thread[t].pc = "token"
    /\ IF jsonMap[Plain(Genny)] = None THEN Return(t)
       ELSE Goto(t, At("token", "copy", jsonMap[Plain(Genny)], <<>>, 1))
    /\ UNCHANGED <<jsonMap, deployments, reloaded, lost, registered>>
CopyGenny(t) ==
    /\ thread[t].pc = "copy"
    /\ jsonMap' = [jsonMap EXCEPT ![Json(Genny)] = thread[t].realm]
    /\ lost' = lost \ {Json(Genny)}
    /\ Return(t)
    /\ UNCHANGED <<deployments, reloaded, registered>>

ThreadStep(t) ==
    \/ \E r \in Realm : Register(t, r) \/ Resolve(t, r)
    \/ Put(t) \/ SyncRealms(t) \/ GetKeycloakUrl(t) \/ Clear(t)
    \/ ResolveFirst(t) \/ ReadFirst(t) \/ Lookup(t) \/ Build(t)
    \/ FindJson(t) \/ ReadGenny(t) \/ CopyGenny(t)

Next ==
    \/ \E t \in Thread : ThreadStep(t)
    \/ \E n \in Name, r \in Realm : CreateRealm(n, r)
    \/ \E k \in Key : RemoveRealm(k)

Spec == Init /\ [][Next]_vars

----------------------------------------------------------------------------
TypeOK ==
    /\ jsonMap \in [Key -> Realm \cup {None}]
    /\ deployments \in [Realm -> Realm \cup {None}]
    /\ thread \in [Thread -> State]
    /\ reloaded \in BOOLEAN /\ lost \subseteq Key /\ registered \subseteq Realm

\* Every request of a realm's users is checked against that realm's own configuration, whatever
\* keys administrators add, whichever host names the realms share and whatever overlaps.
DeploymentOfOwnRealm == \A r \in Realm : deployments[r] \in {r, None}

\* A reload that thread t runs has key k still to put.
ToBePut(t, k) ==
    LET q == thread[t] IN
    /\ q.op = "reload" /\ q.pc = "puts"
    /\ \E j \in 1..Len(q.todo) : \E n \in 1..Len(EntriesOf(q.todo[j])) :
          (j = 1 => n >= q.next) /\ EntriesOf(q.todo[j])[n].key = k

\* Reloads may overlap, since getKeycloakUrl starts one whenever it finds the map empty, and
\* each clears what the others have put.  Still, once some reload has cleared the map, every
\* entry of the directory is there, or was removed on its own, or a reload is yet to put it.
ReloadLosesNoFile ==
    reloaded => \A i \in 1..Len(Directory) : \A n \in 1..Len(EntriesOf(Directory[i])) :
        LET k == EntriesOf(Directory[i])[n].key IN
        \/ jsonMap[k] # None
        \/ k \in lost
        \/ \E t \in Thread : ToBePut(t, k)

\* A realm that startup has registered can be resolved until a reload clears the map or its
\* plain key is removed: adding realms and other registrations do not disturb it.
RegisteredRealmsResolve ==
    \A r \in registered : jsonMap[LookupKey(r)] # None \/ LookupKey(r) \in lost

\* A realm that is created under its own name can be resolved ("Add Keycloak Realm").
CreatedRealmResolves ==
    [][\A r \in Realm : CreateRealm(r, r) => jsonMap'[LookupKey(r)] # None \/ deployments[r] # None]_vars
=============================================================================
