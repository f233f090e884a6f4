----------------------------- MODULE EntityCache -----------------------------
(***************************************************************************)
(* Base entities of one realm in the database and in the realm's shared    *)
(* cache.  Every request of QwandaEndpoint and ServiceEndpoint is a        *)
(* transaction (read committed): it reads its base entities, changes them, *)
(* writes them to the cache through Service.writeToDDT, which takes effect *)
(* at once, and commits or rolls back.  The synchronisation requests read  *)
(* rows and write them to the cache.  Nothing orders the cache writes of   *)
(* one request with the commits of another: @Asynchronous has no effect on *)
(* the Service, which is no EJB, and WildflyCache locks around one write.  *)
(***************************************************************************)
EXTENDS Naturals, Sequences, FiniteSets

CONSTANTS
    Code,        \* codes of base entities
    Thread,      \* request threads
    MaxVersion,  \* bound: the versions, 1 at first, that entities get as requests change them
    Kept,        \* bound: versions that clients of the cache endpoints have kept
    Removed,     \* no row
    Hidden,      \* the row lies in the realm "hidden"
    NoEntry      \* no entry in the cache

Version == 1..MaxVersion
Missing == {Removed, Hidden}

ASSUME CodeAssumption == IsFiniteSet(Code)
ASSUME VersionAssumption == MaxVersion \in Nat \ {0} /\ Kept \subseteq Version
ASSUME SentinelAssumption ==
    /\ Removed \notin Nat /\ Hidden \notin Nat /\ NoEntry \notin Nat
    /\ NoEntry \notin Missing /\ Removed # Hidden

VARIABLES
    committed,  \* per code, the committed version of its row
    cache,      \* per code, the version in the realm's cache
    made,       \* the latest version of any entity
    request,    \* per thread, the request it serves
    tainted     \* history: codes whose entry overlap, failure or bypass may have spoiled

vars == <<committed, cache, made, request, tainted>>

Row == Version \cup Missing
Entry == Version \cup {NoEntry}

(***************************************************************************)
(* A request: what it does, the codes it touches in the order in which it  *)
(* writes them to the cache, how many it has written, its view of the      *)
(* rows, the codes whose rows it changed, and, as history, whether it has  *)
(* run without another request on one of its codes.                        *)
(***************************************************************************)
Sync == {"cacheSync", "synchronizeCacheBEs"}
Save == {"create", "update"}
Drop == {"remove", "hide"}
Link == {"addLink", "moveLink"}
Op == Sync \cup Save \cup Drop \cup Link

Idle == [op |-> "none", pc |-> "idle", codes |-> <<>>, written |-> 0,
         view |-> [c \in Code |-> Removed], changed |-> {}, alone |-> TRUE]
Request == [op : Op \cup {"none"}, pc : {"idle", "modify", "put"},
            codes : Seq(Code), written : Nat, view : [Code -> Row],
            changed : SUBSET Code, alone : BOOLEAN]

CodesOf(q) == {q.codes[i] : i \in 1..Len(q.codes)}
WrittenBy(q) == {q.codes[i] : i \in 1..q.written}
Busy(c) == \E t \in Thread : c \in CodesOf(request[t])

\* The codes of a request: those that the realm has, in some order, an old and a new parent, or
\* just one.
Present == {c \in Code : committed[c] \notin Missing}
Injections(n, S) == {s \in [1..n -> S] : \A i, j \in 1..n : s[i] = s[j] => i = j}
CodesFor(op) == IF op = "synchronizeCacheBEs" THEN Injections(Cardinality(Present), Present)
                ELSE IF op = "moveLink" THEN Injections(2, Code) ELSE Injections(1, Code)

----------------------------------------------------------------------------
\* After startup the cache holds the rows.
Init ==
    /\ made = 1
    /\ \E present \in SUBSET Code :
          /\ committed = [c \in Code |-> IF c \in present THEN 1 ELSE Removed]
          /\ cache = [c \in Code |-> IF c \in present THEN 1 ELSE NoEntry]
    /\ request = [t \in Thread |-> Idle]
    /\ tainted = {}

\* The requests that throw when their entity is missing (findBaseEntityByCode, getSingleResult),
\* and the one that throws when it is there.  A hidden row that a synchronisation finds goes to
\* the cache of the realm "hidden", which is nobody's: as if it were missing.
Refused(op, c) ==
    \/ op \in {"cacheSync", "update"} \cup Drop /\ committed[c] \in Missing
    \/ op = "create" /\ committed[c] \notin Missing

\* (A mutant: an entity manager that outlives its request and keeps what it first loaded.)
FoundAtFirst(c) == IF committed[c] \in Missing THEN committed[c] ELSE 1
\* The row that a request finds for a code.
Found(c) == committed[c]

\* A request begins with its query, which gives a synchronisation the rows there are.  It and
\* the requests it meets on one of its codes are not alone.
Begin(t) ==
    /\ request[t] = Idle
    /\ \E op \in Op : \E s \in CodesFor(op) :
          LET met == {u \in Thread \ {t} : \E i \in DOMAIN s : s[i] \in CodesOf(request[u])}
              view == [c \in Code |-> IF \E i \in DOMAIN s : s[i] = c THEN Found(c) ELSE Removed] IN
          /\ op # "synchronizeCacheBEs" => ~Refused(op, s[1])
          /\ request' = [u \in Thread |->
                IF u = t THEN [op |-> op, pc |-> IF op \in Sync THEN "put" ELSE "modify", codes |-> s,
                               written |-> 0, view |-> view, changed |-> {}, alone |-> met = {}]
                ELSE [request[u] EXCEPT !.alone = @ /\ u \notin met]]
    /\ UNCHANGED <<committed, cache, made, tainted>>

\* A change in the transaction's own view: a new version of the entity, or of each parent of
\* the link that the realm has.
Modify(t) ==
    LET q == request[t]
        new == {c \in CodesOf(q) : q.op = "create" \/ q.view[c] \notin Missing} IN
    /\ q.pc = "modify" /\ q.op \notin Drop
    /\ made < MaxVersion
    /\ made' = made + 1
    /\ request' = [request EXCEPT ![t].pc = "put", ![t].changed = new,
          ![t].view = [c \in Code |-> IF c \in new THEN made + 1 ELSE @[c]]]
    /\ UNCHANGED <<committed, cache, tainted>>

\* removeBaseEntity, removeUser; hideBaseEntity.  Neither takes the entry out of the cache.
Discard(t) ==
    LET q == request[t] IN
    /\ q.pc = "modify" /\ q.op \in Drop
    /\ request' = [request EXCEPT ![t].pc = "put", ![t].changed = CodesOf(q),
          ![t].view[q.codes[1]] = IF q.op = "hide" THEN Hidden ELSE Removed]
    /\ UNCHANGED <<committed, cache, made, tainted>>

\* (A mutant: the entity as another entity manager sees it.)
WrittenFromOutside(q, c) == committed[c]
\* What writeToDDT writes: the entity as the request's own transaction sees it.
Written(q, c) == q.view[c]

\* writeToDDT, VertxUtils.writeCachedJson, WildflyCache.writeCache: one entity.
Put(t) ==
    LET q == request[t]  c == q.codes[q.written + 1] IN
    /\ q.pc = "put" /\ q.written < Len(q.codes)
    /\ q.view[c] \notin Missing
    /\ cache' = [cache EXCEPT ![c] = Written(q, c)]
    /\ request' = [request EXCEPT ![t].written = @ + 1]
    /\ UNCHANGED <<committed, made, tainted>>

\* All is written (removals write nothing); or sendQEventLinkChangeMessage does not find a
\* parent, and swallows the exception together with the writes that were still to come.
Finished(q) ==
    /\ q.pc = "put"
    /\ q.written < Len(q.codes) => q.view[q.codes[q.written + 1]] \in Missing

\* The transaction commits, unless its row is taken (create) or no longer there.
Commit(t) ==
    LET q == request[t] IN
    /\ Finished(q)
    /\ q.op = "create" => committed[q.codes[1]] \in Missing
    /\ q.op # "create" => \A c \in q.changed : committed[c] # Removed
    /\ committed' = [c \in Code |-> IF c \in q.changed THEN q.view[c] ELSE committed[c]]
    /\ tainted' = IF q.alone
                    THEN (tainted \ WrittenBy(q)) \cup (q.changed \ WrittenBy(q))
                    ELSE tainted \cup q.changed \cup WrittenBy(q)
    /\ request' = [request EXCEPT ![t] = Idle]
    /\ UNCHANGED <<cache, made>>

\* An exception at any later step, or the failing commit, rolls the rows back, not the cache.
Rollback(t) ==
    LET q == request[t] IN
    /\ q.pc \in {"modify", "put"}
    /\ tainted' = tainted \cup {c \in WrittenBy(q) : c \in q.changed \/ ~q.alone}
    /\ request' = [request EXCEPT ![t] = Idle]
    /\ UNCHANGED <<committed, cache, made>>

\* cacheWrite, cacheRealmWrite: any entity a client has kept, or null to remove the entry.
CacheWrite(c) ==
    /\ \E v \in (Kept \cap 1..made) \cup {NoEntry} : cache' = [cache EXCEPT ![c] = v]
    /\ tainted' = tainted \cup {c}
    /\ request' = [t \in Thread |-> [request[t] EXCEPT !.alone = @ /\ c \notin CodesOf(request[t])]]
    /\ UNCHANGED <<committed, made>>

\* cacheClear: Service.clearCache, WildflyCache.clear.
CacheClear ==
    /\ cache' = [c \in Code |-> NoEntry]
    /\ tainted' = {c \in tainted : Busy(c)}
    /\ UNCHANGED <<committed, made, request>>

Next ==
    \/ \E t \in Thread :
          \/ Begin(t) \/ Modify(t) \/ Discard(t) \/ Put(t)
          \/ Commit(t) \/ Rollback(t)
    \/ \E c \in Code : CacheWrite(c)
    \/ CacheClear

Spec == Init /\ [][Next]_vars

----------------------------------------------------------------------------
TypeOK ==
    /\ committed \in [Code -> Row]
    /\ cache \in [Code -> Entry]
    /\ made \in 0..MaxVersion
    /\ \A t \in Thread :
          /\ request[t] \in Request
          /\ request[t].written <= Len(request[t].codes)
    /\ tainted \subseteq Code

\* An entry of the cache that no request is working on is the committed row, or absent,
\* unless overlapping requests, a rollback, a removal, a swallowed link event or a direct
\* cache write have spoiled it; and a request that writes it undisturbed and commits, or a
\* clear, repairs it (writeToDDT, cacheSync, synchronizeCacheBEs, clearCache).
CoherentUnlessTainted ==
    \A c \in Code : ~Busy(c) /\ c \notin tainted => cache[c] \in {committed[c], NoEntry}

\* An undisturbed request never takes an unspoiled entry back to an earlier version
\* (writeToDDT in the requests that save, link or synchronise).
NoStepBack ==
    [][\A t \in Thread, c \in Code :
          /\ request'[t].written > request[t].written /\ c \in CodesOf(request[t])
          /\ request[t].alone /\ c \notin tainted /\ cache[c] # NoEntry
          => cache'[c] >= cache[c]]_vars

\* What cacheSync ("Sync BaseEntity to cache") writes is the row as it stands in the database.
SyncedToCache ==
    [][\A t \in Thread :
          LET q == request[t] IN
          q.op = "cacheSync" /\ request'[t].written > q.written
          => cache'[q.codes[1]] = committed[q.codes[1]]]_vars
=============================================================================
