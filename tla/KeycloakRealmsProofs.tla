------------------------- MODULE KeycloakRealmsProofs -------------------------
(***************************************************************************)
(* The safety of the Keycloak configurations for any realms, directory and *)
(* threads.  IInv adds to the properties what the threads still hold: own  *)
(* configurations under plain realm names, and a place in what they put.   *)
(***************************************************************************)
EXTENDS KeycloakRealms, SequenceTheorems, TLAPS

\* An entry whose key is the plain name of a realm holds that realm's configuration.
Own(e) == e.key.name \in Realm /\ ~e.key.json => e.realm = e.key.name

\* What a thread has yet to do is sound, wherever it stands.
StateInv(q) ==
    /\ q \in State
    /\ q.pc = "clear" => q.next = 1 /\ q.op = "reload"
    /\ q.pc \in {"puts", "first", "build"} => q.todo # <<>>
    /\ q.pc = "puts" => /\ \A i \in 1..Len(q.todo) : Own(q.todo[i])
                        /\ q.next <= Len(PutsOf(q.op, Head(q.todo)))
    /\ q.pc = "build" => Head(q.todo).realm = q.realm

MapInv == \A r \in Realm : jsonMap[Plain(r)] \in {r, None}

IInv ==
    /\ TypeOK /\ MapInv /\ DeploymentOfOwnRealm
    /\ \A t \in Thread : StateInv(thread[t])
    /\ RegisteredRealmsResolve /\ ReloadLosesNoFile

----------------------------------------------------------------------------
LEMMA KeyFacts == /\ \A n \in Name : Plain(n) \in Key /\ Json(n) \in Key
                  /\ \A m, n : Plain(m) # Json(n)
                  /\ \A m, n : Plain(m) = Plain(n) => m = n
                  /\ Localhost \in Name /\ MainRealm \in Name /\ Realm \subseteq Name
  BY RealmAssumption DEF Plain, Json, Key, Name

\* The puts that an item stands for: one or two entries that keep the realms apart.
LEMMA PutsOfItem == ASSUME NEW op, NEW f \in Entry, Own(f)
                    PROVE  /\ PutsOf(op, f) \in Seq(Entry)
                           /\ Len(PutsOf(op, f)) \in 1..2
                           /\ 1 <= Len(PutsOf(op, f)) /\ Len(PutsOf(op, f)) <= 2
                           /\ \A n \in 1..Len(PutsOf(op, f)) : /\ PutsOf(op, f)[n] \in Entry
                                                               /\ Own(PutsOf(op, f)[n])
  <1>1. f.key \in Key /\ f.key.name \in Name /\ f.realm \in Realm
    BY DEF Entry, Key
  <1>2. Own([key |-> Json(MainRealm), realm |-> f.realm])
    BY DEF Own, Json
  <1>3. Own([key |-> Json(f.key.name), realm |-> f.realm])
    BY DEF Own, Json
  <1>4. /\ [key |-> Json(MainRealm), realm |-> f.realm] \in Entry
        /\ [key |-> Json(f.key.name), realm |-> f.realm] \in Entry
    BY <1>1, KeyFacts DEF Entry
  <1> QED BY <1>2, <1>3, <1>4 DEF PutsOf, EntriesOf

\* The files of the directory are entries of their own realms.
LEMMA FilesAreOwn == Files \in Seq(Entry) /\ \A i \in 1..Len(Files) : Own(Files[i])
  BY DirectoryAssumption DEF Files, Entry, Own

\* What a reload puts lies under keys of the map.
LEMMA DirectoryEntries == \A i \in 1..Len(Directory) : \A n \in 1..Len(EntriesOf(Directory[i])) :
                             EntriesOf(Directory[i])[n].key \in Key
  <1> SUFFICES ASSUME NEW i \in 1..Len(Directory), NEW n \in 1..Len(EntriesOf(Directory[i]))
               PROVE  EntriesOf(Directory[i])[n].key \in Key
    OBVIOUS
  <1>1. Directory[i] \in Entry /\ Own(Directory[i])
    BY FilesAreOwn DEF Files
  <1>2. EntriesOf(Directory[i]) = PutsOf("reload", Directory[i])
    BY DEF PutsOf
  <1>3. EntriesOf(Directory[i])[n] \in Entry
    BY <1>1, <1>2, PutsOfItem
  <1> QED BY <1>3 DEF Entry

LEMMA RegistrationIsOwn == ASSUME NEW r \in Realm
                           PROVE  /\ Registration(r) \in Seq(Entry) /\ Registration(r) # <<>>
                                  /\ \A i \in 1..Len(Registration(r)) : Own(Registration(r)[i])
                                  /\ Head(Registration(r)) \in Entry
  <1>1. /\ [key |-> Plain(r), realm |-> r] \in Entry /\ Own([key |-> Plain(r), realm |-> r])
        /\ [key |-> Json(r), realm |-> r] \in Entry /\ Own([key |-> Json(r), realm |-> r])
        /\ [key |-> Json(Localhost), realm |-> r] \in Entry
        /\ Own([key |-> Json(Localhost), realm |-> r])
        /\ [key |-> Plain(Localhost), realm |-> r] \in Entry
        /\ Own([key |-> Plain(Localhost), realm |-> r])
    BY KeyFacts, RealmAssumption DEF Entry, Own, Plain, Json
  <1> QED BY <1>1 DEF Registration

LEMMA InitIInv == Init => IInv
  <1> SUFFICES ASSUME Init PROVE IInv
    OBVIOUS
  <1>1. Idle \in State /\ StateInv(Idle)
    BY RealmAssumption DEF Idle, At, State, Step, StateInv
  <1>2. TypeOK /\ MapInv /\ DeploymentOfOwnRealm
    BY <1>1, KeyFacts DEF Init, TypeOK, MapInv, DeploymentOfOwnRealm
  <1>3. RegisteredRealmsResolve /\ ReloadLosesNoFile
    BY DEF Init, RegisteredRealmsResolve, ReloadLosesNoFile
  <1> QED BY <1>1, <1>2, <1>3 DEF Init, IInv

\* A step that only moves thread t, neither into a reload's puts nor out of them, keeps IInv.
LEMMA OneThread == ASSUME IInv, NEW t \in Thread, NEW q, StateInv(q),
                          thread' = [thread EXCEPT ![t] = q], thread[t].pc # "puts",
                          UNCHANGED <<jsonMap, deployments, reloaded, lost, registered>>
                   PROVE  IInv'
  <1>1. TypeOK' /\ MapInv' /\ DeploymentOfOwnRealm' /\ RegisteredRealmsResolve'
    BY DEF IInv, TypeOK, MapInv, DeploymentOfOwnRealm, RegisteredRealmsResolve, StateInv
  <1>2. \A u \in Thread : thread'[u] = IF u = t THEN q ELSE thread[u]
    BY DEF IInv, TypeOK
  <1>3. \A u \in Thread : StateInv(thread[u])'
    BY <1>2 DEF IInv, StateInv
  <1>4. \A u \in Thread : \A k : ToBePut(u, k) => ToBePut(u, k)'
    BY <1>2 DEF ToBePut
  <1>5. ReloadLosesNoFile'
    BY <1>4 DEF IInv, ReloadLosesNoFile
  <1> QED BY <1>1, <1>3, <1>5 DEF IInv

LEMMA HeadAndTail == ASSUME NEW S, NEW s \in Seq(S), s # <<>>
                     PROVE  /\ Head(s) = s[1] /\ 1 \in 1..Len(s) /\ s[1] \in S /\ Tail(s) \in Seq(S)
                            /\ Len(Tail(s)) = Len(s) - 1
                            /\ \A i \in 1..Len(Tail(s)) : i + 1 \in 1..Len(s) /\ Tail(s)[i] = s[i + 1]
                            /\ \A j \in 1..Len(s) : j # 1 => /\ j - 1 \in 1..Len(Tail(s))
                                                             /\ Tail(s)[j - 1] = s[j]
                            /\ \A j \in 1..Len(s) : j # 1 => Tail(s) # <<>>
  <1>1. Len(s) \in Nat \ {0}
    OBVIOUS
  <1>2. Tail(s) \in Seq(S) /\ Len(Tail(s)) = Len(s) - 1
    BY HeadTailProperties
  <1>3. \A i \in 1..Len(Tail(s)) : Tail(s)[i] = s[i + 1]
    BY HeadTailProperties
  <1>4. Head(s) = s[1] /\ 1 \in 1..Len(s) /\ s[1] \in S
    BY <1>1
  <1>5. \A i \in 1..Len(Tail(s)) : i + 1 \in 1..Len(s)
    BY <1>1, <1>2
  <1>6. ASSUME NEW j \in 1..Len(s), j # 1
        PROVE  j - 1 \in 1..Len(Tail(s)) /\ Tail(s)[j - 1] = s[j] /\ Tail(s) # <<>>
    <2>1. j - 1 \in 1..Len(Tail(s)) /\ (j - 1) + 1 = j
      BY <1>1, <1>2, <1>6
    <2>2. Len(Tail(s)) # 0 /\ Len(<<>>) = 0
      BY <1>1, <1>2, <2>1
    <2>3. Tail(s) # <<>>
      BY ONLY <2>2
    <2> QED BY <1>3, <2>1, <2>3
  <1> QED BY <1>2, <1>3, <1>4, <1>5, <1>6

\* Where a thread stands after a put.
AfterPut(q) ==
    IF q.next < Len(PutsOf(q.op, Head(q.todo))) THEN At(q.op, "puts", q.realm, q.todo, q.next + 1)
    ELSE IF Tail(q.todo) # <<>> THEN At(q.op, "puts", q.realm, Tail(q.todo), 1)
    ELSE Idle

LEMMA AfterPutInv == ASSUME NEW q, StateInv(q), q.pc = "puts"
                     PROVE  StateInv(AfterPut(q))
  <1> DEFINE last == ~(q.next < Len(PutsOf(q.op, Head(q.todo))))
             rest == Tail(q.todo)
  <1>1. q \in State /\ q.todo \in Seq(Entry) /\ q.todo # <<>> /\ q.next \in 1..2
    BY DEF StateInv, State
  <1>2. Own(Head(q.todo)) /\ Head(q.todo) \in Entry /\ rest \in Seq(Entry)
    BY <1>1, HeadAndTail DEF StateInv
  <1>3. Len(PutsOf(q.op, Head(q.todo))) \in Nat /\ Len(PutsOf(q.op, Head(q.todo))) <= 2
    BY <1>2, PutsOfItem
  <1>4. CASE ~last
    <2> DEFINE n == At(q.op, "puts", q.realm, q.todo, q.next + 1)
    <2>1. q.next + 1 \in 1..2 /\ q.next + 1 <= Len(PutsOf(q.op, Head(q.todo)))
      BY <1>1, <1>3, <1>4
    <2>2. n \in State /\ n.op = q.op /\ n.pc = "puts" /\ n.todo = q.todo /\ n.next = q.next + 1
      BY <1>1, <2>1 DEF At, State, Step
    <2>3. StateInv(n)
      BY <2>1, <2>2 DEF StateInv
    <2> QED BY <1>4, <2>3 DEF AfterPut
  <1>5. CASE last /\ rest # <<>>
    <2> DEFINE n == At(q.op, "puts", q.realm, Tail(q.todo), 1)
    <2>1. \A i \in 1..Len(rest) : Own(rest[i]) /\ rest[i] \in Entry
      BY <1>1, HeadAndTail DEF StateInv
    <2>2. Head(rest) = rest[1] /\ 1 \in 1..Len(rest)
      BY <1>2, <1>5, HeadAndTail
    <2>3. 1 <= Len(PutsOf(q.op, Head(rest)))
      BY <2>1, <2>2, PutsOfItem
    <2>4. n \in State /\ n.op = q.op /\ n.pc = "puts" /\ n.todo = rest /\ n.next = 1
      BY <1>1, <1>2 DEF At, State, Step
    <2>5. StateInv(n)
      BY <1>5, <2>1, <2>3, <2>4 DEF StateInv
    <2> QED BY <1>5, <2>5 DEF AfterPut
  <1>6. CASE last /\ rest = <<>>
    BY <1>6, RealmAssumption DEF AfterPut, StateInv, Idle, At, State, Step
  <1> QED BY <1>4, <1>5, <1>6

\* One put: the entry goes in, and everything else that was still to be put still is.
LEMMA PutIInv == ASSUME IInv, NEW t \in Thread, Put(t)
                 PROVE  IInv'
  <1> DEFINE q == thread[t]
             puts == PutsOf(q.op, Head(q.todo))
             e == puts[q.next]
             n == thread'[t]
  <1>q. /\ q \in State /\ StateInv(q) /\ q.pc = "puts" /\ thread \in [Thread -> State]
        /\ q.todo \in Seq(Entry) /\ q.todo # <<>> /\ Own(Head(q.todo)) /\ Head(q.todo) \in Entry
    <2>1. q \in State /\ StateInv(q) /\ q.pc = "puts" /\ thread \in [Thread -> State]
      BY DEF IInv, TypeOK, Put
    <2>2. q.todo \in Seq(Entry) /\ q.todo # <<>>
      BY <2>1 DEF StateInv, State
    <2>3. Head(q.todo) = q.todo[1] /\ 1 \in 1..Len(q.todo) /\ q.todo[1] \in Entry
      BY <2>2, HeadAndTail
    <2> QED BY <2>1, <2>2, <2>3 DEF StateInv
  <1>e. e \in Entry /\ Own(e) /\ Len(puts) \in 1..2 /\ q.next \in 1..Len(puts)
    BY <1>q, PutsOfItem DEF StateInv, State
  <1>k. e.key \in Key /\ e.realm \in Realm /\ e.realm # None
    BY <1>e, NoneAssumption DEF Entry
  <1>m. /\ jsonMap \in [Key -> Realm \cup {None}]
        /\ jsonMap' = [jsonMap EXCEPT ![e.key] = e.realm]
        /\ lost' = lost \ {e.key} /\ UNCHANGED <<deployments, reloaded>>
    BY DEF IInv, TypeOK, Put
  <1>t. /\ \A u \in Thread \ {t} : thread'[u] = thread[u]
        /\ n = AfterPut(q)
        /\ thread' = [thread EXCEPT ![t] = n]
    BY <1>q DEF Put, Goto, AfterPut
  <1>1. StateInv(n)
    BY <1>q, <1>t, AfterPutInv DEF AfterPut
  <1>2. TypeOK'
    <2>1. registered' \subseteq Realm
      BY <1>q DEF IInv, TypeOK, Put, State
    <2> QED BY <1>q, <1>k, <1>m, <1>t, <1>1, <2>1 DEF IInv, TypeOK, StateInv
  <1>3. MapInv' /\ DeploymentOfOwnRealm'
    BY <1>e, <1>m, KeyFacts DEF IInv, MapInv, DeploymentOfOwnRealm, Own, Plain
  <1>4. \A u \in Thread : StateInv(thread[u])'
    BY <1>t, <1>1 DEF IInv, StateInv
  <1>5. RegisteredRealmsResolve'
    <2>1. \A r \in registered' : r \in registered \/ e.key = Plain(r)
      BY <1>q DEF Put
    <2>2. registered' \subseteq Realm
      BY <1>2 DEF TypeOK
    <2> QED BY <1>k, <1>m, <2>1, <2>2, KeyFacts DEF IInv, TypeOK, RegisteredRealmsResolve, LookupKey
  <1>6. ReloadLosesNoFile'
    <2>1. ASSUME NEW u \in Thread, NEW k, ToBePut(u, k), k # e.key
          PROVE  ToBePut(u, k)'
      <3>1. CASE u # t
        BY <1>t, <2>1, <3>1 DEF ToBePut
      <3>2. CASE u = t
        <4>1. q.op = "reload" /\ puts = EntriesOf(Head(q.todo)) /\ Head(q.todo) = q.todo[1]
          BY <1>q, <2>1, <3>2 DEF ToBePut, PutsOf
        <4>2. PICK j \in 1..Len(q.todo) : \E m \in 1..Len(EntriesOf(q.todo[j])) :
                     (j = 1 => m >= q.next) /\ EntriesOf(q.todo[j])[m].key = k
          BY <2>1, <3>2 DEF ToBePut
        <4>3. PICK m \in 1..Len(EntriesOf(q.todo[j])) :
                     (j = 1 => m >= q.next) /\ EntriesOf(q.todo[j])[m].key = k
          BY <4>2
        <4>4. CASE j = 1
          <5>1. m \in 1..Len(puts) /\ m # q.next /\ m >= q.next
            BY <2>1, <4>1, <4>3, <4>4
          <5>2. q.next < Len(puts) /\ m >= q.next + 1
            BY <1>e, <5>1
          <5>3. n.todo = q.todo /\ n.next = q.next + 1 /\ n.op = q.op /\ n.pc = "puts"
            BY <1>q, <1>t, <5>2 DEF AfterPut, At
          <5> QED BY <3>2, <4>1, <4>2, <4>3, <4>4, <5>2, <5>3 DEF ToBePut
        <4>5. CASE j # 1 /\ q.next < Len(puts)
          <5>1. n.todo = q.todo /\ n.op = q.op /\ n.pc = "puts"
            BY <1>q, <1>t, <4>5 DEF AfterPut, At
          <5> QED BY <3>2, <4>1, <4>2, <4>3, <4>5, <5>1 DEF ToBePut
        <4>6. CASE j # 1 /\ ~(q.next < Len(puts))
          <5>1. /\ Tail(q.todo) # <<>> /\ j - 1 \in 1..Len(Tail(q.todo))
                /\ Tail(q.todo)[j - 1] = q.todo[j]
            BY <1>q, <4>2, <4>6, HeadAndTail
          <5>2. n.todo = Tail(q.todo) /\ n.next = 1 /\ n.op = q.op /\ n.pc = "puts"
            BY <1>q, <1>t, <4>6, <5>1 DEF AfterPut, At
          <5>3. m >= n.next
            BY <4>3, <5>2
          <5> QED BY <3>2, <4>1, <4>3, <5>1, <5>2, <5>3 DEF ToBePut
        <4> QED BY <4>4, <4>5, <4>6
      <3> QED BY <3>1, <3>2
    <2>2. ASSUME NEW k, jsonMap[k] # None \/ k \in lost \/ \E u \in Thread : ToBePut(u, k),
                 k \in Key
          PROVE  jsonMap'[k] # None \/ k \in lost' \/ \E u \in Thread : ToBePut(u, k)'
      BY <1>k, <1>m, <2>1, <2>2
    <2>3. \A i \in 1..Len(Directory) : \A l \in 1..Len(EntriesOf(Directory[i])) :
             EntriesOf(Directory[i])[l].key \in Key
      BY DirectoryEntries
    <2> QED BY <1>m, <2>2, <2>3 DEF IInv, ReloadLosesNoFile
  <1> QED BY <1>2, <1>3, <1>4, <1>5, <1>6 DEF IInv

\* A reload clears the map and has every file still to put.
LEMMA ClearIInv == ASSUME IInv, NEW t \in Thread, Clear(t)
                   PROVE  IInv'
  <1> DEFINE q == thread[t]
             n == IF Files = <<>> THEN Idle ELSE At(q.op, "puts", Genny, Files, 1)
  <1>1. /\ q \in State /\ StateInv(q) /\ q.op = "reload"
        /\ thread \in [Thread -> State] /\ thread' = [thread EXCEPT ![t] = n]
    BY DEF IInv, TypeOK, StateInv, Clear, Goto
  <1>2. StateInv(n)
    <2>1. CASE Files = <<>>
      BY <2>1, RealmAssumption DEF StateInv, Idle, At, State, Step
    <2>2. CASE Files # <<>>
      <3>1. Files \in Seq(Entry) /\ \A i \in 1..Len(Files) : Own(Files[i])
        BY FilesAreOwn
      <3>2. Head(Files) = Files[1] /\ 1 \in 1..Len(Files) /\ Files[1] \in Entry
        BY <2>2, <3>1, HeadAndTail
      <3>3. 1 <= Len(PutsOf(q.op, Head(Files)))
        BY <3>1, <3>2, PutsOfItem
      <3>4. n = At(q.op, "puts", Genny, Files, 1)
        BY <2>2
      <3>5. n \in State /\ n.op = q.op /\ n.pc = "puts" /\ n.todo = Files /\ n.next = 1
        BY <1>1, <3>1, <3>4, RealmAssumption DEF At, State, Step
      <3> HIDE DEF n
      <3> QED BY <2>2, <3>1, <3>3, <3>5 DEF StateInv
    <2> QED BY <2>1, <2>2
  <1> HIDE DEF n
  <1>3. TypeOK' /\ MapInv' /\ DeploymentOfOwnRealm' /\ RegisteredRealmsResolve'
    BY <1>1, <1>2, KeyFacts
    DEF IInv, TypeOK, MapInv, DeploymentOfOwnRealm, RegisteredRealmsResolve, StateInv, Clear
  <1>4. \A u \in Thread : StateInv(thread[u])'
    BY <1>1, <1>2 DEF IInv, StateInv
  <1>5. ReloadLosesNoFile'
    <2> SUFFICES ASSUME NEW i \in 1..Len(Directory), NEW l \in 1..Len(EntriesOf(Directory[i]))
                 PROVE  ToBePut(t, EntriesOf(Directory[i])[l].key)'
      BY DEF ReloadLosesNoFile
    <2>1. Files = Directory /\ Files \in Seq(Entry) /\ Files # <<>>
      BY FilesAreOwn DEF Files
    <2>2. n.op = q.op /\ n.pc = "puts" /\ n.todo = Directory /\ n.next = 1
      BY <2>1 DEF n, At
    <2>3. l >= 1
      BY PutsOfItem, FilesAreOwn
    <2> QED BY <1>1, <2>2, <2>3 DEF ToBePut
  <1> QED BY <1>3, <1>4, <1>5 DEF IInv

\* A step that changes entries of the map one by one, but no plain name of a realm's to another
\* configuration, and records the ones that it removes, keeps IInv.
LEMMA MapStep == ASSUME IInv, jsonMap' \in [Key -> Realm \cup {None}], lost' \subseteq Key, MapInv',
                        \A k \in Key : \/ jsonMap'[k] # None
                                       \/ k \in lost'
                                       \/ jsonMap'[k] = jsonMap[k] /\ k \notin lost,
                        UNCHANGED <<deployments, thread, reloaded, registered>>
                 PROVE  IInv'
  <1>1. TypeOK' /\ DeploymentOfOwnRealm' /\ \A u \in Thread : StateInv(thread[u])'
    BY DEF IInv, TypeOK, DeploymentOfOwnRealm, StateInv
  <1>2. RegisteredRealmsResolve'
    BY KeyFacts DEF IInv, TypeOK, RegisteredRealmsResolve, LookupKey
  <1>3. \A u \in Thread : \A k : ToBePut(u, k) => ToBePut(u, k)'
    BY DEF ToBePut
  <1>4. ReloadLosesNoFile'
    BY <1>3, DirectoryEntries DEF IInv, ReloadLosesNoFile
  <1> QED BY <1>1, <1>2, <1>4 DEF IInv

LEMMA CreateIInv == ASSUME IInv, NEW m \in Name, NEW r \in Realm, CreateRealm(m, r)
                    PROVE  IInv'
  <1>1. jsonMap' = [jsonMap EXCEPT ![Json(m)] = r] /\ lost' = lost \ {Json(m)}
    BY DEF CreateRealm
  <1>2. jsonMap' \in [Key -> Realm \cup {None}] /\ lost' \subseteq Key
    BY <1>1, KeyFacts DEF IInv, TypeOK
  <1>3. MapInv'
    BY <1>1, KeyFacts DEF IInv, TypeOK, MapInv
  <1>4. \A k \in Key : k # Json(m) => jsonMap'[k] = jsonMap[k]
    BY <1>1 DEF IInv, TypeOK
  <1>5. jsonMap'[Json(m)] # None
    BY <1>1, KeyFacts, NoneAssumption DEF IInv, TypeOK
  <1>6. UNCHANGED <<deployments, thread, reloaded, registered>>
    BY DEF CreateRealm
  <1>7. \A k \in Key : \/ jsonMap'[k] # None
                       \/ k \in lost'
                       \/ jsonMap'[k] = jsonMap[k] /\ k \notin lost
    BY <1>1, <1>4, <1>5
  <1> QED BY <1>2, <1>3, <1>6, <1>7, MapStep

LEMMA RemoveIInv == ASSUME IInv, NEW k \in Key, RemoveRealm(k)
                    PROVE  IInv'
  <1>1. jsonMap' = [j \in Key |-> IF j = k THEN None ELSE jsonMap[j]] /\ lost' = lost \cup {k}
    BY DEF RemoveRealm, RemovedKeys
  <1>2. jsonMap' \in [Key -> Realm \cup {None}] /\ lost' \subseteq Key
    BY <1>1 DEF IInv, TypeOK
  <1>3. MapInv'
    BY <1>1, KeyFacts DEF IInv, MapInv
  <1>4. UNCHANGED <<deployments, thread, reloaded, registered>>
    BY DEF RemoveRealm
  <1>5. \A j \in Key : \/ jsonMap'[j] # None
                       \/ j \in lost'
                       \/ jsonMap'[j] = jsonMap[j] /\ j \notin lost
    BY <1>1
  <1> QED BY <1>2, <1>3, <1>4, <1>5, MapStep

\* The steps of a thread that only read the map: each leaves it in a sound state.
LEMMA ReadingIInv == ASSUME IInv, NEW t \in Thread,
                            \/ SyncRealms(t) \/ GetKeycloakUrl(t) \/ ResolveFirst(t) \/ ReadFirst(t)
                            \/ Lookup(t) \/ FindJson(t) \/ ReadGenny(t)
                            \/ \E r \in Realm : Register(t, r) \/ Resolve(t, r)
                     PROVE  IInv'
  <1> DEFINE q == thread[t]
  <1>q. q \in State /\ StateInv(q)
    BY DEF IInv, TypeOK
  <1>i. StateInv(Idle)
    BY RealmAssumption DEF StateInv, Idle, At, State, Step
  <1>n. ASSUME NEW op \in {"reload", "resolve", "token"}, NEW pc \in {"clear", "lookup", "token", "copy"},
               NEW r \in Realm, pc = "clear" => op = "reload"
        PROVE  StateInv(At(op, pc, r, <<>>, 1))
    BY <1>n DEF StateInv, At, State, Step
  <1>m. \A k \in Key : jsonMap[k] \in Realm \cup {None}
    BY DEF IInv, TypeOK
  <1>1. ASSUME NEW r \in Realm, Register(t, r) PROVE IInv'
    <2> DEFINE n == At("register", "puts", r, Registration(r), 1)
    <2>1. 1 <= Len(PutsOf("register", Head(Registration(r))))
      BY RegistrationIsOwn, HeadAndTail, PutsOfItem
    <2>2. n \in State /\ n.op = "register" /\ n.pc = "puts" /\ n.todo = Registration(r) /\ n.next = 1
      BY RegistrationIsOwn DEF At, State, Step
    <2> HIDE DEF n
    <2>3. StateInv(n)
      BY <2>1, <2>2, RegistrationIsOwn DEF StateInv
    <2> QED BY <1>1, <2>3, OneThread DEF Register, Goto, Free, n
  <1>2. ASSUME NEW r \in Realm, Resolve(t, r) PROVE IInv'
    BY <1>2, <1>n, OneThread DEF Resolve, Goto, Free
  <1>3. CASE SyncRealms(t) \/ GetKeycloakUrl(t)
    BY <1>3, <1>n, RealmAssumption, OneThread DEF SyncRealms, GetKeycloakUrl, Goto, Free
  <1>4. CASE ResolveFirst(t)
    <2>1. PICK k \in Keys : Goto(t, At("resolve", "first", Genny, <<[key |-> k, realm |-> Genny]>>, 1))
      BY <1>4 DEF ResolveFirst
    <2> DEFINE todo == <<[key |-> k, realm |-> Genny]>>
               n == At("resolve", "first", Genny, todo, 1)
    <2>2. todo \in Seq(Entry) /\ todo # <<>>
      BY RealmAssumption DEF Keys, Entry
    <2>3. StateInv(n)
      BY <2>2, RealmAssumption DEF StateInv, At, State, Step
    <2> QED BY <1>4, <2>1, <2>3, OneThread DEF ResolveFirst, Goto, Free
  <1>5. CASE ReadFirst(t)
    <2>1. Head(q.todo).key \in Key
      <3>1. q.todo \in Seq(Entry) /\ q.todo # <<>>
        BY <1>5, <1>q DEF ReadFirst, StateInv, State
      <3>2. Head(q.todo) \in Entry
        BY <3>1, HeadAndTail
      <3> QED BY <3>2 DEF Entry
    <2> DEFINE r == jsonMap[Head(q.todo).key]
    <2>2. r \in Realm \cup {None}
      BY <1>m, <2>1
    <2>3. CASE r = None \/ deployments[r] # None
      BY <1>5, <1>i, <2>3, OneThread DEF ReadFirst, Return, Goto
    <2>4. CASE ~(r = None \/ deployments[r] # None)
      <3>1. r \in Realm /\ StateInv(At("resolve", "lookup", r, <<>>, 1))
        BY <1>n, <2>2, <2>4
      <3> QED BY <1>5, <2>4, <3>1, OneThread DEF ReadFirst, Goto
    <2> QED BY <2>3, <2>4
  <1>6. CASE Lookup(t)
    <2> DEFINE found == jsonMap[LookupKey(q.realm)]
               todo == <<[key |-> LookupKey(q.realm), realm |-> found]>>
               n == At("resolve", "build", q.realm, todo, 1)
    <2>1. q.realm \in Realm /\ found \in {q.realm, None}
      BY <1>q DEF IInv, MapInv, LookupKey, State
    <2>2. CASE found = None
      BY <1>6, <1>i, <2>2, OneThread DEF Lookup, Return, Goto
    <2>3. CASE found # None
      <3>1. todo \in Seq(Entry) /\ todo # <<>> /\ Head(todo).realm = q.realm
        BY <2>1, <2>3, KeyFacts DEF Entry, LookupKey
      <3> HIDE DEF todo
      <3>2. n \in State /\ n.pc = "build" /\ n.todo = todo /\ n.realm = q.realm
        BY <2>1, <3>1 DEF At, State, Step
      <3>3. StateInv(n)
        BY <3>1, <3>2 DEF StateInv
      <3> QED BY <1>6, <2>3, <3>3, OneThread DEF Lookup, Goto, todo
    <2> QED BY <2>2, <2>3
  <1>7. CASE FindJson(t)
    BY <1>7, <1>n, RealmAssumption, OneThread DEF FindJson, Goto, Free
  <1>8. CASE ReadGenny(t)
    <2> DEFINE r == jsonMap[Plain(Genny)]
    <2>1. r \in Realm \cup {None}
      BY <1>m, KeyFacts, RealmAssumption
    <2>2. CASE r = None
      BY <1>8, <1>i, <2>2, OneThread DEF ReadGenny, Return, Goto
    <2>3. CASE r # None
      <3>1. StateInv(At("token", "copy", r, <<>>, 1))
        BY <1>n, <2>1, <2>3
      <3> QED BY <1>8, <2>3, <3>1, OneThread DEF ReadGenny, Goto
    <2> QED BY <2>2, <2>3
  <1> QED BY <1>1, <1>2, <1>3, <1>4, <1>5, <1>6, <1>7, <1>8

\* The deployment that a request builds uses the configuration that it has looked up.
LEMMA BuildIInv == ASSUME IInv, NEW t \in Thread, Build(t)
                   PROVE  IInv'
  <1> DEFINE q == thread[t]
  <1>1. q \in State /\ StateInv(q) /\ Head(q.todo).realm = q.realm /\ q.realm \in Realm
    BY DEF IInv, TypeOK, Build, StateInv, State
  <1>2. StateInv(Idle)
    BY RealmAssumption DEF StateInv, Idle, At, State, Step
  <1>3. deployments' \in [Realm -> Realm \cup {None}] /\ DeploymentOfOwnRealm'
    BY <1>1 DEF IInv, TypeOK, DeploymentOfOwnRealm, Build
  <1>4. thread' = [thread EXCEPT ![t] = Idle] /\ UNCHANGED <<jsonMap, reloaded, lost, registered>>
    BY DEF Build, Return, Goto
  <1>5. TypeOK' /\ MapInv' /\ RegisteredRealmsResolve'
    BY <1>2, <1>3, <1>4 DEF IInv, TypeOK, MapInv, RegisteredRealmsResolve, StateInv
  <1>6. \A u \in Thread : thread'[u] = IF u = t THEN Idle ELSE thread[u]
    BY <1>4 DEF IInv, TypeOK
  <1>7. \A u \in Thread : StateInv(thread[u])'
    BY <1>2, <1>6 DEF IInv, StateInv
  <1>8. \A u \in Thread : \A k : ToBePut(u, k) => ToBePut(u, k)'
    BY <1>6 DEF ToBePut, Build
  <1>9. ReloadLosesNoFile'
    BY <1>4, <1>8 DEF IInv, ReloadLosesNoFile
  <1> QED BY <1>3, <1>5, <1>7, <1>9 DEF IInv

\* The token service's copy goes under a name with .json.
LEMMA CopyIInv == ASSUME IInv, NEW t \in Thread, CopyGenny(t)
                  PROVE  IInv'
  <1> DEFINE k == Json(Genny)
  <1>1. thread[t] \in State /\ thread[t].realm \in Realm
    BY DEF IInv, TypeOK, State
  <1>2. StateInv(Idle)
    BY RealmAssumption DEF StateInv, Idle, At, State, Step
  <1>3. /\ thread' = [thread EXCEPT ![t] = Idle] /\ UNCHANGED <<deployments, reloaded, registered>>
        /\ jsonMap' = [jsonMap EXCEPT ![k] = thread[t].realm] /\ lost' = lost \ {k}
    BY DEF CopyGenny, Return, Goto
  <1>4. k \in Key /\ \A r \in Realm : Plain(r) # k /\ Plain(r) \in Key
    BY KeyFacts, RealmAssumption
  <1>5. TypeOK' /\ MapInv' /\ DeploymentOfOwnRealm' /\ RegisteredRealmsResolve'
    BY <1>1, <1>2, <1>3, <1>4
    DEF IInv, TypeOK, MapInv, DeploymentOfOwnRealm, RegisteredRealmsResolve, LookupKey, StateInv
  <1>6. \A u \in Thread : thread'[u] = IF u = t THEN Idle ELSE thread[u]
    BY <1>3 DEF IInv, TypeOK
  <1>7. \A u \in Thread : StateInv(thread[u])'
    BY <1>2, <1>6 DEF IInv, StateInv
  <1>8. \A u \in Thread : \A j : ToBePut(u, j) => ToBePut(u, j)'
    BY <1>6 DEF ToBePut, CopyGenny
  <1>9. \A j \in Key : jsonMap[j] # None => jsonMap'[j] # None
    BY <1>1, <1>3, NoneAssumption DEF IInv, TypeOK
  <1>10. jsonMap'[k] # None
    BY <1>1, <1>3, <1>4, NoneAssumption DEF IInv, TypeOK
  <1>11. ReloadLosesNoFile'
    BY <1>3, <1>8, <1>9, <1>10, DirectoryEntries DEF IInv, ReloadLosesNoFile
  <1> QED BY <1>5, <1>7, <1>11 DEF IInv

LEMMA NextIInv == IInv /\ [Next]_vars => IInv'
  <1> SUFFICES ASSUME IInv, [Next]_vars PROVE IInv'
    OBVIOUS
  <1>1. ASSUME NEW t \in Thread, ThreadStep(t) PROVE IInv'
    BY <1>1, PutIInv, ClearIInv, ReadingIInv, BuildIInv, CopyIInv DEF ThreadStep
  <1>2. ASSUME NEW n \in Name, NEW r \in Realm, CreateRealm(n, r) PROVE IInv'
    BY <1>2, CreateIInv
  <1>3. ASSUME NEW k \in Key, RemoveRealm(k) PROVE IInv'
    BY <1>3, RemoveIInv
  <1>4. CASE UNCHANGED vars
    BY <1>4 DEF vars, IInv, TypeOK, MapInv, DeploymentOfOwnRealm, StateInv, RegisteredRealmsResolve,
                ReloadLosesNoFile, ToBePut
  <1> QED BY <1>1, <1>2, <1>3, <1>4 DEF Next

LEMMA SpecIInv == Spec => []IInv
  BY InitIInv, NextIInv, PTL DEF Spec

\* The map, the deployments and the threads keep their types.
THEOREM RealmsTypeCorrect == Spec => []TypeOK
  <1>1. IInv => TypeOK  BY DEF IInv
  <1> QED BY SpecIInv, <1>1, PTL

\* Every realm's requests are checked against that realm's own configuration: for any number
\* of threads, realms and files, whatever administrators create and remove.
THEOREM DeploymentsStayApart == Spec => []DeploymentOfOwnRealm
  <1>1. IInv => DeploymentOfOwnRealm  BY DEF IInv
  <1> QED BY SpecIInv, <1>1, PTL

\* However reloads overlap, each file's entries are there, or removed one by one, or to be put.
THEOREM ReloadsLoseNoFile == Spec => []ReloadLosesNoFile
  <1>1. IInv => ReloadLosesNoFile  BY DEF IInv
  <1> QED BY SpecIInv, <1>1, PTL

\* A registered realm stays resolvable until its key is removed or the map cleared.
THEOREM RegistrationsStand == Spec => []RegisteredRealmsResolve
  <1>1. IInv => RegisteredRealmsResolve  BY DEF IInv
  <1> QED BY SpecIInv, <1>1, PTL
=============================================================================
