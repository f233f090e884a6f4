-------------------------- MODULE EntityCacheProofs --------------------------
(***************************************************************************)
(* Rows and entries of the cache for any finite set of base entities and   *)
(* any threads and versions: when the cache follows the rows, and that an  *)
(* undisturbed request takes no entry back.  The inductive invariant IInv  *)
(* says what a request's view is worth while it is alone (ViewInv), what   *)
(* its own entries are (OwnEntryInv), and that an unspoiled entry which    *)
(* nobody has written is the committed row (EntryInv).                     *)
(***************************************************************************)
EXTENDS EntityCache, FiniteSetTheorems, TLAPS

\* What a request knows of itself: its codes are distinct, just one if it removes, it changes and
\* writes nothing else, and begins to write only when it has made its change.
RequestInv(q) ==
    /\ q \in Request
    /\ q.written <= Len(q.codes)
    /\ \A i, j \in 1..Len(q.codes) : q.codes[i] = q.codes[j] => i = j
    /\ q.changed \subseteq CodesOf(q)
    /\ q.pc = "idle" => q = Idle
    /\ q.pc # "idle" => q.op \in Op
    /\ q.pc = "modify" => q.written = 0 /\ q.changed = {} /\ q.op \notin Sync
    /\ q.op \in Drop /\ q.pc # "idle" => Len(q.codes) = 1

StateInv ==
    /\ committed \in [Code -> Row]
    /\ cache \in [Code -> Entry]
    /\ made \in 1..MaxVersion
    /\ request \in [Thread -> Request]
    /\ tainted \subseteq Code
    /\ \A t \in Thread : RequestInv(request[t])

\* Nobody else touches the codes of a request that is alone.
AloneInv ==
    \A s, t \in Thread : s # t /\ request[t].alone => CodesOf(request[s]) \cap CodesOf(request[t]) = {}

\* No version is later than the last one made, and a request that is alone sees the committed
\* rows, but for those it has changed, which are newer.
ViewInv ==
    /\ \A c \in Code : committed[c] \in Nat => committed[c] <= made
    /\ \A t \in Thread : LET q == request[t] IN \A c \in CodesOf(q) :
          /\ c \in q.changed /\ q.view[c] \in Nat => q.view[c] <= made
          /\ q.alone =>
             /\ c \notin q.changed => q.view[c] = committed[c]
             /\ c \in q.changed /\ q.view[c] \in Nat /\ committed[c] \in Nat => committed[c] <= q.view[c]

\* The entries it has written are its own, if nobody has cleared them.
OwnEntryInv ==
    \A t \in Thread : LET q == request[t] IN
        q.alone => \A c \in WrittenBy(q) : cache[c] \in {q.view[c], NoEntry}

\* An unspoiled entry that no request has written is the committed row.
EntryInv ==
    \A c \in Code :
        c \notin tainted /\ (\A t \in Thread : c \notin WrittenBy(request[t]))
        => cache[c] \in {committed[c], NoEntry}

IInv == StateInv /\ AloneInv /\ ViewInv /\ OwnEntryInv /\ EntryInv

----------------------------------------------------------------------------
\* A thread that serves nothing touches nothing.
LEMMA IdleFacts == /\ RequestInv(Idle) /\ CodesOf(Idle) = {} /\ WrittenBy(Idle) = {}
                   /\ Idle.pc = "idle" /\ Idle.codes = <<>> /\ Idle.written = 0 /\ Idle.alone = TRUE
                   /\ Idle.changed = {}
  <1>1. /\ Idle.pc = "idle" /\ Idle.codes = <<>> /\ Idle.written = 0 /\ Idle.alone = TRUE
        /\ Idle.changed = {} /\ Idle.op = "none"
    BY DEF Idle
  <1>2. Idle \in Request
    <2>1. [c \in Code |-> Removed] \in [Code -> Row]
      BY DEF Row, Missing
    <2>2. <<>> \in Seq(Code)
      OBVIOUS
    <2> QED BY <2>1, <2>2 DEF Idle, Request
  <1>3. CodesOf(Idle) = {} /\ WrittenBy(Idle) = {}
    BY <1>1 DEF CodesOf, WrittenBy
  <1> QED BY <1>1, <1>2, <1>3 DEF RequestInv, Drop, Op

\* Versions are numbers, the signs for no row and no entry are not.
LEMMA VersionFacts == /\ Version \subseteq Nat /\ 1 \in Version /\ MaxVersion \in Nat \ {0}
                      /\ \A r \in Row : r \in Missing <=> r \notin Nat
                      /\ \A r \in Row : r \notin Missing => r \in Version
                      /\ NoEntry \notin Row /\ Removed \in Missing /\ Hidden \in Missing
  BY VersionAssumption, SentinelAssumption DEF Version, Row, Missing

\* After startup the cache has the rows, and no request runs.
LEMMA InitIInv == Init => IInv
  <1> SUFFICES ASSUME Init PROVE IInv
    OBVIOUS
  <1>1. PICK present \in SUBSET Code :
          /\ committed = [c \in Code |-> IF c \in present THEN 1 ELSE Removed]
          /\ cache = [c \in Code |-> IF c \in present THEN 1 ELSE NoEntry]
    BY DEF Init
  <1>2. made = 1 /\ tainted = {} /\ request = [t \in Thread |-> Idle]
    BY DEF Init
  <1>3. \A t \in Thread : request[t] = Idle
    BY <1>2
  <1>4. StateInv
    <2>1. committed \in [Code -> Row] /\ cache \in [Code -> Entry]
      BY <1>1, VersionFacts DEF Row, Entry
    <2>2. made \in 1..MaxVersion
      BY <1>2, VersionFacts
    <2>3. Idle \in Request
      BY IdleFacts DEF RequestInv
    <2> QED BY <1>2, <1>3, <2>1, <2>2, <2>3, IdleFacts DEF StateInv
  <1>5. AloneInv /\ OwnEntryInv
    BY <1>3, IdleFacts DEF AloneInv, OwnEntryInv
  <1>6. ViewInv
    <2>1. \A c \in Code : committed[c] \in Nat => committed[c] <= made
      BY <1>1, <1>2, VersionFacts, SentinelAssumption
    <2> QED BY <1>3, <2>1, IdleFacts DEF ViewInv
  <1>7. EntryInv
    BY <1>1 DEF EntryInv
  <1> QED BY <1>4, <1>5, <1>6, <1>7 DEF IInv

\* What is known of any request.
LEMMA RequestFacts == ASSUME IInv, NEW t \in Thread
                      PROVE  LET q == request[t] IN
                             /\ q \in Request /\ RequestInv(q)
                             /\ q.op \in Op \cup {"none"} /\ q.pc \in {"idle", "modify", "put"}
                             /\ q.codes \in Seq(Code) /\ Len(q.codes) \in Nat /\ q.written \in Nat
                             /\ q.view \in [Code -> Row] /\ q.changed \subseteq CodesOf(q)
                             /\ q.alone \in BOOLEAN
                             /\ CodesOf(q) \subseteq Code /\ WrittenBy(q) \subseteq CodesOf(q)
  <1> DEFINE q == request[t]
  <1>1. q \in Request /\ RequestInv(q)
    BY DEF IInv, StateInv
  <1>2. /\ q.op \in Op \cup {"none"} /\ q.pc \in {"idle", "modify", "put"}
        /\ q.codes \in Seq(Code) /\ q.written \in Nat /\ q.view \in [Code -> Row]
        /\ q.changed \subseteq CodesOf(q) /\ q.alone \in BOOLEAN
    BY <1>1 DEF Request, RequestInv
  <1>3. Len(q.codes) \in Nat /\ \A i \in 1..Len(q.codes) : q.codes[i] \in Code
    BY <1>2
  <1>4. CodesOf(q) \subseteq Code /\ WrittenBy(q) \subseteq CodesOf(q)
    BY <1>1, <1>2, <1>3 DEF CodesOf, WrittenBy, RequestInv
  <1> QED BY <1>1, <1>2, <1>3, <1>4

----------------------------------------------------------------------------
\* A step of the request of thread t, which becomes n: it touches no row and no entry but those
\* of its codes, and what it sees and has written stays true if it is alone.
OwnStep(t, n) ==
    /\ request' = [request EXCEPT ![t] = n]
    /\ RequestInv(n)
    /\ n = Idle \/ (n.codes = request[t].codes /\ n.alone = request[t].alone)
    /\ committed' \in [Code -> Row] /\ cache' \in [Code -> Entry]
    /\ made' \in 1..MaxVersion /\ made <= made' /\ tainted' \subseteq Code
    /\ \A c \in Code : c \notin CodesOf(request[t]) => committed'[c] = committed[c] /\ cache'[c] = cache[c]
    /\ \A c \in Code : committed'[c] \in Nat => committed'[c] <= made'
    /\ \A c \in n.changed : n.view[c] \in Nat => n.view[c] <= made'
    /\ n # Idle /\ n.alone => \A c \in CodesOf(n) :
          /\ c \notin n.changed => n.view[c] = committed'[c]
          /\ c \in n.changed /\ n.view[c] \in Nat /\ committed'[c] \in Nat => committed'[c] <= n.view[c]
    /\ n # Idle /\ n.alone => \A c \in WrittenBy(n) : cache'[c] \in {n.view[c], NoEntry}

\* Such a step keeps what is said of types, of requests that are alone, of their views and of
\* their entries.
LEMMA StepKeeps == ASSUME IInv, NEW t \in Thread, NEW n, OwnStep(t, n)
                   PROVE  /\ StateInv' /\ AloneInv' /\ ViewInv' /\ OwnEntryInv'
                          /\ \A s \in Thread : request'[s] = IF s = t THEN n ELSE request[s]
  <1>1. /\ request' \in [Thread -> Request]
        /\ \A s \in Thread : request'[s] = IF s = t THEN n ELSE request[s]
        /\ \A s \in Thread : RequestInv(request'[s])
    BY DEF OwnStep, IInv, StateInv, RequestInv
  <1>2. StateInv'
    BY <1>1 DEF OwnStep, StateInv
  <1>3. n = Idle \/ (CodesOf(n) = CodesOf(request[t]) /\ n.alone = request[t].alone)
    BY DEF OwnStep, CodesOf
  <1>4. AloneInv'
    <2> SUFFICES ASSUME NEW r \in Thread, NEW s \in Thread, r # s, request'[s].alone
                 PROVE  CodesOf(request'[r]) \cap CodesOf(request'[s]) = {}
      BY DEF AloneInv
    <2>1. CASE n = Idle /\ (r = t \/ s = t)
      BY <1>1, <2>1, IdleFacts
    <2>2. CASE ~(n = Idle /\ (r = t \/ s = t))
      <3>1. /\ CodesOf(request'[r]) = CodesOf(request[r]) /\ CodesOf(request'[s]) = CodesOf(request[s])
            /\ request[s].alone
        BY <1>1, <1>3, <2>2
      <3> QED BY <3>1 DEF IInv, AloneInv
    <2> QED BY <2>1, <2>2
  <1>5. ASSUME NEW s \in Thread, s # t, request[s].alone, NEW c \in CodesOf(request[s])
        PROVE  c \in Code /\ committed'[c] = committed[c] /\ cache'[c] = cache[c]
    <2>1. c \in Code /\ c \notin CodesOf(request[t])
      BY <1>5, RequestFacts DEF IInv, AloneInv
    <2> QED BY <2>1 DEF OwnStep
  <1>6. ViewInv'
    <2> SUFFICES ASSUME NEW s \in Thread, NEW c \in CodesOf(request'[s])
                 PROVE  LET q == request'[s] IN
                        /\ c \in q.changed /\ q.view[c] \in Nat => q.view[c] <= made'
                        /\ q.alone =>
                            /\ c \notin q.changed => q.view[c] = committed'[c]
                            /\ c \in q.changed /\ q.view[c] \in Nat /\ committed'[c] \in Nat
                               => committed'[c] <= q.view[c]
      BY DEF ViewInv, OwnStep
    <2>1. CASE s = t
      BY <1>1, <2>1, IdleFacts DEF OwnStep
    <2>2. CASE s # t
      <3>1. request'[s] = request[s] /\ made \in Nat /\ made' \in Nat /\ made <= made'
        BY <1>1, <2>2, VersionFacts DEF OwnStep, IInv, StateInv
      <3>2. c \in request[s].changed /\ request[s].view[c] \in Nat => request[s].view[c] <= made
        BY <3>1 DEF IInv, ViewInv
      <3>3. request[s].alone =>
               /\ c \notin request[s].changed => request[s].view[c] = committed'[c]
               /\ c \in request[s].changed /\ request[s].view[c] \in Nat /\ committed'[c] \in Nat
                  => committed'[c] <= request[s].view[c]
        BY <3>1, <1>5, <2>2 DEF IInv, ViewInv
      <3> QED BY <3>1, <3>2, <3>3
    <2> QED BY <2>1, <2>2
  <1>7. OwnEntryInv'
    <2> SUFFICES ASSUME NEW s \in Thread, request'[s].alone, NEW c \in WrittenBy(request'[s])
                 PROVE  cache'[c] \in {request'[s].view[c], NoEntry}
      BY DEF OwnEntryInv
    <2>1. CASE s = t
      BY <1>1, <2>1, IdleFacts DEF OwnStep
    <2>2. CASE s # t
      <3>1. request'[s] = request[s] /\ c \in CodesOf(request[s])
        BY <1>1, <2>2, RequestFacts
      <3> QED BY <1>5, <2>2, <3>1 DEF IInv, OwnEntryInv
    <2> QED BY <2>1, <2>2
  <1> QED BY <1>1, <1>2, <1>4, <1>6, <1>7

----------------------------------------------------------------------------
\* The codes with which a request begins are a list of distinct codes, just one for a removal.
LEMMA CodesForFacts == ASSUME NEW op \in Op, NEW s \in CodesFor(op)
                       PROVE  /\ s \in Seq(Code) /\ DOMAIN s = 1..Len(s)
                              /\ \A i, j \in 1..Len(s) : s[i] = s[j] => i = j
                              /\ op \in Drop => Len(s) = 1
  <1>1. Cardinality(Present) \in Nat /\ Present \subseteq Code
    <2>1. Present \in SUBSET Code
      BY DEF Present
    <2>2. IsFiniteSet(Present)
      BY <2>1, CodeAssumption, FS_Subset
    <2> QED BY <2>1, <2>2, FS_CardinalityType
  <1>2. ASSUME NEW n \in Nat, NEW S \in SUBSET Code, s \in Injections(n, S)
        PROVE  /\ s \in Seq(Code) /\ DOMAIN s = 1..Len(s) /\ Len(s) = n
               /\ \A i, j \in 1..Len(s) : s[i] = s[j] => i = j
    <2>1. s \in [1..n -> S] /\ \A i, j \in 1..n : s[i] = s[j] => i = j
      BY <1>2 DEF Injections
    <2>2. s \in Seq(Code) /\ Len(s) = n /\ DOMAIN s = 1..n
      BY <2>1
    <2> QED BY <2>1, <2>2
  <1>3. CASE op = "synchronizeCacheBEs"
    BY <1>1, <1>2, <1>3 DEF CodesFor, Drop
  <1>4. CASE op # "synchronizeCacheBEs"
    <2>1. PICK n \in {1, 2} : s \in Injections(n, Code) /\ (op \in Drop => n = 1)
      BY <1>4 DEF CodesFor, Drop
    <2>2. /\ s \in Seq(Code) /\ DOMAIN s = 1..Len(s) /\ Len(s) = n
          /\ \A i, j \in 1..Len(s) : s[i] = s[j] => i = j
      BY <2>1, <1>2
    <2> QED BY <2>1, <2>2
  <1> QED BY <1>3, <1>4

\* A request that begins sees the rows of its codes as they are; those it meets are alone no more.
LEMMA BeginKeeps == ASSUME IInv, NEW t \in Thread, Begin(t)
                    PROVE  IInv'
  <1> DEFINE
        metBy(s) == {u \in Thread \ {t} : \E i \in DOMAIN s : s[i] \in CodesOf(request[u])}
        viewOf(s) == [c \in Code |-> IF \E i \in DOMAIN s : s[i] = c THEN Found(c) ELSE Removed]
  <1>0. PICK op \in Op : \E s \in CodesFor(op) :
          request' = [u \in Thread |->
            IF u = t
            THEN [op |-> op, pc |-> IF op \in Sync THEN "put" ELSE "modify", codes |-> s, written |-> 0,
                  view |-> viewOf(s), changed |-> {}, alone |-> metBy(s) = {}]
            ELSE [request[u] EXCEPT !.alone = @ /\ u \notin metBy(s)]]
    BY DEF Begin
  <1>1. PICK s \in CodesFor(op) :
          request' = [u \in Thread |->
            IF u = t
            THEN [op |-> op, pc |-> IF op \in Sync THEN "put" ELSE "modify", codes |-> s, written |-> 0,
                  view |-> viewOf(s), changed |-> {}, alone |-> metBy(s) = {}]
            ELSE [request[u] EXCEPT !.alone = @ /\ u \notin metBy(s)]]
    BY <1>0
  <1> DEFINE
        met == metBy(s)
        free == met = {}
        view == viewOf(s)
        n == [op |-> op, pc |-> IF op \in Sync THEN "put" ELSE "modify", codes |-> s, written |-> 0,
              view |-> view, changed |-> {}, alone |-> free]
        left(u) == request[u].alone /\ u \notin met
        m(u) == [request[u] EXCEPT !.alone = left(u)]
  <1>2. /\ committed' = committed /\ cache' = cache /\ made' = made /\ tainted' = tainted
        /\ request[t] = Idle
    BY DEF Begin
  <1>3. /\ request' = [u \in Thread |-> IF u = t THEN n ELSE m(u)]
        /\ free \in BOOLEAN /\ \A u \in Thread : left(u) \in BOOLEAN
        /\ met \subseteq Thread \ {t}
        /\ free => \A u \in Thread \ {t} : ~\E i \in DOMAIN s : s[i] \in CodesOf(request[u])
        /\ \A u \in Thread \ {t} : left(u) =>
              request[u].alone /\ ~\E i \in DOMAIN s : s[i] \in CodesOf(request[u])
    BY <1>1, <1>2
  <1>4. /\ s \in Seq(Code) /\ DOMAIN s = 1..Len(s) /\ (op \in Drop => Len(s) = 1)
        /\ \A i, j \in 1..Len(s) : s[i] = s[j] => i = j
    <2> HIDE DEF n, m, free, left, view, met, metBy, viewOf
    <2>1. op \in Op /\ s \in CodesFor(op)
      OBVIOUS
    <2> QED BY <2>1, CodesForFacts
  <1>5. view \in [Code -> Row] /\ \A i \in DOMAIN s : view[s[i]] = committed[s[i]]
    BY <1>4, VersionFacts DEF Found, IInv, StateInv, Row
  <1> HIDE DEF free, left, view, met, metBy, viewOf
  <1>6. /\ n.op = op /\ n.pc = (IF op \in Sync THEN "put" ELSE "modify") /\ n.codes = s /\ n.written = 0
        /\ n.view = view /\ n.changed = {} /\ n.alone = free
    OBVIOUS
  <1>7. CodesOf(n) = {s[i] : i \in DOMAIN s} /\ WrittenBy(n) = {} /\ n \in Request /\ RequestInv(n)
    <2>1. CodesOf(n) = {s[i] : i \in DOMAIN s} /\ WrittenBy(n) = {}
      BY <1>4, <1>6 DEF CodesOf, WrittenBy
    <2>2. n \in Request
      <3>1. free \in BOOLEAN /\ view \in [Code -> Row] /\ s \in Seq(Code)
        BY <1>3, <1>4, <1>5
      <3> QED BY <3>1 DEF Request
    <2>3. n.written <= Len(n.codes) /\ n.pc # "idle" /\ n.op \in Op
      <3>1. op \in Op /\ Len(s) \in Nat
        BY <1>4
      <3> HIDE DEF n
      <3> QED BY <3>1, <1>6
    <2> HIDE DEF n
    <2> QED BY <1>4, <1>6, <2>1, <2>2, <2>3 DEF RequestInv
  <1>8. ASSUME NEW u \in Thread
        PROVE  /\ m(u).op = request[u].op /\ m(u).pc = request[u].pc /\ m(u).codes = request[u].codes
               /\ m(u).written = request[u].written /\ m(u).view = request[u].view
               /\ m(u).changed = request[u].changed /\ m(u).alone = left(u)
               /\ m(u) \in Request
    BY <1>3, RequestFacts DEF Request
  <1> HIDE DEF n, m
  <1>9. ASSUME NEW u \in Thread, u # t
        PROVE  /\ CodesOf(m(u)) = CodesOf(request[u]) /\ WrittenBy(m(u)) = WrittenBy(request[u])
               /\ RequestInv(m(u))
    <2>1. CodesOf(m(u)) = CodesOf(request[u]) /\ WrittenBy(m(u)) = WrittenBy(request[u])
      BY <1>8 DEF CodesOf, WrittenBy
    <2>2. request[u].pc = "idle" => m(u) = Idle
      <3> SUFFICES ASSUME request[u].pc = "idle" PROVE m(u) = Idle
        OBVIOUS
      <3>1. request[u] = Idle
        BY RequestFacts DEF RequestInv
      <3>2. left(u) = TRUE
        BY <1>2, <3>1, IdleFacts DEF left, met, metBy
      <3> QED BY <3>1, <3>2, IdleFacts DEF m, Idle
    <2> QED BY <1>8, <2>1, <2>2, RequestFacts DEF RequestInv
  <1>10. /\ request'[t] = n
         /\ \A u \in Thread : u # t => request'[u] = m(u)
         /\ request' \in [Thread -> Request]
    BY <1>3, <1>7, <1>8
  <1>11. StateInv'
    BY <1>2, <1>7, <1>9, <1>10 DEF IInv, StateInv
  <1>12. AloneInv'
    <2> SUFFICES ASSUME NEW r \in Thread, NEW u \in Thread, r # u, request'[u].alone
                 PROVE  CodesOf(request'[r]) \cap CodesOf(request'[u]) = {}
      BY DEF AloneInv
    <2>1. CASE u = t
      BY <1>3, <1>6, <1>7, <1>9, <1>10, <2>1
    <2>2. CASE r = t
      BY <1>3, <1>7, <1>8, <1>9, <1>10, <2>2
    <2>3. CASE u # t /\ r # t
      BY <1>3, <1>8, <1>9, <1>10, <2>3 DEF IInv, AloneInv
    <2> QED BY <2>1, <2>2, <2>3
  <1>13. ViewInv'
    <2> SUFFICES ASSUME NEW u \in Thread, NEW c \in CodesOf(request'[u])
                 PROVE  LET q == request'[u] IN
                        /\ c \in q.changed /\ q.view[c] \in Nat => q.view[c] <= made
                        /\ q.alone =>
                            /\ c \notin q.changed => q.view[c] = committed[c]
                            /\ c \in q.changed /\ q.view[c] \in Nat /\ committed[c] \in Nat
                               => committed[c] <= q.view[c]
      BY <1>2 DEF ViewInv, IInv
    <2>1. CASE u = t
      BY <1>5, <1>6, <1>7, <1>10, <2>1
    <2>2. CASE u # t
      BY <1>3, <1>8, <1>9, <1>10, <2>2 DEF IInv, ViewInv
    <2> QED BY <2>1, <2>2
  <1>14. OwnEntryInv'
    <2> SUFFICES ASSUME NEW u \in Thread, request'[u].alone, NEW c \in WrittenBy(request'[u])
                 PROVE  cache[c] \in {request'[u].view[c], NoEntry}
      BY <1>2 DEF OwnEntryInv
    <2> QED BY <1>3, <1>7, <1>8, <1>9, <1>10 DEF IInv, OwnEntryInv
  <1>15. EntryInv'
    <2>1. \A u \in Thread : WrittenBy(request'[u]) = WrittenBy(request[u])
      BY <1>2, <1>7, <1>9, <1>10, IdleFacts
    <2> QED BY <1>2, <2>1 DEF IInv, EntryInv
  <1> QED BY <1>11, <1>12, <1>13, <1>14, <1>15 DEF IInv

----------------------------------------------------------------------------
\* If the entries stay, a request's step that leaves it with what it has written keeps EntryInv.
LEMMA NothingWritten == ASSUME IInv, NEW t \in Thread, NEW n,
                               \A s \in Thread : request'[s] = IF s = t THEN n ELSE request[s],
                               WrittenBy(n) = WrittenBy(request[t]),
                               committed' = committed, cache' = cache, tainted' = tainted
                        PROVE  EntryInv'
  BY DEF IInv, EntryInv

\* A change makes a version that no row has yet, and writes nothing.
LEMMA ModifyKeeps == ASSUME IInv, NEW t \in Thread, Modify(t)
                     PROVE  IInv'
  <1> DEFINE
        q == request[t]
        new == {c \in CodesOf(q) : q.op = "create" \/ q.view[c] \notin Missing}
        view == [c \in Code |-> IF c \in new THEN made + 1 ELSE q.view[c]]
        n == [q EXCEPT !.pc = "put", !.changed = new, !.view = view]
  <1>1. /\ q.pc = "modify" /\ q.op \notin Drop /\ made < MaxVersion /\ made' = made + 1
        /\ committed' = committed /\ cache' = cache /\ tainted' = tainted
    BY DEF Modify
  <1>2. request' = [request EXCEPT ![t] = n]
    <2>1. request \in [Thread -> Request]
      BY DEF IInv, StateInv
    <2> QED BY <2>1 DEF Modify, Request
  <1>3. /\ q \in Request /\ RequestInv(q) /\ q.codes \in Seq(Code) /\ q.op \in Op
        /\ CodesOf(q) \subseteq Code /\ q.view \in [Code -> Row] /\ q.written = 0
    BY <1>1, RequestFacts DEF RequestInv
  <1>4. made \in Nat /\ made' \in Nat /\ made' \in Version /\ made \in 1..MaxVersion
    BY <1>1, VersionFacts DEF IInv, StateInv, Version
  <1>5. view \in [Code -> Row] /\ new \subseteq CodesOf(q)
    BY <1>1, <1>3, <1>4 DEF Row
  <1>6. /\ n \in Request /\ n.pc = "put" /\ n.op = q.op /\ n.codes = q.codes /\ n.written = q.written
        /\ n.view = view /\ n.changed = new /\ n.alone = q.alone
    BY <1>3, <1>5 DEF Request
  <1> HIDE DEF n
  <1>7. CodesOf(n) = CodesOf(q) /\ WrittenBy(n) = WrittenBy(q) /\ WrittenBy(n) = {}
    BY <1>3, <1>6 DEF CodesOf, WrittenBy
  <1>8. RequestInv(n)
    BY <1>1, <1>3, <1>5, <1>6, <1>7 DEF RequestInv
  <1>9. OwnStep(t, n)
    <2>1. /\ committed' \in [Code -> Row] /\ cache' \in [Code -> Entry] /\ tainted' \subseteq Code
          /\ made' \in 1..MaxVersion /\ made <= made'
      BY <1>1, <1>4 DEF IInv, StateInv, Version
    <2>2. \A c \in Code : committed'[c] \in Nat => committed'[c] <= made'
      BY <1>1, <1>4 DEF IInv, ViewInv
    <2>3. \A c \in n.changed : n.view[c] = made'
      BY <1>1, <1>3, <1>5, <1>6
    <2>4. ASSUME n.alone, NEW c \in CodesOf(n), c \notin n.changed
          PROVE  n.view[c] = committed'[c]
      <3>1. c \in CodesOf(q) /\ c \in Code /\ c \notin new /\ q.alone
        BY <1>3, <1>6, <1>7, <2>4
      <3>2. n.view[c] = q.view[c] /\ c \notin q.changed
        BY <1>1, <1>3, <1>6, <3>1 DEF RequestInv
      <3> QED BY <1>1, <3>1, <3>2 DEF IInv, ViewInv
    <2>5. \A c \in n.changed : c \in Code
      BY <1>3, <1>6
    <2>6. n.alone => \A c \in CodesOf(n) :
             /\ c \notin n.changed => n.view[c] = committed'[c]
             /\ c \in n.changed /\ n.view[c] \in Nat /\ committed'[c] \in Nat => committed'[c] <= n.view[c]
      BY <1>4, <2>2, <2>3, <2>4, <2>5
    <2>7. \A c \in n.changed : n.view[c] \in Nat => n.view[c] <= made'
      BY <1>4, <2>3
    <2>8. n.codes = request[t].codes /\ n.alone = request[t].alone
      BY <1>6
    <2> HIDE DEF q
    <2> QED BY <1>1, <1>2, <1>7, <1>8, <2>1, <2>2, <2>6, <2>7, <2>8 DEF OwnStep
  <1> HIDE DEF q
  <1>10. EntryInv'
    BY <1>1, <1>7, <1>9, StepKeeps, NothingWritten DEF q
  <1> QED BY <1>9, <1>10, StepKeeps DEF IInv

\* A removal or hiding leaves its request without a version of the entity.
LEMMA DiscardKeeps == ASSUME IInv, NEW t \in Thread, Discard(t)
                      PROVE  IInv'
  <1> DEFINE
        q == request[t]
        gone == IF q.op = "hide" THEN Hidden ELSE Removed
        view == [q.view EXCEPT ![q.codes[1]] = gone]
        n == [q EXCEPT !.pc = "put", !.changed = CodesOf(q), !.view = view]
  <1>1. /\ q.pc = "modify" /\ q.op \in Drop
        /\ committed' = committed /\ cache' = cache /\ tainted' = tainted /\ made' = made
    BY DEF Discard
  <1>2. request' = [request EXCEPT ![t] = n]
    <2>1. request \in [Thread -> Request]
      BY DEF IInv, StateInv
    <2> QED BY <2>1 DEF Discard, Request
  <1>3. /\ q \in Request /\ RequestInv(q) /\ q.codes \in Seq(Code) /\ q.op \in Op
        /\ CodesOf(q) \subseteq Code /\ q.view \in [Code -> Row] /\ q.written = 0 /\ q.changed = {}
    BY <1>1, RequestFacts DEF RequestInv
  <1>4. view \in [Code -> Row] /\ gone \in Missing /\ gone \notin Nat
    BY <1>3, SentinelAssumption DEF Row, Missing
  <1>5. /\ n \in Request /\ n.pc = "put" /\ n.op = q.op /\ n.codes = q.codes /\ n.written = q.written
        /\ n.view = view /\ n.changed = CodesOf(q) /\ n.alone = q.alone
    BY <1>3, <1>4 DEF Request
  <1> HIDE DEF n
  <1>6. CodesOf(n) = CodesOf(q) /\ WrittenBy(n) = WrittenBy(q) /\ WrittenBy(n) = {}
    BY <1>3, <1>5 DEF CodesOf, WrittenBy
  <1>7. RequestInv(n)
    BY <1>1, <1>3, <1>5, <1>6 DEF RequestInv
  <1>8. OwnStep(t, n)
    <2>1. \A c \in Code : committed[c] \in Nat => committed[c] <= made
      BY DEF IInv, ViewInv
    <2>2. ASSUME NEW c \in CodesOf(n)
          PROVE  c \in n.changed /\ n.view[c] \notin Nat
      <3>1. Len(q.codes) = 1
        BY <1>1, <1>3 DEF RequestInv
      <3>2. c = q.codes[1] /\ c \in Code
        <4>1. CodesOf(q) = {q.codes[i] : i \in 1..1}
          BY <3>1 DEF CodesOf
        <4> QED BY <1>3, <1>6, <4>1
      <3> QED BY <1>3, <1>4, <1>5, <1>6, <3>2
    <2> QED BY <1>1, <1>2, <1>5, <1>6, <1>7, <2>1, <2>2 DEF OwnStep, IInv, StateInv
  <1> HIDE DEF q
  <1>9. EntryInv'
    BY <1>1, <1>6, <1>8, StepKeeps, NothingWritten DEF q
  <1> QED BY <1>8, <1>9, StepKeeps DEF IInv

----------------------------------------------------------------------------
\* The code that a request writes next is one of its own, written for the first time.
LEMMA PutFacts == ASSUME IInv, NEW t \in Thread, Put(t)
                  PROVE  LET q == request[t]
                             c == q.codes[q.written + 1]
                             n == [q EXCEPT !.written = @ + 1] IN
                         /\ c \in Code /\ c \in CodesOf(q) /\ c \notin WrittenBy(q)
                         /\ q.view[c] \in Version /\ q.pc = "put"
                         /\ cache' = [cache EXCEPT ![c] = q.view[c]]
                         /\ committed' = committed /\ made' = made /\ tainted' = tainted
                         /\ request' = [request EXCEPT ![t] = n]
                         /\ RequestInv(n) /\ n # Idle
                         /\ n.codes = q.codes /\ n.view = q.view /\ n.changed = q.changed
                         /\ n.alone = q.alone /\ CodesOf(n) = CodesOf(q)
                         /\ n.written = q.written + 1 /\ WrittenBy(n) = WrittenBy(q) \cup {c}
  <1> DEFINE
        q == request[t]
        c == q.codes[q.written + 1]
        n == [q EXCEPT !.written = @ + 1]
  <1>1. /\ q.pc = "put" /\ q.written < Len(q.codes) /\ q.view[c] \notin Missing
        /\ cache' = [cache EXCEPT ![c] = q.view[c]]
        /\ committed' = committed /\ made' = made /\ tainted' = tainted
    BY DEF Put, Written
  <1>2. request' = [request EXCEPT ![t] = n]
    <2>1. request \in [Thread -> Request]
      BY DEF IInv, StateInv
    <2> QED BY <2>1 DEF Put, Request
  <1>3. /\ q \in Request /\ RequestInv(q) /\ q.codes \in Seq(Code) /\ Len(q.codes) \in Nat
        /\ q.written \in Nat /\ q.view \in [Code -> Row] /\ CodesOf(q) \subseteq Code
    BY RequestFacts
  <1>4. /\ n \in Request /\ n.pc = "put" /\ n.op = q.op /\ n.codes = q.codes /\ n.written = q.written + 1
        /\ n.view = q.view /\ n.changed = q.changed /\ n.alone = q.alone
    BY <1>1, <1>3 DEF Request
  <1>5. c \in CodesOf(q) /\ c \in Code /\ c \notin WrittenBy(q) /\ q.view[c] \in Version
    <2>1. /\ q.written + 1 \in 1..Len(q.codes)
          /\ \A i \in 1..q.written : i \in 1..Len(q.codes) /\ i # q.written + 1
      BY <1>1, <1>3
    <2>2. c \in CodesOf(q) /\ c \in Code
      BY <1>3, <2>1 DEF CodesOf
    <2>3. c \notin WrittenBy(q)
      BY <1>3, <2>1 DEF WrittenBy, RequestInv
    <2> QED BY <1>1, <1>3, <2>2, <2>3, VersionFacts
  <1> HIDE DEF n
  <1>6. CodesOf(n) = CodesOf(q)
    BY <1>4 DEF CodesOf
  <1>7. WrittenBy(n) = WrittenBy(q) \cup {c}
    <2>1. 1..(q.written + 1) = 1..q.written \cup {q.written + 1}
      BY <1>3
    <2> QED BY <1>4, <2>1 DEF WrittenBy
  <1>8. RequestInv(n) /\ n # Idle
    <2>1. n.written <= Len(n.codes)
      BY <1>1, <1>3, <1>4
    <2> QED BY <1>1, <1>3, <1>4, <1>6, <2>1, IdleFacts DEF RequestInv
  <1> QED BY <1>1, <1>2, <1>4, <1>5, <1>6, <1>7, <1>8 DEF n

\* One entry is written, by a request that now has written it.
LEMMA PutKeeps == ASSUME IInv, NEW t \in Thread, Put(t)
                  PROVE  IInv'
  <1> DEFINE
        q == request[t]
        c == q.codes[q.written + 1]
        n == [q EXCEPT !.written = @ + 1]
  <1>1. /\ c \in Code /\ c \in CodesOf(q) /\ c \notin WrittenBy(q) /\ q.view[c] \in Version
        /\ cache' = [cache EXCEPT ![c] = q.view[c]]
        /\ committed' = committed /\ made' = made /\ tainted' = tainted
        /\ request' = [request EXCEPT ![t] = n]
        /\ RequestInv(n) /\ n # Idle /\ n.codes = q.codes /\ n.view = q.view /\ n.changed = q.changed
        /\ n.alone = q.alone /\ CodesOf(n) = CodesOf(q) /\ WrittenBy(n) = WrittenBy(q) \cup {c}
    BY PutFacts
  <1>2. /\ CodesOf(q) \subseteq Code /\ WrittenBy(q) \subseteq CodesOf(q) /\ q.changed \subseteq CodesOf(q)
    BY RequestFacts
  <1> HIDE DEF n, c
  <1>3. /\ committed \in [Code -> Row] /\ cache \in [Code -> Entry] /\ tainted \subseteq Code
        /\ made \in 1..MaxVersion /\ made \in Nat
    BY VersionFacts DEF IInv, StateInv
  <1>4. cache' \in [Code -> Entry] /\ cache'[c] = q.view[c] /\ \A d \in Code : d # c => cache'[d] = cache[d]
    BY <1>1, <1>3 DEF Entry
  <1>5. /\ \A d \in CodesOf(q) : d \in q.changed /\ q.view[d] \in Nat => q.view[d] <= made
        /\ q.alone => \A d \in CodesOf(q) :
              /\ d \notin q.changed => q.view[d] = committed[d]
              /\ d \in q.changed /\ q.view[d] \in Nat /\ committed[d] \in Nat => committed[d] <= q.view[d]
        /\ q.alone => \A d \in WrittenBy(q) : cache[d] \in {q.view[d], NoEntry}
        /\ \A d \in Code : committed[d] \in Nat => committed[d] <= made
    BY DEF IInv, ViewInv, OwnEntryInv
  <1>6. OwnStep(t, n)
    <2>1. n.alone => \A d \in WrittenBy(n) : cache'[d] \in {n.view[d], NoEntry}
      BY <1>1, <1>2, <1>4, <1>5
    <2>2. \A d \in Code : d \notin CodesOf(request[t]) => committed'[d] = committed[d] /\ cache'[d] = cache[d]
      BY <1>1, <1>4
    <2>3. made <= made'
      BY <1>1, <1>3
    <2> QED BY <1>1, <1>2, <1>3, <1>4, <1>5, <2>1, <2>2, <2>3 DEF OwnStep
  <1>7. EntryInv'
    <2>1. \A s \in Thread : request'[s] = IF s = t THEN n ELSE request[s]
      BY <1>6, StepKeeps
    <2>2. ASSUME NEW d \in Code, \A s \in Thread : d \notin WrittenBy(request'[s])
          PROVE  d # c /\ \A s \in Thread : d \notin WrittenBy(request[s])
      BY <1>1, <2>1, <2>2
    <2> QED BY <1>1, <1>4, <2>2 DEF IInv, EntryInv
  <1> QED BY <1>6, <1>7, StepKeeps DEF IInv

\* A request that ends leaves its thread idle: what it must do to rows and taint.
LEMMA EndKeeps == ASSUME IInv, NEW t \in Thread, request' = [request EXCEPT ![t] = Idle],
                         cache' = cache, made' = made, tainted' \subseteq Code,
                         committed' \in [Code -> Row],
                         \A c \in Code : \/ committed'[c] = committed[c]
                                         \/ c \in request[t].changed /\ committed'[c] = request[t].view[c],
                         \A c \in Code : \/ c \in tainted'
                                         \/ /\ request[t].alone /\ c \in WrittenBy(request[t])
                                            /\ committed'[c] = request[t].view[c]
                                         \/ /\ c \notin WrittenBy(request[t]) /\ c \notin tainted
                                            /\ committed'[c] = committed[c]
                  PROVE  IInv'
  <1> DEFINE q == request[t]
  <1>1. q.changed \subseteq CodesOf(q) /\ CodesOf(q) \subseteq Code /\ WrittenBy(q) \subseteq CodesOf(q)
    BY RequestFacts
  <1>2. OwnStep(t, Idle)
    <2>1. /\ cache \in [Code -> Entry] /\ made \in 1..MaxVersion /\ made \in Nat
      BY VersionFacts DEF IInv, StateInv
    <2>2. \A c \in Code : c \notin CodesOf(request[t]) => committed'[c] = committed[c]
      BY <1>1
    <2>3. \A c \in Code : committed'[c] \in Nat => committed'[c] <= made
      BY <1>1 DEF IInv, ViewInv
    <2> QED BY <2>1, <2>2, <2>3, IdleFacts DEF OwnStep
  <1>3. EntryInv'
    <2> SUFFICES ASSUME NEW c \in Code, c \notin tainted', \A s \in Thread : c \notin WrittenBy(request'[s])
                 PROVE  cache[c] \in {committed'[c], NoEntry}
      BY DEF EntryInv
    <2>1. CASE q.alone /\ c \in WrittenBy(q) /\ committed'[c] = q.view[c]
      BY <2>1 DEF IInv, OwnEntryInv
    <2>2. CASE c \notin WrittenBy(q) /\ c \notin tainted /\ committed'[c] = committed[c]
      <3>1. \A s \in Thread : c \notin WrittenBy(request[s])
        BY <1>2, <2>2, StepKeeps
      <3> QED BY <2>2, <3>1 DEF IInv, EntryInv
    <2> QED BY <2>1, <2>2
  <1> QED BY <1>2, <1>3, StepKeeps DEF IInv

\* A commit makes rows of what its request has changed: undisturbed, the entries it wrote are
\* right, and those it changed without writing them are spoiled.
LEMMA CommitKeeps == ASSUME IInv, NEW t \in Thread, Commit(t)
                     PROVE  IInv'
  <1> DEFINE q == request[t]
  <1>1. /\ committed' = [c \in Code |-> IF c \in q.changed THEN q.view[c] ELSE committed[c]]
        /\ q.alone => tainted' = (tainted \ WrittenBy(q)) \cup (q.changed \ WrittenBy(q))
        /\ ~q.alone => tainted' = tainted \cup q.changed \cup WrittenBy(q)
        /\ request' = [request EXCEPT ![t] = Idle] /\ cache' = cache /\ made' = made
    BY DEF Commit
  <1>2. /\ q.changed \subseteq CodesOf(q) /\ CodesOf(q) \subseteq Code /\ WrittenBy(q) \subseteq CodesOf(q)
        /\ q.view \in [Code -> Row] /\ q.alone \in BOOLEAN
    BY RequestFacts
  <1>3. committed \in [Code -> Row] /\ tainted \subseteq Code
    BY DEF IInv, StateInv
  <1>4. committed' \in [Code -> Row] /\ tainted' \subseteq Code
    BY <1>1, <1>2, <1>3
  <1>5. q.alone => \A c \in CodesOf(q) : c \notin q.changed => q.view[c] = committed[c]
    BY DEF IInv, ViewInv
  <1>6. \A c \in Code : \/ c \in tainted'
                        \/ q.alone /\ c \in WrittenBy(q) /\ committed'[c] = q.view[c]
                        \/ c \notin WrittenBy(q) /\ c \notin tainted /\ committed'[c] = committed[c]
    BY <1>1, <1>2, <1>5
  <1>7. \A c \in Code : \/ committed'[c] = committed[c]
                        \/ c \in q.changed /\ committed'[c] = q.view[c]
    BY <1>1
  <1> QED BY <1>1, <1>4, <1>6, <1>7, EndKeeps

\* A rollback leaves the rows, and spoils the entries its request wrote unless they are rows.
LEMMA RollbackKeeps == ASSUME IInv, NEW t \in Thread, Rollback(t)
                       PROVE  IInv'
  <1> DEFINE q == request[t]
  <1>1. /\ tainted' = tainted \cup {c \in WrittenBy(q) : c \in q.changed \/ ~q.alone}
        /\ request' = [request EXCEPT ![t] = Idle]
        /\ committed' = committed /\ cache' = cache /\ made' = made
    BY DEF Rollback
  <1>2. CodesOf(q) \subseteq Code /\ WrittenBy(q) \subseteq CodesOf(q)
    BY RequestFacts
  <1>3. committed \in [Code -> Row] /\ tainted \subseteq Code
    BY DEF IInv, StateInv
  <1>4. q.alone => \A c \in CodesOf(q) : c \notin q.changed => q.view[c] = committed[c]
    BY DEF IInv, ViewInv
  <1>5. \A c \in Code : \/ c \in tainted'
                        \/ q.alone /\ c \in WrittenBy(q) /\ committed'[c] = q.view[c]
                        \/ c \notin WrittenBy(q) /\ c \notin tainted /\ committed'[c] = committed[c]
    BY <1>1, <1>2, <1>4
  <1> QED BY <1>1, <1>2, <1>3, <1>5, EndKeeps

----------------------------------------------------------------------------
\* A direct write spoils its entry, and a request at work on it is alone no more.
LEMMA CacheWriteKeeps == ASSUME IInv, NEW c \in Code, CacheWrite(c)
                         PROVE  IInv'
  <1> DEFINE
        left(u) == request[u].alone /\ c \notin CodesOf(request[u])
        m(u) == [request[u] EXCEPT !.alone = left(u)]
  <1>1. PICK v \in Version \cup {NoEntry} : cache' = [cache EXCEPT ![c] = v]
    BY VersionAssumption DEF CacheWrite
  <1>2. /\ request' = [u \in Thread |-> m(u)] /\ \A u \in Thread : left(u) \in BOOLEAN
        /\ \A u \in Thread : left(u) => request[u].alone /\ c \notin CodesOf(request[u])
        /\ \A u \in Thread : request[u] = Idle => left(u) = TRUE
        /\ committed' = committed /\ made' = made /\ tainted' = tainted \cup {c}
    BY IdleFacts DEF CacheWrite
  <1> HIDE DEF left
  <1>3. ASSUME NEW u \in Thread
        PROVE  /\ m(u).op = request[u].op /\ m(u).pc = request[u].pc /\ m(u).codes = request[u].codes
               /\ m(u).written = request[u].written /\ m(u).view = request[u].view
               /\ m(u).changed = request[u].changed /\ m(u).alone = left(u)
               /\ m(u) \in Request /\ (request[u] = Idle => m(u) = Idle)
    BY <1>2, RequestFacts, IdleFacts DEF Request, Idle
  <1> HIDE DEF m
  <1>4. \A u \in Thread : request'[u] = m(u)
    BY <1>2
  <1>5. ASSUME NEW u \in Thread
        PROVE  /\ CodesOf(m(u)) = CodesOf(request[u]) /\ WrittenBy(m(u)) = WrittenBy(request[u])
               /\ RequestInv(m(u)) /\ WrittenBy(request[u]) \subseteq CodesOf(request[u])
               /\ CodesOf(request[u]) \subseteq Code
    <2>1. CodesOf(m(u)) = CodesOf(request[u]) /\ WrittenBy(m(u)) = WrittenBy(request[u])
      BY <1>3 DEF CodesOf, WrittenBy
    <2> QED BY <1>3, <2>1, RequestFacts DEF RequestInv
  <1>6. /\ cache' \in [Code -> Entry] /\ \A d \in Code : d # c => cache'[d] = cache[d]
    BY <1>1 DEF Entry, IInv, StateInv
  <1>7. StateInv'
    <2>1. request' \in [Thread -> Request]
      BY <1>2, <1>3
    <2> QED BY <1>2, <1>4, <1>5, <1>6, <2>1 DEF IInv, StateInv
  <1>8. AloneInv'
    BY <1>2, <1>3, <1>4, <1>5 DEF IInv, AloneInv
  <1>9. ViewInv'
    BY <1>2, <1>3, <1>4, <1>5 DEF IInv, ViewInv
  <1>10. OwnEntryInv'
    <2> SUFFICES ASSUME NEW u \in Thread, request'[u].alone, NEW d \in WrittenBy(request'[u])
                 PROVE  cache'[d] \in {request'[u].view[d], NoEntry}
      BY DEF OwnEntryInv
    <2>1. d \in Code /\ d # c /\ request[u].alone /\ d \in WrittenBy(request[u])
      BY <1>2, <1>3, <1>4, <1>5
    <2> QED BY <1>3, <1>4, <1>6, <2>1 DEF IInv, OwnEntryInv
  <1>11. EntryInv'
    BY <1>2, <1>4, <1>5, <1>6 DEF IInv, EntryInv
  <1> QED BY <1>7, <1>8, <1>9, <1>10, <1>11 DEF IInv

\* A clear leaves no entry to be wrong.
LEMMA CacheClearKeeps == ASSUME IInv, CacheClear
                         PROVE  IInv'
  <1>1. /\ cache' = [c \in Code |-> NoEntry] /\ tainted' = {c \in tainted : Busy(c)}
        /\ committed' = committed /\ made' = made /\ request' = request
    BY DEF CacheClear
  <1>2. StateInv'
    BY <1>1 DEF IInv, StateInv, Entry
  <1>3. AloneInv' /\ ViewInv'
    BY <1>1 DEF IInv, AloneInv, ViewInv
  <1>4. OwnEntryInv'
    <2>1. \A t \in Thread : WrittenBy(request[t]) \subseteq Code
      BY RequestFacts
    <2> QED BY <1>1, <2>1 DEF OwnEntryInv
  <1>5. EntryInv'
    BY <1>1 DEF EntryInv
  <1> QED BY <1>2, <1>3, <1>4, <1>5 DEF IInv

\* Every step keeps the invariant.
LEMMA NextIInv == IInv /\ [Next]_vars => IInv'
  <1> SUFFICES ASSUME IInv, [Next]_vars PROVE IInv'
    OBVIOUS
  <1>1. CASE UNCHANGED vars
    BY <1>1 DEF vars, IInv, StateInv, AloneInv, ViewInv, OwnEntryInv, EntryInv
  <1>2. ASSUME NEW t \in Thread, Begin(t)
        PROVE  IInv'
    BY <1>2, BeginKeeps
  <1>3. ASSUME NEW t \in Thread, Modify(t)
        PROVE  IInv'
    BY <1>3, ModifyKeeps
  <1>4. ASSUME NEW t \in Thread, Discard(t)
        PROVE  IInv'
    BY <1>4, DiscardKeeps
  <1>5. ASSUME NEW t \in Thread, Put(t)
        PROVE  IInv'
    BY <1>5, PutKeeps
  <1>6. ASSUME NEW t \in Thread, Commit(t)
        PROVE  IInv'
    BY <1>6, CommitKeeps
  <1>7. ASSUME NEW t \in Thread, Rollback(t)
        PROVE  IInv'
    BY <1>7, RollbackKeeps
  <1>8. ASSUME NEW c \in Code, CacheWrite(c)
        PROVE  IInv'
    BY <1>8, CacheWriteKeeps
  <1>9. CASE CacheClear
    BY <1>9, CacheClearKeeps
  <1> QED BY <1>1, <1>2, <1>3, <1>4, <1>5, <1>6, <1>7, <1>8, <1>9 DEF Next

\* The invariant holds throughout.
LEMMA SpecIInv == Spec => []IInv
  BY InitIInv, NextIInv, PTL DEF Spec

----------------------------------------------------------------------------
\* The rows, the entries and the requests are what the declarations say, for any codes, threads
\* and versions; no request writes more entries than it has codes.
THEOREM EntriesTypeCorrect == Spec => []TypeOK
  <1>1. IInv => TypeOK
    <2> SUFFICES ASSUME IInv PROVE TypeOK
      OBVIOUS
    <2>1. \A t \in Thread : request[t] \in Request /\ request[t].written <= Len(request[t].codes)
      BY DEF IInv, StateInv, RequestInv
    <2>2. made \in 0..MaxVersion
      BY VersionFacts DEF IInv, StateInv
    <2> QED BY <2>1, <2>2 DEF IInv, StateInv, TypeOK
  <1> QED BY <1>1, SpecIInv, PTL

\* The cache follows the rows (Service.updateDDT, writeToDDT): an entry that no request is at work
\* on is the committed row or absent, unless overlap, a rollback, a removal, a swallowed link
\* event or a direct write has spoiled it since it was last repaired.
THEOREM CacheIsCoherent == Spec => []CoherentUnlessTainted
  <1>1. IInv => CoherentUnlessTainted
    <2> SUFFICES ASSUME IInv, NEW c \in Code, ~Busy(c), c \notin tainted
                 PROVE  cache[c] \in {committed[c], NoEntry}
      BY DEF CoherentUnlessTainted
    <2>1. \A t \in Thread : c \notin WrittenBy(request[t])
      BY RequestFacts DEF Busy
    <2> QED BY <2>1 DEF IInv, EntryInv
  <1> QED BY <1>1, SpecIInv, PTL

\* A request whose count of written entries grows is one that puts.
LEMMA GrowingPuts == ASSUME IInv, [Next]_vars, NEW t \in Thread, request'[t].written > request[t].written
                     PROVE  Put(t)
  <1>1. \A s \in Thread : request[s].written \in Nat /\ request[s] \in Request
    BY RequestFacts
  <1>2. request \in [Thread -> Request]
    BY DEF IInv, StateInv
  <1>3. CASE UNCHANGED vars
    BY <1>1, <1>3 DEF vars
  <1>4. ASSUME NEW s \in Thread, Begin(s)
        PROVE  FALSE
    <2>1. request'[t].written = IF t = s THEN 0 ELSE request[t].written
      BY <1>1, <1>4 DEF Begin, Request
    <2> QED BY <1>1, <2>1
  <1>5. ASSUME NEW s \in Thread, Modify(s)
        PROVE  FALSE
    <2>1. request'[t].written = request[t].written
      <3>1. CASE s = t
        BY <1>1, <1>2, <1>5, <3>1 DEF Modify, Request
      <3>2. CASE s # t
        BY <1>2, <1>5, <3>2 DEF Modify
      <3> QED BY <3>1, <3>2
    <2> QED BY <1>1, <2>1
  <1>10. ASSUME NEW s \in Thread, Discard(s)
        PROVE  FALSE
    <2>1. request'[t].written = request[t].written
      <3>1. CASE s = t
        BY <1>1, <1>2, <1>10, <3>1 DEF Discard, Request
      <3>2. CASE s # t
        BY <1>2, <1>10, <3>2 DEF Discard
      <3> QED BY <3>1, <3>2
    <2> QED BY <1>1, <2>1
  <1>6. ASSUME NEW s \in Thread, Commit(s) \/ Rollback(s)
        PROVE  FALSE
    <2>1. request'[t].written = IF t = s THEN 0 ELSE request[t].written
      BY <1>1, <1>2, <1>6, IdleFacts DEF Commit, Rollback
    <2> QED BY <1>1, <2>1
  <1>7. ASSUME NEW s \in Thread, Put(s), s # t
        PROVE  FALSE
    <2>1. request'[t].written = request[t].written
      BY <1>2, <1>7 DEF Put
    <2> QED BY <1>1, <2>1
  <1>8. ASSUME NEW c \in Code, CacheWrite(c)
        PROVE  FALSE
    <2>1. request'[t].written = request[t].written
      BY <1>1, <1>8 DEF CacheWrite, Request
    <2> QED BY <1>1, <2>1
  <1>9. CASE CacheClear
    BY <1>1, <1>9 DEF CacheClear
  <1> QED BY <1>3, <1>4, <1>5, <1>6, <1>7, <1>8, <1>9, <1>10 DEF Next

\* A request that nobody disturbs takes no unspoiled entry back to an earlier version
\* (Service.writeToDDT in the requests that save, link or synchronise).
THEOREM EntriesNeverStepBack == Spec => NoStepBack
  <1>1. ASSUME IInv, [Next]_vars,
               NEW t \in Thread, NEW c \in Code, request'[t].written > request[t].written,
               c \in CodesOf(request[t]), request[t].alone, c \notin tainted, cache[c] # NoEntry
        PROVE  cache'[c] >= cache[c]
    <2> DEFINE
          q == request[t]
          d == q.codes[q.written + 1]
    <2>1. Put(t)
      BY <1>1, GrowingPuts
    <2>2. /\ d \in Code /\ d \notin WrittenBy(q) /\ q.view[d] \in Version
          /\ cache' = [cache EXCEPT ![d] = q.view[d]]
      BY <1>1, <2>1, PutFacts
    <2>3. cache \in [Code -> Entry] /\ cache[c] \in Nat
      BY <1>1, VersionFacts DEF IInv, StateInv, Entry
    <2>4. CASE c # d
      BY <2>2, <2>3, <2>4
    <2>5. CASE c = d
      <3>1. \A s \in Thread : c \notin WrittenBy(request[s])
        <4>1. ASSUME NEW s \in Thread, s # t
              PROVE  c \notin CodesOf(request[s])
          BY <1>1, <4>1 DEF IInv, AloneInv
        <4>2. \A s \in Thread : WrittenBy(request[s]) \subseteq CodesOf(request[s])
          BY <1>1, RequestFacts
        <4> QED BY <2>2, <2>5, <4>1, <4>2
      <3>2. cache[c] = committed[c]
        BY <1>1, <3>1 DEF IInv, EntryInv
      <3>3. q.view[c] \in Nat /\ q.view[c] >= committed[c]
        <4>1. q.view[c] \in Nat /\ committed[c] \in Nat
          BY <2>2, <2>3, <2>5, <3>2, VersionFacts
        <4>2. c \notin q.changed => q.view[c] = committed[c]
          BY <1>1 DEF IInv, ViewInv
        <4>3. c \in q.changed => committed[c] <= q.view[c]
          <5> HIDE DEF d
          <5> QED BY <1>1, <4>1 DEF IInv, ViewInv
        <4> QED BY <4>1, <4>2, <4>3
      <3> QED BY <2>2, <2>3, <2>5, <3>2, <3>3
    <2> QED BY <2>4, <2>5
  <1>2. IInv /\ [Next]_vars =>
          [\A t \in Thread, c \in Code :
              /\ request'[t].written > request[t].written /\ c \in CodesOf(request[t])
              /\ request[t].alone /\ c \notin tainted /\ cache[c] # NoEntry
              => cache'[c] >= cache[c]]_vars
    BY <1>1
  <1> QED BY <1>2, SpecIInv, PTL DEF Spec, NoStepBack
=============================================================================
