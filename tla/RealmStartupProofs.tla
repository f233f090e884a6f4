-------------------------- MODULE RealmStartupProofs --------------------------
(***************************************************************************)
(* The pipeline over any number of realm units, for any sheets, flags,     *)
(* crashes and failed runs: what a run has put in place when it announces  *)
(* a realm, what a startup that completes has healed, and that disabled    *)
(* realms are left alone.  The inductive invariant IInv says what the      *)
(* stages have done for the units they are through with (DoneInv), whose   *)
(* rows the open transaction has changed (RowsInv) and, for a startup,     *)
(* which realm is in force (PlaceInv): pushToDTT writes the attributes of  *)
(* the unit before, so that the last enabled unit must be in force when it *)
(* begins (FreshInv).                                                      *)
(***************************************************************************)
EXTENDS RealmStartup, WellFoundedInduction, TLAPS

Running(q) == q.stage \notin {"down", "up"}
AtStartup(q) == Running(q) /\ q.principal = None

\* The stages that follow one of those that the properties are about.
After(stage) ==
    CASE stage = "projects" -> {"services", "urls", "import", "attributes", "urlsAgain", "enable",
                                "realms", "reload"}
      [] stage = "urls" -> {"import", "attributes", "urlsAgain", "enable", "realms", "reload"}
      [] stage = "attributes" -> {"urlsAgain", "enable", "realms", "reload"}
      [] stage = "enable" -> {"realms", "reload"}

\* The units for which a run is through with a stage.
Done(q, stage) ==
    IF q.stage \in After(stage) THEN Elements(q.units)
    ELSE IF q.stage = stage THEN Elements(q.units) \ Elements(q.todo) ELSE {}

\* The enabled unit after which no other comes: the one that a stage leaves in force.
Last(r) == /\ r \in Enabled
           /\ \E i \in 1..Len(Units) : Units[i] = r /\ \A j \in (i + 1)..Len(Units) : Units[j] \in disabled

StateInv ==
    /\ disabled \subseteq Realm /\ sheet \in [Realm -> [SheetCode -> Version]]
    /\ committed \in Database /\ db \in Database /\ cache \in Cache /\ run \in Run
    /\ jsonMap \subseteq Realm /\ localhost \in Realm \cup {None} /\ started \subseteq Realm
    /\ attributeMap \in [Realm -> SUBSET Realm]

\* A run: what is left to do is the end of its units, its units are distinct, and a startup
\* has all units and reloads nothing.
RunInv(q) ==
    Running(q) =>
        /\ \A i, j \in 1..Len(q.units) : q.units[i] = q.units[j] => i = j
        /\ q.stage # "reload" =>
              /\ Len(q.todo) <= Len(q.units)
              /\ \A i \in 1..Len(q.todo) : q.todo[i] = q.units[i + (Len(q.units) - Len(q.todo))]
        /\ q.principal = None => q.units = Units /\ q.later = <<>>
        /\ q.principal = None /\ q.stage = "reload" => q.todo = <<>>

\* At startup the realm in force is the last enabled unit, or that unit is still to come; and it
\* is an enabled one as soon as the first stage is over.
PlaceInv(q) ==
    AtStartup(q) /\ Enabled # {} =>
        /\ q.stage \notin {"realms", "reload"} =>
              Last(q.currentRealm) \/ \E r \in Elements(q.todo) : Last(r)
        /\ q.stage = "import" /\ q.task = "skip" => Last(q.currentRealm)
        /\ q.stage # "projects" => q.currentRealm \in Enabled

\* What the stages have left for the units they are through with.
DoneInv ==
    \A r \in Realm \ disabled :
        /\ r \in Done(run, "projects") =>
              r \in jsonMap /\ (AtStartup(run) => cache.project[r] = r)
        /\ r \in Done(run, "urls") => r \in cache.urls
        /\ r \in Done(run, "attributes") => RowsCached(r)

\* The open transaction has changed a disabled realm's rows only for that realm's own user.
RowsInv == /\ ~Running(run) => db = committed
           /\ \A r \in disabled : run.principal # r => db[r] = committed[r]

\* At startup the attributes of each enabled realm are in the cache once pushToDTT has gone
\* on from its unit; those of the last one since its first step.
Fresh(r) == cache.attributes[r] = AttributesOf(r)
FreshInv ==
    AtStartup(run) =>
        /\ run.stage = "attributes" => \A r \in Enabled :
              /\ Fresh(r) \/ r \in Elements(run.todo) \/ r = run.currentRealm
              /\ Last(r) => Fresh(r) \/ (r = run.currentRealm /\ run.todo = Units)
        /\ run.stage \in After("attributes") => \A r \in Enabled : Fresh(r)

\* The list REALMS is there before the attributes are reloaded.
RealmsInv == run.stage = "reload" => Enabled = {} \/ cache.realms = Enabled

IInv == /\ StateInv /\ RunInv(run) /\ PlaceInv(run)
        /\ DoneInv /\ RowsInv /\ FreshInv /\ RealmsInv

----------------------------------------------------------------------------
\* What sequences of realms are made of.
LEMMA SeqFacts == ASSUME NEW s \in Seq(Realm)
                  PROVE  /\ Len(s) \in Nat /\ Elements(s) \subseteq Realm
                         /\ Elements(<<>>) = {} /\ (Len(s) = 0 <=> s = <<>>)
                         /\ \A x : Len(<<x>>) = 1 /\ <<x>>[1] = x /\ Elements(<<x>>) = {x}
                         /\ s # <<>> =>
                              /\ Head(s) = s[1] /\ Head(s) \in Realm /\ Head(s) \in Elements(s)
                              /\ Tail(s) \in Seq(Realm) /\ Len(Tail(s)) = Len(s) - 1
                              /\ \A i \in 1..Len(Tail(s)) : Tail(s)[i] = s[i + 1] /\ i + 1 \in 1..Len(s)
                              /\ Elements(s) = {Head(s)} \cup Elements(Tail(s))
  <1>1. Len(s) \in Nat /\ \A i \in 1..Len(s) : s[i] \in Realm
    OBVIOUS
  <1>2. Elements(s) \subseteq Realm /\ Elements(<<>>) = {} /\ (Len(s) = 0 <=> s = <<>>)
    BY <1>1 DEF Elements
  <1>3. ASSUME NEW x
        PROVE  Len(<<x>>) = 1 /\ <<x>>[1] = x /\ Elements(<<x>>) = {x}
    <2>1. Len(<<x>>) = 1 /\ <<x>>[1] = x
      OBVIOUS
    <2>2. 1..1 = {1}
      OBVIOUS
    <2> QED BY <2>1, <2>2 DEF Elements
  <1>4. ASSUME s # <<>>
        PROVE  /\ Head(s) = s[1] /\ Head(s) \in Realm /\ Head(s) \in Elements(s)
               /\ Tail(s) \in Seq(Realm) /\ Len(Tail(s)) = Len(s) - 1
               /\ \A i \in 1..Len(Tail(s)) : Tail(s)[i] = s[i + 1] /\ i + 1 \in 1..Len(s)
               /\ Elements(s) = {Head(s)} \cup Elements(Tail(s))
    <2>1. /\ Head(s) = s[1] /\ 1 \in 1..Len(s)
          /\ Tail(s) \in Seq(Realm) /\ Len(Tail(s)) = Len(s) - 1
          /\ \A i \in 1..Len(Tail(s)) : Tail(s)[i] = s[i + 1] /\ i + 1 \in 1..Len(s)
      BY <1>4
    <2>2. \A i \in 1..Len(s) : i = 1 \/ (i - 1 \in 1..Len(Tail(s)) /\ Tail(s)[i - 1] = s[i])
      BY <1>1, <2>1
    <2>3. Elements(s) = {Head(s)} \cup Elements(Tail(s))
      BY <2>1, <2>2 DEF Elements
    <2> QED BY <1>1, <2>1, <2>3 DEF Elements
  <1> QED BY <1>1, <1>2, <1>3, <1>4

\* The fields of the run.
LEMMA RunFacts == ASSUME StateInv
                  PROVE  /\ run.stage \in Stage /\ run.todo \in Seq(Realm) /\ run.units \in Seq(Realm)
                         /\ run.later \in Seq(Realm) /\ run.principal \in Realm \cup {None}
                         /\ run.currentRealm \in Realm /\ run.task \in Task
                         /\ Len(run.todo) \in Nat /\ Len(run.units) \in Nat
                         /\ GetRealm \in Realm
  BY DEF StateInv, Run, GetRealm

\* What the cache holds of a row.
LEMMA ContentFacts == ASSUME NEW row \in Row \cup {None}
                      PROVE  ContentOf(row) \in Content \cup {None}
  BY DEF Row, Content, ContentOf

\* The fields of the database and of the cache.
LEMMA StoreFacts == ASSUME StateInv
                    PROVE  /\ db \in [Realm -> [Code -> Row \cup {None}]]
                           /\ cache.project \in [Realm -> Realm \cup {None}]
                           /\ cache.attributes \in [Realm -> AttributeList \cup {None}]
                           /\ cache.entities \in [Realm -> [Code -> Content \cup {None}]]
                           /\ cache.urls \subseteq Realm /\ cache.realms \in (SUBSET Realm) \cup {None}
                           /\ \A r \in Realm : AttributesOf(r) \in AttributeList
  <1>1. db \in [Realm -> [Code -> Row \cup {None}]] /\ cache \in Cache
    BY DEF StateInv, Database
  <1>2. ASSUME NEW r \in Realm
        PROVE  AttributesOf(r) \in AttributeList
    <2>1. \A c \in Attributes : db[r][c] \in Row \cup {None}
      BY <1>1 DEF Code, SheetCode
    <2>2. [c \in Attributes |-> ContentOf(db[r][c])] \in [Attributes -> Content \cup {None}]
      BY <2>1, ContentFacts
    <2> QED BY <2>2 DEF AttributesOf, AttributeList
  <1> QED BY <1>1, <1>2 DEF Cache

\* A run that begins has its units before it.
LEMMA NewRunFacts == ASSUME NEW units \in Seq(Realm), NEW later \in Seq(Realm),
                            NEW p \in Realm \cup {None}, NEW task \in Task
                     PROVE  LET q == NewRun(units, later, p, task) IN
                            /\ q \in Run /\ q.stage = "projects" /\ q.todo = units /\ q.units = units
                            /\ q.later = later /\ q.principal = p /\ q.task = task
                            /\ \A stage \in {"projects", "urls", "attributes", "enable"} : Done(q, stage) = {}
                            /\ Running(q)
  <1> DEFINE q == NewRun(units, later, p, task)
  <1>1. /\ q \in Run /\ q.stage = "projects" /\ q.todo = units /\ q.units = units
        /\ q.later = later /\ q.principal = p /\ q.task = task
    BY UnitsAssumption DEF NewRun, Run, Stage
  <1> HIDE DEF q
  <1>2. \A stage \in {"projects", "urls", "attributes", "enable"} : Done(q, stage) = {}
    BY <1>1 DEF Done, After
  <1> QED BY <1>1, <1>2 DEF Running, q

\* No run goes on.
LEMMA NoRunFacts == ASSUME NEW stage \in {"down", "up"}
                    PROVE  LET q == NoRun(stage) IN
                           /\ q \in Run /\ q.stage = stage /\ ~Running(q)
                           /\ \A s \in {"projects", "urls", "attributes", "enable"} : Done(q, s) = {}
  <1> DEFINE q == NoRun(stage)
  <1>1. q \in Run /\ q.stage = stage
    BY UnitsAssumption DEF NoRun, Run, Stage, Task
  <1> HIDE DEF q
  <1>2. ~Running(q) /\ \A s \in {"projects", "urls", "attributes", "enable"} : Done(q, s) = {}
    BY <1>1 DEF Running, Done, After
  <1> QED BY <1>1, <1>2 DEF q

\* Without a run there is little to say.
LEMMA NoRunKeeps == ASSUME StateInv', ~Running(run)', run'.stage \in {"down", "up"},
                           db' = committed',
                           \A s \in {"projects", "urls", "attributes", "enable"} : Done(run', s) = {}
                    PROVE  IInv'
  <1>1. RunInv(run)' /\ PlaceInv(run)'
    BY DEF RunInv, PlaceInv, AtStartup
  <1>2. DoneInv' /\ RowsInv'
    BY DEF DoneInv, RowsInv
  <1>3. FreshInv' /\ RealmsInv'
    BY DEF FreshInv, RealmsInv, AtStartup
  <1> QED BY <1>1, <1>2, <1>3 DEF IInv

\* Before the first start there is nothing anywhere.
LEMMA InitIInv == Init => IInv
  <1> SUFFICES ASSUME Init PROVE IInv
    OBVIOUS
  <1>1. run = NoRun("down") /\ db = committed
    BY DEF Init
  <1>2. StateInv
    <2>1. run \in Run
      BY <1>1, NoRunFacts
    <2>2. committed \in Database /\ db \in Database
      BY DEF Init, Database
    <2>3. cache \in Cache
      BY DEF Init, Cache
    <2>4. /\ disabled \subseteq Realm /\ jsonMap \subseteq Realm /\ localhost \in Realm \cup {None}
          /\ attributeMap \in [Realm -> SUBSET Realm] /\ started \subseteq Realm
      BY DEF Init
    <2>5. sheet \in [Realm -> [SheetCode -> Version]]
      BY BoundsAssumption DEF Init, Version
    <2> QED BY <2>1, <2>2, <2>3, <2>4, <2>5 DEF StateInv
  <1>3. run.stage = "down" /\ ~Running(run)
        /\ \A s \in {"projects", "urls", "attributes", "enable"} : Done(run, s) = {}
    BY <1>1, NoRunFacts
  <1>4. RunInv(run) /\ PlaceInv(run) /\ DoneInv /\ RowsInv /\ FreshInv /\ RealmsInv
    BY <1>1, <1>3 DEF RunInv, PlaceInv, AtStartup, DoneInv, RowsInv, FreshInv, RealmsInv
  <1> QED BY <1>2, <1>4 DEF IInv

----------------------------------------------------------------------------
UnitStages == {"projects", "services", "urls", "import", "attributes", "urlsAgain", "enable"}

\* A stage's work on one unit: the realm that it leaves in force, and what it may do to the
\* rows, the cache, the Keycloak map and the announcements, and what it must.
InForce == IF Unit \in disabled \/ (run.stage = "import" /\ run.task = "skip")
             THEN run.currentRealm ELSE Unit
UnitStep ==
    /\ run.stage \in UnitStages /\ run.todo # <<>>
    /\ run' = [run EXCEPT !.todo = Tail(@), !.currentRealm = InForce]
    /\ disabled' = disabled /\ sheet' = sheet /\ committed' = committed
    /\ db' \in Database /\ cache' \in Cache
    /\ localhost' \in Realm \cup {None} /\ attributeMap' \in [Realm -> SUBSET Realm]
    /\ jsonMap \subseteq jsonMap' /\ jsonMap' \subseteq jsonMap \cup ({Unit} \ disabled)
    /\ cache.urls \subseteq cache'.urls /\ cache'.urls \subseteq cache.urls \cup ({Unit} \ disabled)
    /\ started' = started \cup (IF run.stage = "enable" THEN {Unit} \ disabled ELSE {})
    /\ \A r \in Realm : r # Unit \/ r \in disabled =>
          /\ cache'.project[r] = cache.project[r]
          /\ r # run.principal =>
                /\ db'[r] = db[r]
                /\ run.stage # "attributes" => cache'.entities[r] = cache.entities[r]
    /\ run.stage # "projects" => cache'.project = cache.project
    /\ run.stage \notin {"projects", "services", "import"} => db' = db
    /\ run.stage \notin {"projects", "services", "attributes"} => cache'.entities = cache.entities
    /\ run.stage # "attributes" => cache'.attributes = cache.attributes
    /\ run.stage = "projects" /\ Unit \notin disabled =>
          Unit \in jsonMap' /\ (run.principal = None => cache'.project[Unit] = Unit)
    /\ run.stage = "urls" /\ Unit \notin disabled => Unit \in cache'.urls
    /\ run.stage = "attributes" =>
          /\ cache'.attributes = [cache.attributes EXCEPT ![GetRealm] = AttributesOf(GetRealm)]
          /\ cache'.entities = IF Unit \in disabled THEN cache.entities ELSE Pushed

\* The unit is one of the run's own, and the stage will not come to it again.
LEMMA UnitFacts == ASSUME IInv, run.stage \in UnitStages, run.todo # <<>>
                   PROVE  /\ Unit \in Realm /\ Unit = run.todo[1] /\ Unit \in Elements(run.units)
                          /\ Unit \notin Elements(Tail(run.todo))
                          /\ Elements(run.todo) = {Unit} \cup Elements(Tail(run.todo))
                          /\ Tail(run.todo) \in Seq(Realm) /\ Running(run)
  <1>1. /\ run.todo \in Seq(Realm) /\ run.units \in Seq(Realm)
        /\ Len(run.todo) \in Nat /\ Len(run.units) \in Nat
    BY RunFacts DEF IInv
  <1>2. Running(run) /\ run.stage # "reload"
    BY DEF Running, UnitStages
  <1>3. /\ \A i, j \in 1..Len(run.units) : run.units[i] = run.units[j] => i = j
        /\ Len(run.todo) <= Len(run.units)
        /\ \A i \in 1..Len(run.todo) : run.todo[i] = run.units[i + (Len(run.units) - Len(run.todo))]
    BY <1>2 DEF IInv, RunInv
  <1> DEFINE tail == Tail(run.todo)
  <1>4. /\ Unit = run.todo[1] /\ Unit \in Realm /\ Elements(run.todo) = {Unit} \cup Elements(tail)
        /\ tail \in Seq(Realm) /\ Len(tail) = Len(run.todo) - 1 /\ Len(run.todo) # 0
        /\ \A i \in 1..Len(tail) : tail[i] = run.todo[i + 1] /\ i + 1 \in 1..Len(run.todo)
    BY <1>1, SeqFacts DEF Unit
  <1> DEFINE l == Len(run.todo)
             n == Len(run.units)
             k == n - l
  <1>5. /\ k \in Nat /\ k + 1 \in 1..Len(run.units) /\ Unit = run.units[k + 1]
        /\ \A i \in 1..Len(run.todo) : run.todo[i] = run.units[i + k] /\ i + k \in 1..Len(run.units)
    <2>1. l \in Nat /\ n \in Nat /\ l <= n /\ l # 0 /\ \A i \in 1..l : run.todo[i] = run.units[i + k]
      BY <1>1, <1>3, <1>4
    <2>2. Unit = run.todo[1]
      BY <1>4
    <2> HIDE DEF l, n
    <2>3. k \in Nat /\ k + 1 \in 1..n /\ 1 \in 1..l /\ 1 + k = k + 1 /\ \A i \in 1..l : i + k \in 1..n
      BY <2>1
    <2>4. Unit = run.units[k + 1]
      BY <2>1, <2>2, <2>3
    <2> HIDE DEF k
    <2> QED BY <2>1, <2>3, <2>4 DEF l, n
  <1> HIDE DEF tail, k
  <1>6. Unit \in Elements(run.units)
    BY <1>5 DEF Elements
  <1>7. ASSUME NEW i \in 1..Len(tail), tail[i] = Unit
        PROVE  FALSE
    <2>1. i \in Nat /\ i >= 1
      BY <1>1, <1>4
    <2>2. tail[i] = run.units[(i + 1) + k] /\ (i + 1) + k \in 1..Len(run.units)
      BY <1>4, <1>5
    <2>3. (i + 1) + k = k + 1
      BY <1>3, <1>5, <1>7, <2>2
    <2> QED BY <1>5, <2>1, <2>3
  <1>8. Unit \notin Elements(tail)
    BY <1>7 DEF Elements
  <1> QED BY <1>2, <1>4, <1>6, <1>8 DEF tail

\* The run after the step of a unit.
LEMMA UnitStepRun == ASSUME IInv, UnitStep
                     PROVE  /\ run' \in Run /\ RunInv(run)'
                            /\ run'.stage = run.stage /\ run'.units = run.units /\ run'.later = run.later
                            /\ run'.todo = Tail(run.todo) /\ run'.principal = run.principal
                            /\ run'.task = run.task /\ run'.currentRealm = InForce
                            /\ \A s \in {"projects", "urls", "attributes", "enable"} :
                                  Done(run', s) = IF s = run.stage THEN Done(run, s) \cup {Unit} ELSE Done(run, s)
  <1>1. /\ run \in Run /\ InForce \in Realm
        /\ Unit \in Elements(run.units) /\ Unit \notin Elements(Tail(run.todo))
        /\ Elements(run.todo) = {Unit} \cup Elements(Tail(run.todo)) /\ Tail(run.todo) \in Seq(Realm)
        /\ Running(run)
    BY UnitFacts, RunFacts DEF UnitStep, IInv, StateInv, InForce
  <1>2. run' = [run EXCEPT !.todo = Tail(@), !.currentRealm = InForce] /\ run.stage \in UnitStages
    BY DEF UnitStep
  <1>3. /\ run' \in Run /\ run'.stage = run.stage /\ run'.units = run.units /\ run'.later = run.later
        /\ run'.todo = Tail(run.todo) /\ run'.principal = run.principal
        /\ run'.task = run.task /\ run'.currentRealm = InForce
    BY <1>1, <1>2 DEF Run
  <1>4. /\ run.stage \in {"projects", "services", "urls", "import", "attributes", "urlsAgain", "enable"}
        /\ \A s \in {"projects", "urls", "attributes", "enable"} : s \notin After(s)
    BY <1>2 DEF UnitStages, After
  <1>5. \A s \in {"projects", "urls", "attributes", "enable"} :
            Done(run', s) = IF s = run.stage THEN Done(run, s) \cup {Unit} ELSE Done(run, s)
    BY <1>1, <1>3, <1>4 DEF Done
  <1>6. RunInv(run)'
    <2>1. /\ run.todo \in Seq(Realm) /\ run.todo # <<>> /\ run.units \in Seq(Realm)
          /\ Len(run.todo) \in Nat /\ Len(run.units) \in Nat
      BY RunFacts DEF IInv, UnitStep
    <2>2. /\ Len(run'.todo) = Len(run.todo) - 1 /\ Len(run.todo) # 0
          /\ \A i \in 1..Len(run'.todo) : run'.todo[i] = run.todo[i + 1] /\ i + 1 \in 1..Len(run.todo)
      BY <1>3, <2>1, SeqFacts
    <2>3. /\ Len(run.todo) <= Len(run.units)
          /\ \A i \in 1..Len(run.todo) : run.todo[i] = run.units[i + (Len(run.units) - Len(run.todo))]
      BY <1>1, <1>4 DEF IInv, RunInv
    <2>4. Len(run'.todo) <= Len(run.units) /\ Len(run'.todo) \in Nat
      BY <2>1, <2>2, <2>3
    <2>5. ASSUME NEW i \in 1..Len(run'.todo)
          PROVE  run'.todo[i] = run.units[i + (Len(run.units) - Len(run'.todo))]
      <3>1. run'.todo[i] = run.units[(i + 1) + (Len(run.units) - Len(run.todo))]
        BY <2>2, <2>3
      <3>2. (i + 1) + (Len(run.units) - Len(run.todo)) = i + (Len(run.units) - Len(run'.todo))
        <4> DEFINE l == Len(run.todo)
                   n == Len(run.units)
                   m == Len(run'.todo)
        <4>1. l \in Nat /\ n \in Nat /\ m = l - 1 /\ i \in Nat
          BY <2>1, <2>2
        <4> HIDE DEF l, n, m
        <4>2. (i + 1) + (n - l) = i + (n - m)
          BY <4>1
        <4> QED BY <4>2 DEF l, n, m
      <3> QED BY <3>1, <3>2
    <2>6. /\ \A i, j \in 1..Len(run.units) : run.units[i] = run.units[j] => i = j
          /\ run.principal = None => run.units = Units /\ run.later = <<>>
          /\ run.stage # "reload"
      BY <1>1, <1>4 DEF IInv, RunInv
    <2> QED BY <1>3, <2>4, <2>5, <2>6 DEF RunInv
  <1> QED BY <1>3, <1>5, <1>6

\* A unit after the last enabled one is disabled.
LEMMA LastFacts == ASSUME NEW r, NEW s, Last(r), Last(s)
                   PROVE  r = s
  <1>1. PICK i \in 1..Len(Units) : Units[i] = r /\ \A j \in (i + 1)..Len(Units) : Units[j] \in disabled
    BY DEF Last
  <1>2. PICK k \in 1..Len(Units) : Units[k] = s /\ \A j \in (k + 1)..Len(Units) : Units[j] \in disabled
    BY DEF Last
  <1>3. r \notin disabled /\ s \notin disabled /\ Len(Units) \in Nat
    BY UnitsAssumption DEF Last, Enabled
  <1>4. i = k
    BY <1>1, <1>2, <1>3
  <1> QED BY <1>1, <1>2, <1>4

\* The realm in force after the step of a unit.
LEMMA UnitStepPlace == ASSUME IInv, UnitStep
                       PROVE  PlaceInv(run)'
  <1>1. /\ run'.stage = run.stage /\ run'.units = run.units
        /\ run'.todo = Tail(run.todo) /\ run'.principal = run.principal
        /\ run'.task = run.task /\ run'.currentRealm = InForce /\ disabled' = disabled
    BY UnitStepRun DEF UnitStep
  <1>2. \A r : Last(r)' <=> Last(r)
    BY <1>1 DEF Last, Enabled
  <1>3. Enabled' = Enabled
    BY <1>1 DEF Enabled
  <1> SUFFICES ASSUME AtStartup(run), Enabled # {}
               PROVE  /\ Last(InForce) \/ \E r \in Elements(Tail(run.todo)) : Last(r)
                      /\ run.stage = "import" /\ run.task = "skip" => Last(InForce)
                      /\ run.stage # "projects" => InForce \in Enabled
    BY <1>1, <1>2, <1>3 DEF PlaceInv, AtStartup, Running
  <1>4. /\ run.stage \in UnitStages /\ run.todo # <<>> /\ run.stage \notin {"down", "up", "realms", "reload"}
    BY DEF UnitStep, UnitStages
  <1>5. /\ Unit \in Elements(run.units) /\ Unit = run.todo[1]
        /\ Elements(run.todo) = {Unit} \cup Elements(Tail(run.todo))
    BY <1>4, UnitFacts
  <1>6. /\ Last(run.currentRealm) \/ \E r \in Elements(run.todo) : Last(r)
        /\ run.stage = "import" /\ run.task = "skip" => Last(run.currentRealm)
        /\ run.stage # "projects" => run.currentRealm \in Enabled
    BY <1>4 DEF IInv, PlaceInv
  <1>7. run.units = Units
    BY DEF IInv, RunInv, AtStartup
  <1>8. CASE run.stage = "import" /\ run.task = "skip"
    BY <1>6, <1>8 DEF InForce
  <1>9. CASE ~(run.stage = "import" /\ run.task = "skip") /\ Unit \in disabled
    <2>1. ~Last(Unit)
      BY <1>9 DEF Last, Enabled
    <2> QED BY <1>5, <1>6, <1>9, <2>1 DEF InForce
  <1>10. CASE ~(run.stage = "import" /\ run.task = "skip") /\ Unit \notin disabled
    <2>1. InForce = Unit /\ Unit \in Enabled
      BY <1>5, <1>7, <1>10 DEF InForce, Enabled
    <2>2. CASE Last(Unit)
      BY <1>10, <2>1, <2>2
    <2>3. CASE \E r \in Elements(run.todo) : Last(r) /\ r # Unit
      BY <1>5, <1>10, <2>1, <2>3
    <2>4. CASE Last(run.currentRealm) /\ run.currentRealm \notin Elements(run.todo)
      <3> DEFINE k == Len(Units) - Len(run.todo)
      <3>1. /\ Len(run.todo) \in Nat /\ Len(Units) \in Nat /\ Len(run.todo) <= Len(Units)
            /\ run.todo \in Seq(Realm) /\ Len(run.todo) # 0
            /\ \A i \in 1..Len(run.todo) : run.todo[i] = Units[i + k]
        BY <1>4, <1>7, RunFacts, SeqFacts DEF IInv, RunInv, AtStartup
      <3>2. PICK i \in 1..Len(Units) : /\ Units[i] = run.currentRealm
                                       /\ \A j \in (i + 1)..Len(Units) : Units[j] \in disabled
        BY <2>4 DEF Last
      <3> DEFINE l == Len(run.todo)
                 n == Len(Units)
      <3>3. l \in Nat /\ n \in Nat /\ l <= n /\ l # 0 /\ k = n - l /\ i \in 1..n
        BY <3>1
      <3> HIDE DEF l, n, k
      <3>4. k \in Nat /\ k + 1 \in 1..n /\ 1 \in 1..l /\ 1 + k = k + 1
        BY <3>3
      <3>5. Units[k + 1] = Unit
        BY <1>5, <3>1, <3>4 DEF l
      <3>6. k + 1 \notin (i + 1)..n
        BY <1>10, <3>2, <3>5 DEF n
      <3>7. i - k \in 1..l /\ (i - k) + k = i
        BY <3>3, <3>4, <3>6
      <3>8. run.todo[i - k] = run.currentRealm
        BY <3>1, <3>2, <3>7 DEF l
      <3>9. run.currentRealm \in Elements(run.todo)
        BY <3>7, <3>8 DEF Elements, l
      <3> QED BY <2>4, <3>9
    <2>5. CASE Last(run.currentRealm) /\ run.currentRealm \in Elements(run.todo)
      BY <1>5, <1>10, <2>1, <2>5
    <2> QED BY <1>6, <2>2, <2>3, <2>4, <2>5
  <1> QED BY <1>8, <1>9, <1>10

\* The step of a unit keeps what is said of the units that the stages are through with.
LEMMA UnitStepDone == ASSUME IInv, UnitStep
                      PROVE  DoneInv'
  <1>1. /\ Unit \in Realm /\ Running(run) /\ run.stage \in UnitStages
        /\ disabled' = disabled /\ run'.stage = run.stage /\ run'.principal = run.principal
        /\ \A s \in {"projects", "urls", "attributes", "enable"} :
              Done(run', s) = IF s = run.stage THEN Done(run, s) \cup {Unit} ELSE Done(run, s)
    BY UnitStepRun, UnitFacts DEF UnitStep
  <1>2. run.principal = run'.principal /\ (AtStartup(run') <=> AtStartup(run))
    BY <1>1 DEF AtStartup, Running
  <1> SUFFICES ASSUME NEW r \in Realm, r \notin disabled
               PROVE  /\ r \in Done(run', "projects") =>
                            r \in jsonMap' /\ (AtStartup(run) => cache'.project[r] = r)
                      /\ r \in Done(run', "urls") => r \in cache'.urls
                      /\ r \in Done(run', "attributes") => RowsCached(r)'
    BY <1>1, <1>2 DEF DoneInv
  <1>3. /\ r \in Done(run, "projects") =>
              r \in jsonMap /\ (AtStartup(run) => cache.project[r] = r)
        /\ r \in Done(run, "urls") => r \in cache.urls
        /\ r \in Done(run, "attributes") => RowsCached(r)
    BY DEF IInv, DoneInv
  <1>4. r \in Done(run', "projects") => r \in jsonMap' /\ (AtStartup(run) => cache'.project[r] = r)
    BY <1>1, <1>3 DEF UnitStep, AtStartup
  <1>5. r \in Done(run', "urls") => r \in cache'.urls
    BY <1>1, <1>3 DEF UnitStep
  <1>6. r \in Done(run', "attributes") => RowsCached(r)'
    <2>1. CASE run.stage \in {"projects", "services", "urls", "import"}
      BY <1>1, <2>1 DEF Done, After
    <2>2. CASE run.stage = "attributes"
      <3>1. db' = db /\ cache'.entities = IF Unit \in disabled THEN cache.entities ELSE Pushed
        BY <2>2 DEF UnitStep
      <3>2. \A h \in Realm : \A c \in Code : Selected(r, h, c)' <=> Selected(r, h, c)
        BY <3>1 DEF Selected
      <3>3. CASE r \in Done(run, "attributes")
        BY <1>3, <3>1, <3>2, <3>3 DEF RowsCached, Pushed
      <3>4. CASE r = Unit
        BY <3>1, <3>2, <3>4 DEF RowsCached, Pushed
      <3> QED BY <1>1, <2>2, <3>3, <3>4
    <2>3. CASE run.stage \in {"urlsAgain", "enable"}
      <3>1. db' = db /\ cache'.entities = cache.entities
        BY <2>3 DEF UnitStep
      <3>2. RowsCached(r)' <=> RowsCached(r)
        BY <3>1 DEF RowsCached, Selected
      <3> QED BY <1>1, <1>3, <2>3, <3>2
    <2> QED BY <1>1, <2>1, <2>2, <2>3 DEF UnitStages
  <1> QED BY <1>4, <1>5, <1>6

\* It keeps what is said of the attributes: pushToDTT writes those of the realm in force.
LEMMA UnitStepFresh == ASSUME IInv, UnitStep
                       PROVE  FreshInv'
  <1>1. /\ Unit \in Realm /\ run.stage \in UnitStages /\ run.todo # <<>>
        /\ disabled' = disabled /\ run'.stage = run.stage /\ run'.principal = run.principal
        /\ run'.todo = Tail(run.todo) /\ run'.currentRealm = InForce
        /\ Elements(run.todo) = {Unit} \cup Elements(Tail(run.todo))
    BY UnitStepRun, UnitFacts DEF UnitStep
  <1>2. AtStartup(run') <=> AtStartup(run)
    BY <1>1 DEF AtStartup, Running
  <1>3. Enabled' = Enabled /\ \A r : Last(r)' <=> Last(r)
    BY <1>1 DEF Enabled, Last
  <1>4. ASSUME NEW r \in Realm, run.stage \notin {"projects", "services", "import"}, Fresh(r) \/ (run.stage = "attributes" /\ r = GetRealm)
        PROVE  Fresh(r)'
    <2>1. db' = db /\ AttributesOf(r)' = AttributesOf(r)
      BY <1>4 DEF UnitStep, AttributesOf
    <2>2. cache'.attributes[r] = AttributesOf(r)
      <3>1. cache.attributes \in [Realm -> AttributeList \cup {None}]
        BY StoreFacts DEF IInv
      <3> QED BY <1>4, <3>1 DEF UnitStep, Fresh
    <2> QED BY <2>1, <2>2 DEF Fresh
  <1>5. CASE AtStartup(run) /\ run.stage = "attributes"
    <2>1. GetRealm = run.currentRealm
      BY <1>5 DEF GetRealm, AtStartup
    <2>2. Enabled \subseteq Realm
      BY UnitsAssumption, SeqFacts DEF Enabled
    <2>3. ASSUME NEW r \in Enabled
          PROVE  Fresh(r)' \/ r \in Elements(Tail(run.todo)) \/ r = InForce
      <3>1. Fresh(r) \/ r \in Elements(run.todo) \/ r = run.currentRealm
        BY <1>5 DEF IInv, FreshInv
      <3>2. r = Unit => r = InForce
        BY <1>5 DEF InForce, Enabled
      <3> QED BY <1>1, <1>4, <1>5, <2>1, <2>2, <3>1, <3>2
    <2>4. ASSUME NEW r \in Enabled, Last(r)
          PROVE  Fresh(r)'
      <3>1. Fresh(r) \/ r = run.currentRealm
        BY <1>5, <2>4 DEF IInv, FreshInv
      <3> QED BY <1>4, <1>5, <2>1, <2>2, <3>1
    <2>5. run'.stage = "attributes" /\ run'.stage \notin After("attributes")
      BY <1>1, <1>5 DEF After
    <2> QED BY <1>1, <1>3, <2>3, <2>4, <2>5 DEF FreshInv
  <1>6. CASE AtStartup(run) /\ run.stage \in After("attributes")
    <2>1. run.stage \notin {"attributes", "projects", "services", "import"}
      BY <1>6 DEF After
    <2>2. \A r \in Enabled : r \in Realm /\ Fresh(r)
      BY <1>6, UnitsAssumption, SeqFacts DEF IInv, FreshInv, Enabled
    <2> QED BY <1>1, <1>3, <1>4, <2>1, <2>2 DEF FreshInv
  <1>7. CASE ~AtStartup(run) \/ (run.stage # "attributes" /\ run.stage \notin After("attributes"))
    BY <1>1, <1>2, <1>7 DEF FreshInv
  <1> QED BY <1>5, <1>6, <1>7

\* It changes rows of the unit's realm, if it is enabled, and of the user's only.
LEMMA UnitStepRows == ASSUME IInv, UnitStep
                      PROVE  RowsInv'
  <1>1. /\ Running(run) /\ run'.stage = run.stage /\ run'.principal = run.principal
        /\ disabled' = disabled /\ committed' = committed /\ disabled \subseteq Realm
    BY UnitStepRun, UnitFacts DEF UnitStep, IInv, StateInv
  <1>2. ASSUME NEW r \in disabled, run.principal # r
        PROVE  db'[r] = committed[r]
    <2>1. db[r] = committed[r]
      BY <1>2 DEF IInv, RowsInv
    <2> QED BY <1>1, <1>2, <2>1 DEF UnitStep
  <1> QED BY <1>1, <1>2 DEF RowsInv, Running

\* The step of a unit keeps the invariant.
LEMMA UnitStepKeeps == ASSUME IInv, UnitStep
                       PROVE  IInv'
  <1>1. StateInv'
    BY UnitStepRun, UnitFacts DEF UnitStep, IInv, StateInv
  <1>2. RealmsInv'
    BY UnitStepRun DEF UnitStep, UnitStages, RealmsInv
  <1> QED BY <1>1, <1>2, UnitStepRun, UnitStepPlace, UnitStepDone, UnitStepFresh, UnitStepRows
          DEF IInv

----------------------------------------------------------------------------
\* If a unit is enabled then one of them is the last.
LEMMA LastExists == Enabled # {} => \E r \in Elements(Units) : Last(r)
  <1> SUFFICES ASSUME Enabled # {} PROVE \E r \in Elements(Units) : Last(r)
    OBVIOUS
  <1> DEFINE n == Len(Units)
             S == {m \in Nat : \E i \in 1..n : Units[i] \notin disabled /\ m = n - i}
  <1>1. n \in Nat
    BY UnitsAssumption
  <1>2. PICK k \in 1..n : Units[k] \notin disabled
    BY DEF Enabled, Elements
  <1>3. S # {}
    <2>1. n - k \in Nat
      <3> HIDE DEF n
      <3> QED BY <1>1
    <2> QED BY <1>2, <2>1
  <1>4. PICK m \in S : \A l \in S : m <= l
    <2> DEFINE R == OpToRel(<, Nat)
    <2>1. IsWellFoundedOn(R, Nat)
      BY NatLessThanWellFounded
    <2>2. S \subseteq Nat
      OBVIOUS
    <2>3. \A l, m \in Nat : l < m => <<l, m>> \in R
      BY DEF OpToRel
    <2> HIDE DEF S, R
    <2>4. PICK m \in S : \A l \in S : ~(<<l, m>> \in R)
      BY <1>3, <2>1, <2>2, WFMin
    <2>5. ASSUME NEW l \in S
          PROVE  m <= l
      <3>1. l \in Nat /\ m \in Nat /\ ~(l < m)
        BY <2>2, <2>3, <2>4
      <3> QED BY <3>1
    <2> QED BY <2>4, <2>5
  <1>5. PICK i \in 1..n : Units[i] \notin disabled /\ m = n - i
    BY <1>4
  <1>6. ASSUME NEW j \in (i + 1)..n
        PROVE  Units[j] \in disabled
    <2>1. /\ j \in 1..n /\ n - j \in Nat /\ ~(m <= n - j)
      <3>1. m = n - i /\ i \in 1..n
        BY <1>5
      <3> HIDE DEF n, S
      <3> QED BY <1>1, <3>1
    <2>2. Units[j] \notin disabled => n - j \in S
      BY <2>1
    <2> HIDE DEF S
    <2> QED BY <1>4, <2>1, <2>2
  <1>7. Units[i] \in Elements(Units)
    BY <1>5 DEF Elements
  <1> QED BY <1>5, <1>6, <1>7 DEF Last, Enabled

\* A row that an upsert writes, in the database and perhaps in the cache.
LEMMA UpsertFacts ==
    ASSUME StateInv, Unit \in Realm, NEW code \in Realm \cup {PER_SERVICE}, Upsert(code)
    PROVE  /\ db' \in Database /\ cache' \in Cache
           /\ \A r \in Realm : r # Home => db'[r] = db[r] /\ cache'.entities[r] = cache.entities[r]
           /\ cache'.attributes = cache.attributes /\ cache'.urls = cache.urls
           /\ \A r \in Realm : r # Unit => cache'.project[r] = cache.project[r]
           /\ cache'.project[Unit] = IF code = Unit THEN Home ELSE cache.project[Unit]
  <1>1. /\ db \in [Realm -> [Code -> Row \cup {None}]] /\ cache \in Cache
        /\ cache.project \in [Realm -> Realm \cup {None}]
        /\ cache.entities \in [Realm -> [Code -> Content \cup {None}]]
    BY StoreFacts DEF StateInv
  <1>2. Home \in Realm /\ code \in Code
    BY RunFacts DEF Home, Code
  <1> DEFINE row == [of |-> Unit, version |-> 0, attributes |-> {Home}]
             content == [of |-> Unit, version |-> 0]
             project == IF code = Unit THEN Home ELSE cache.project[Unit]
             entry == IF UpsertWrites THEN content ELSE cache.entities[Home][code]
  <1>3. row \in Row /\ content \in Content
    BY <1>2, BoundsAssumption DEF Row, Content, Version
  <1>4. project \in Realm \cup {None} /\ entry \in Content \cup {None}
    BY <1>1, <1>2, <1>3
  <1>5. /\ db' = [db EXCEPT ![Home][code] = row]
        /\ cache' = [cache EXCEPT !.project[Unit] = project, !.entities[Home][code] = entry]
    BY DEF Upsert
  <1> HIDE DEF row, project, entry
  <1>6. db' \in Database /\ \A r \in Realm : r # Home => db'[r] = db[r]
    BY <1>1, <1>2, <1>3, <1>5 DEF Database
  <1>7. /\ cache'.project = [cache.project EXCEPT ![Unit] = project]
        /\ cache'.entities = [cache.entities EXCEPT ![Home][code] = entry]
        /\ cache'.attributes = cache.attributes /\ cache'.urls = cache.urls
        /\ cache'.realms = cache.realms
        /\ cache' = [project |-> cache'.project, attributes |-> cache'.attributes,
                     entities |-> cache'.entities, urls |-> cache'.urls, realms |-> cache'.realms]
    BY <1>1, <1>5 DEF Cache
  <1>8. /\ cache'.project \in [Realm -> Realm \cup {None}]
        /\ cache'.entities \in [Realm -> [Code -> Content \cup {None}]]
    BY <1>1, <1>2, <1>4, <1>7
  <1>9. cache' \in Cache
    BY <1>1, <1>7, <1>8 DEF Cache
  <1>10. /\ \A r \in Realm : r # Home => cache'.entities[r] = cache.entities[r]
         /\ \A r \in Realm : r # Unit => cache'.project[r] = cache.project[r]
         /\ cache'.project[Unit] = project
    BY <1>1, <1>7
  <1> QED BY <1>6, <1>7, <1>9, <1>10 DEF project

\* The rows that an import leaves are rows, and only those of the unit's realm and of the
\* realm they move to have changed.
LEMMA ImportedFacts ==
    ASSUME StateInv, Unit \in Realm, NEW codes \in SUBSET SheetCode
    PROVE  /\ Imported(codes) \in Database
           /\ \A r \in Realm : r # Unit /\ r # Home => Imported(codes)[r] = db[r]
  <1>1. db \in [Realm -> [Code -> Row \cup {None}]] /\ sheet \in [Realm -> [SheetCode -> Version]]
    BY StoreFacts DEF StateInv
  <1>2. ASSUME NEW c \in codes
        PROVE  RowOf(c) \in Row
    <2>1. c \in Code /\ sheet[Unit][c] \in Version /\ db[Unit][c] \in Row \cup {None}
      BY <1>1 DEF Code
    <2>2. db[Unit][c] # None => db[Unit][c].attributes \subseteq Realm
      BY <2>1 DEF Row
    <2> QED BY <2>1, <2>2 DEF RowOf, Row
  <1>3. Imported(codes) \in Database
    BY <1>1, <1>2 DEF Imported, Database
  <1>4. ASSUME NEW r \in Realm, r # Unit, r # Home
        PROVE  Imported(codes)[r] = db[r]
    <2>1. \A c \in Code : r # Target(c)
      BY <1>4 DEF Target
    <2>2. Imported(codes)[r] = [c \in Code |-> db[r][c]]
      BY <1>4, <2>1 DEF Imported
    <2>3. db[r] = [c \in Code |-> db[r][c]]
      BY <1>1, <1>4
    <2> QED BY <2>2, <2>3
  <1> QED BY <1>3, <1>4

\* What pushToDTT puts in the cache are contents of rows.
LEMMA PushedFacts == ASSUME StateInv
                     PROVE  Pushed \in [Realm -> [Code -> Content \cup {None}]]
  <1>1. /\ db \in [Realm -> [Code -> Row \cup {None}]]
        /\ cache.entities \in [Realm -> [Code -> Content \cup {None}]]
    BY StoreFacts
  <1>2. \A h \in Realm : \A c \in Code : ContentOf(db[h][c]) \in Content \cup {None}
    BY <1>1, ContentFacts
  <1> QED BY <1>1, <1>2 DEF Pushed

\* Each stage does the step of a unit.
LEMMA UnitsStep == ASSUME IInv,
                          SaveProject \/ SaveService \/ PushUrls \/ Import \/ PushToDTT \/ SetEnabledRealm
                   PROVE  UnitStep
  <1>1. /\ run.todo # <<>> /\ run.stage \in UnitStages
        /\ disabled' = disabled /\ sheet' = sheet /\ committed' = committed
    BY DEF SaveProject, SaveService, PushUrls, Import, PushToDTT, SetEnabledRealm, At, UnitStages,
           Outside
  <1>2. /\ Unit \in Realm /\ GetRealm \in Realm /\ StateInv
        /\ db \in Database /\ cache \in Cache /\ jsonMap \subseteq Realm
        /\ localhost \in Realm \cup {None} /\ attributeMap \in [Realm -> SUBSET Realm]
    BY <1>1, UnitFacts, RunFacts DEF IInv, StateInv
  <1>3. Home \in Realm /\ Home \in {Unit, run.principal} /\ (run.principal = None => Home = Unit)
    BY <1>2, RunFacts DEF Home
  <1>4. CASE SaveProject
    <2>1. run.stage = "projects" /\ run' = [run EXCEPT !.todo = Tail(@), !.currentRealm = InForce]
      BY <1>4 DEF SaveProject, At, Visited, DoneWith, InForce
    <2>2. CASE Unit \in disabled
      BY <1>1, <1>2, <1>4, <2>1, <2>2 DEF SaveProject, UnitStep
    <2>3. CASE Unit \notin disabled
      <3>1. /\ Upsert(Unit) /\ jsonMap' = jsonMap \cup {Unit} /\ localhost' = Unit
            /\ attributeMap' = attributeMap /\ started' = started
        BY <1>4, <2>3 DEF SaveProject
      <3>2. /\ db' \in Database /\ cache' \in Cache
            /\ \A r \in Realm : r # Home => db'[r] = db[r] /\ cache'.entities[r] = cache.entities[r]
            /\ cache'.attributes = cache.attributes /\ cache'.urls = cache.urls
            /\ \A r \in Realm : r # Unit => cache'.project[r] = cache.project[r]
            /\ cache'.project[Unit] = Home
        BY <1>2, <3>1, UpsertFacts
      <3> QED BY <1>1, <1>2, <1>3, <2>1, <2>3, <3>1, <3>2 DEF UnitStep
    <2> QED BY <2>2, <2>3
  <1>5. CASE SaveService
    <2>1. /\ run.stage = "services" /\ run' = [run EXCEPT !.todo = Tail(@), !.currentRealm = InForce]
          /\ jsonMap' = jsonMap /\ localhost' = localhost
          /\ attributeMap' = attributeMap /\ started' = started
      BY <1>5 DEF SaveService, At, Visited, DoneWith, InForce
    <2>2. CASE Unit \in disabled
      BY <1>1, <1>2, <1>5, <2>1, <2>2 DEF SaveService, UnitStep
    <2>3. CASE Unit \notin disabled
      <3>1. Upsert(PER_SERVICE) /\ PER_SERVICE # Unit
        BY <1>2, <1>5, <2>3, CodesAssumption DEF SaveService
      <3>2. /\ db' \in Database /\ cache' \in Cache
            /\ \A r \in Realm : r # Home => db'[r] = db[r] /\ cache'.entities[r] = cache.entities[r]
            /\ cache'.attributes = cache.attributes /\ cache'.urls = cache.urls
            /\ \A r \in Realm : cache'.project[r] = cache.project[r]
        BY <1>2, <3>1, UpsertFacts
      <3>3. cache'.project = cache.project
        BY <1>2, <3>2 DEF Cache
      <3> QED BY <1>1, <1>2, <1>3, <2>1, <2>3, <3>2, <3>3 DEF UnitStep
    <2> QED BY <2>2, <2>3
  <1>6. CASE SetEnabledRealm
    <2>1. run.stage = "enable" /\ run' = [run EXCEPT !.todo = Tail(@), !.currentRealm = InForce]
      BY <1>6 DEF SetEnabledRealm, At, Visited, DoneWith, InForce
    <2>2. /\ db' = db /\ cache' = cache /\ jsonMap' = jsonMap /\ localhost' = localhost
          /\ attributeMap' = attributeMap
          /\ started' = started \cup ({Unit} \ disabled)
      BY <1>6 DEF SetEnabledRealm, At
    <2> QED BY <1>1, <1>2, <2>1, <2>2 DEF UnitStep
  <1>7. CASE PushUrls
    <2>1. /\ run.stage \in {"urls", "urlsAgain"}
          /\ run' = [run EXCEPT !.todo = Tail(@), !.currentRealm = InForce]
      BY <1>7 DEF PushUrls, At, Visited, DoneWith, InForce
    <2>2. /\ db' = db /\ jsonMap' = jsonMap /\ localhost' = localhost
          /\ attributeMap' = attributeMap /\ started' = started
          /\ cache' = IF Unit \in disabled THEN cache ELSE [cache EXCEPT !.urls = @ \cup {Unit}]
      BY <1>7 DEF PushUrls
    <2>3. /\ cache' \in Cache /\ cache'.project = cache.project
          /\ cache'.attributes = cache.attributes /\ cache'.entities = cache.entities
          /\ cache'.urls = cache.urls \cup ({Unit} \ disabled)
      BY <1>2, <2>2 DEF Cache
    <2> QED BY <1>1, <1>2, <2>1, <2>2, <2>3 DEF UnitStep
  <1>8. CASE Import
    <2>1. run.stage = "import" /\ run' = [run EXCEPT !.todo = Tail(@), !.currentRealm = InForce]
      BY <1>8 DEF Import, At, Visited, DoneWith, InForce
    <2>2. /\ cache' = cache /\ jsonMap' = jsonMap /\ localhost' = localhost
          /\ attributeMap' = attributeMap /\ started' = started
      BY <1>8 DEF Import
    <2>3. run.task \in {"skip", "import", "delete"}
      BY <1>2, RunFacts DEF Task
    <2>4. CASE run.task = "skip" \/ Unit \in disabled
      <3>1. db' = db
        BY <1>8, <2>4 DEF Import
      <3> QED BY <1>1, <1>2, <2>1, <2>2, <3>1 DEF UnitStep
    <2>5. CASE run.task = "import" /\ Unit \notin disabled
      <3>1. PICK codes \in Due : db' = Imported(codes)
        BY <1>8, <2>5 DEF Import
      <3>2. codes \in SUBSET SheetCode
        BY DEF Due, InSheet
      <3>3. db' \in Database /\ \A r \in Realm : r # Unit /\ r # Home => db'[r] = db[r]
        BY <1>2, <3>1, <3>2, ImportedFacts
      <3> QED BY <1>1, <1>2, <1>3, <2>1, <2>2, <2>5, <3>3 DEF UnitStep
    <2>6. CASE run.task = "delete" /\ Unit \notin disabled
      <3>1. PICK codes \in SUBSET Gone :
                db' = [db EXCEPT ![Unit] = [c \in Code |-> IF c \in codes THEN None ELSE db[Unit][c]]]
        BY <1>8, <2>6 DEF Import
      <3>2. db' \in Database /\ \A r \in Realm : r # Unit => db'[r] = db[r]
        BY <1>2, <3>1 DEF Database
      <3> QED BY <1>1, <1>2, <2>1, <2>2, <2>6, <3>2 DEF UnitStep
    <2> QED BY <2>3, <2>4, <2>5, <2>6
  <1>9. CASE PushToDTT
    <2>1. run.stage = "attributes" /\ run' = [run EXCEPT !.todo = Tail(@), !.currentRealm = InForce]
      BY <1>9 DEF PushToDTT, At, Visited, DoneWith, InForce
    <2> DEFINE entities == IF Unit \in disabled THEN cache.entities ELSE Pushed
    <2>2. /\ db' = db /\ jsonMap' = jsonMap /\ localhost' = localhost /\ started' = started
          /\ cache' = [cache EXCEPT !.attributes[GetRealm] = AttributesOf(GetRealm), !.entities = entities]
          /\ attributeMap' = AttributesRead
      BY <1>9 DEF PushToDTT
    <2>3. attributeMap' \in [Realm -> SUBSET Realm]
      BY <1>2, <2>2 DEF AttributesRead
    <2>4. /\ entities \in [Realm -> [Code -> Content \cup {None}]]
          /\ AttributesOf(GetRealm) \in AttributeList
      BY <1>2, StoreFacts, PushedFacts
    <2> HIDE DEF entities
    <2>5. /\ cache' \in Cache /\ cache'.project = cache.project /\ cache'.entities = entities
          /\ cache'.attributes = [cache.attributes EXCEPT ![GetRealm] = AttributesOf(GetRealm)]
          /\ cache'.urls = cache.urls
      BY <1>2, <2>2, <2>4 DEF Cache
    <2> QED BY <1>1, <1>2, <2>1, <2>2, <2>3, <2>5 DEF UnitStep, entities
  <1> QED BY <1>4, <1>5, <1>6, <1>7, <1>8, <1>9

----------------------------------------------------------------------------
\* The empty sequence.
LEMMA EmptyFacts == Elements(<<>>) = {} /\ Len(<<>>) = 0 /\ <<>> \in Seq(Realm)
  BY DEF Elements

\* A run begins with distinct units, all of them at startup, on the committed rows or, for the
\* next unit of a request, on those that the request has left.
RunBegins(units, later, p, task) ==
    /\ units \in Seq(Realm) /\ later \in Seq(Realm) /\ p \in Realm \cup {None} /\ task \in Task
    /\ \A i, j \in 1..Len(units) : units[i] = units[j] => i = j
    /\ p = None => units = Units /\ later = <<>>
    /\ run' = NewRun(units, later, p, task)
    /\ UNCHANGED <<disabled, sheet, committed, db, cache, jsonMap, localhost, attributeMap>>
    /\ started' \subseteq Realm
    /\ db = committed \/ p = run.principal

\* A run that begins keeps the invariant.
LEMMA BeginKeeps == ASSUME IInv, NEW units, NEW later, NEW p, NEW task, RunBegins(units, later, p, task)
                    PROVE  IInv'
  <1>1. /\ run' \in Run /\ run'.stage = "projects" /\ run'.todo = units /\ run'.units = units
        /\ run'.later = later /\ run'.principal = p /\ Running(run')
        /\ \A s \in {"projects", "urls", "attributes", "enable"} : Done(run', s) = {}
    <2>1. /\ units \in Seq(Realm) /\ later \in Seq(Realm) /\ p \in Realm \cup {None} /\ task \in Task
          /\ run' = NewRun(units, later, p, task)
      BY DEF RunBegins
    <2> QED BY <2>1, NewRunFacts
  <1>2. StateInv'
    BY <1>1 DEF RunBegins, IInv, StateInv
  <1>3. RunInv(run)'
    <2>1. Len(units) \in Nat /\ \A i \in 1..Len(units) : units[i] = units[i + (Len(units) - Len(units))]
      BY SeqFacts DEF RunBegins
    <2> QED BY <1>1, <2>1 DEF RunBegins, RunInv
  <1>4. PlaceInv(run)'
    <2>1. Enabled' = Enabled /\ \A r : Last(r)' <=> Last(r)
      BY DEF RunBegins, Enabled, Last
    <2>2. p = None /\ Enabled # {} => \E r \in Elements(units) : Last(r)
      BY LastExists DEF RunBegins
    <2> QED BY <1>1, <2>1, <2>2 DEF PlaceInv, AtStartup
  <1>5. DoneInv'
    BY <1>1 DEF DoneInv
  <1>6. FreshInv' /\ RealmsInv'
    BY <1>1 DEF FreshInv, RealmsInv, After
  <1>7. RowsInv'
    <2>1. disabled' = disabled /\ db' = db /\ committed' = committed /\ (db = committed \/ p = run.principal)
      BY DEF RunBegins
    <2>2. ASSUME NEW r \in disabled, p # r
          PROVE  db[r] = committed[r]
      BY <2>1, <2>2 DEF IInv, RowsInv
    <2> QED BY <1>1, <2>1, <2>2 DEF RowsInv
  <1> QED BY <1>2, <1>3, <1>4, <1>5, <1>6, <1>7 DEF IInv

\* A startup begins with all units.
LEMMA StartKeeps == ASSUME IInv, Start
                    PROVE  IInv'
  <1>1. PICK task \in {"skip", "import"} : run' = NewRun(Units, <<>>, None, task)
    BY DEF Start
  <1>2. /\ UNCHANGED <<disabled, sheet, committed, db, cache, jsonMap, localhost, attributeMap>>
        /\ started' \subseteq Realm /\ db = committed /\ task \in Task
    BY DEF Start, Outside, IInv, StateInv, RowsInv, Running, Task
  <1>3. RunBegins(Units, <<>>, None, task)
    BY <1>1, <1>2, UnitsAssumption, EmptyFacts DEF RunBegins
  <1> QED BY <1>3, BeginKeeps

\* A run begins with the first of a request's units and leaves the others for later.
LEMMA HeadFacts == ASSUME NEW s \in Seq(Realm), s # <<>>
                   PROVE  /\ <<Head(s)>> \in Seq(Realm) /\ Tail(s) \in Seq(Realm)
                          /\ \A i, j \in 1..Len(<<Head(s)>>) : <<Head(s)>>[i] = <<Head(s)>>[j] => i = j
  <1>1. Head(s) \in Realm /\ Tail(s) \in Seq(Realm) /\ Len(<<Head(s)>>) = 1
    BY SeqFacts
  <1>2. \A i, j \in 1..Len(<<Head(s)>>) : i = j
    BY <1>1
  <1>3. <<Head(s)>> \in Seq(Realm)
    BY <1>1
  <1> QED BY <1>1, <1>2, <1>3

\* A request begins with its first unit.
LEMMA RequestKeeps == ASSUME IInv, NEW p \in Realm, Request(p)
                      PROVE  IInv'
  <1>1. PICK task \in Task : \E units \in Batches : run' = NewRun(<<Head(units)>>, Tail(units), p, task)
    BY DEF Request
  <1>2. PICK units \in Batches : run' = NewRun(<<Head(units)>>, Tail(units), p, task)
    BY <1>1
  <1>3. /\ UNCHANGED <<disabled, sheet, committed, db, cache, jsonMap, localhost, attributeMap>>
        /\ started' = {} /\ p # None /\ db = committed
    BY NoneAssumption DEF Request, IInv, RowsInv, Running
  <1>4. units \in Seq(Realm) /\ units # <<>>
    <2>1. PICK n \in 1..Len(Units) : units \in [1..n -> Elements(Units)]
      BY DEF Batches
    <2>2. Elements(Units) \subseteq Realm /\ n \in Nat /\ n # 0
      BY UnitsAssumption, SeqFacts
    <2>3. units \in [1..n -> Realm]
      BY <2>1, <2>2
    <2>4. units \in Seq(Realm) /\ Len(units) = n
      BY <2>2, <2>3
    <2> QED BY <2>2, <2>4
  <1> DEFINE first == <<Head(units)>>
             rest == Tail(units)
  <1>5. /\ first \in Seq(Realm) /\ rest \in Seq(Realm)
        /\ \A i, j \in 1..Len(first) : first[i] = first[j] => i = j
        /\ run' = NewRun(first, rest, p, task)
    BY <1>2, <1>4, HeadFacts
  <1> HIDE DEF first, rest
  <1>6. RunBegins(first, rest, p, task)
    BY <1>3, <1>5 DEF RunBegins
  <1> QED BY <1>6, BeginKeeps

\* A request goes on to its next unit.
LEMMA NextUnitKeeps == ASSUME IInv, NextUnit
                       PROVE  IInv'
  <1>1. /\ run.stage = "reload" /\ run.later # <<>>
        /\ run' = NewRun(<<Head(run.later)>>, Tail(run.later), run.principal, run.task)
        /\ UNCHANGED <<disabled, sheet, committed, db, cache, jsonMap, localhost, attributeMap>>
        /\ started' = started
    BY DEF NextUnit, Outside
  <1>2. /\ run.later \in Seq(Realm) /\ run.principal \in Realm \cup {None} /\ run.task \in Task
        /\ run.principal # None /\ started \subseteq Realm
    BY <1>1, RunFacts DEF IInv, StateInv, RunInv, Running
  <1> DEFINE first == <<Head(run.later)>>
             rest == Tail(run.later)
  <1>3. /\ first \in Seq(Realm) /\ rest \in Seq(Realm)
        /\ \A i, j \in 1..Len(first) : first[i] = first[j] => i = j
        /\ run' = NewRun(first, rest, run.principal, run.task)
    BY <1>1, <1>2, HeadFacts
  <1> HIDE DEF first, rest
  <1>4. RunBegins(first, rest, run.principal, run.task)
    BY <1>1, <1>2, <1>3 DEF RunBegins
  <1> QED BY <1>4, BeginKeeps

----------------------------------------------------------------------------
\* The stage that follows another.
LEMMA StageFacts == ASSUME NEW stage \in UnitStages
                    PROVE  LET next == StageAfter(stage) IN
                           /\ next \in Stage \ {"down", "up", "projects", "reload"}
                           /\ next = "attributes" => stage = "import"
                           /\ \A s \in {"projects", "urls", "attributes", "enable"} :
                                 /\ next \in After(s) <=> stage = s \/ stage \in After(s)
                                 /\ stage \notin After(stage) \/ stage \notin {"projects", "urls", "attributes", "enable"}
                                 /\ next = s => stage # s /\ stage \notin After(s) /\ next \notin After(s)
  <1>1. \/ stage = "projects" \/ stage = "services" \/ stage = "urls" \/ stage = "import"
        \/ stage = "attributes" \/ stage = "urlsAgain" \/ stage = "enable"
    BY DEF UnitStages
  <1>2. StageAfter(stage) = CASE stage = "projects" -> "services" [] stage = "services" -> "urls"
          [] stage = "urls" -> "import" [] stage = "import" -> "attributes"
          [] stage = "attributes" -> "urlsAgain" [] stage = "urlsAgain" -> "enable"
          [] stage = "enable" -> "realms"
    BY DEF StageAfter
  <1> QED BY <1>1, <1>2 DEF After, Stage

\* The next stage begins with all units of the run, and finds the last enabled one in force.
LEMMA NextStageKeeps == ASSUME IInv, NextStage
                        PROVE  IInv'
  <1> DEFINE next == StageAfter(run.stage)
  <1>1. /\ run.stage \in UnitStages /\ run.todo = <<>>
        /\ UNCHANGED <<disabled, sheet, committed, db, cache, jsonMap, localhost, attributeMap, started>>
        /\ run' = [run EXCEPT !.stage = next, !.todo = IF next = "realms" THEN <<>> ELSE run.units]
    BY RunFacts DEF NextStage, Outside, IInv, Stage, UnitStages
  <1>2. /\ next \in Stage \ {"down", "up", "projects", "reload"}
        /\ next = "attributes" => run.stage = "import"
        /\ \A s \in {"projects", "urls", "attributes", "enable"} :
              /\ next \in After(s) <=> run.stage = s \/ run.stage \in After(s)
              /\ next = s => run.stage # s /\ run.stage \notin After(s) /\ next \notin After(s)
    BY <1>1, StageFacts
  <1> HIDE DEF next
  <1>3. /\ run \in Run /\ run.todo \in Seq(Realm) /\ run.units \in Seq(Realm) /\ <<>> \in Seq(Realm)
        /\ Len(run.units) \in Nat
    BY RunFacts DEF IInv, StateInv
  <1>4. /\ run' \in Run /\ run'.stage = next /\ run'.units = run.units /\ run'.later = run.later
        /\ run'.todo = (IF next = "realms" THEN <<>> ELSE run.units)
        /\ run'.principal = run.principal /\ run'.currentRealm = run.currentRealm
        /\ run'.task = run.task
    BY <1>1, <1>2, <1>3 DEF Run
  <1>5. Running(run) /\ Running(run') /\ (AtStartup(run') <=> AtStartup(run)) /\ run.stage # "reload"
    BY <1>1, <1>2, <1>4 DEF Running, AtStartup, UnitStages
  <1>6. ASSUME NEW s \in {"projects", "urls", "attributes", "enable"}
        PROVE  Done(run', s) = Done(run, s)
    <2>1. Elements(run.todo) = {}
      BY <1>1, EmptyFacts
    <2>2. CASE run.stage = s \/ run.stage \in After(s)
      <3>1. Done(run', s) = Elements(run.units)
        BY <1>2, <1>4, <2>2 DEF Done
      <3> QED BY <2>1, <2>2, <3>1 DEF Done
    <2>3. CASE ~(run.stage = s \/ run.stage \in After(s))
      <3>1. Done(run, s) = {} /\ next \notin After(s)
        BY <1>2, <2>3 DEF Done
      <3>2. next = s => run'.todo = run.units
        BY <1>4
      <3> QED BY <1>4, <3>1, <3>2 DEF Done
    <2> QED BY <2>2, <2>3
  <1>7. StateInv'
    BY <1>1, <1>4 DEF IInv, StateInv
  <1>8. RunInv(run)'
    <2>1. /\ Len(run'.todo) <= Len(run'.units)
          /\ \A i \in 1..Len(run'.todo) :
                run'.todo[i] = run'.units[i + (Len(run'.units) - Len(run'.todo))]
      <3>1. CASE next = "realms"
        BY <1>3, <1>4, <3>1, EmptyFacts
      <3>2. CASE next # "realms"
        BY <1>3, <1>4, <3>2
      <3> QED BY <3>1, <3>2
    <2>2. /\ \A i, j \in 1..Len(run.units) : run.units[i] = run.units[j] => i = j
          /\ run.principal = None => run.units = Units /\ run.later = <<>>
      BY <1>5 DEF IInv, RunInv
    <2> QED BY <1>2, <1>4, <2>1, <2>2 DEF RunInv
  <1>9. Enabled' = Enabled /\ \A r : Last(r)' <=> Last(r)
    BY <1>1 DEF Enabled, Last
  <1>10. AtStartup(run) /\ Enabled # {} => Last(run.currentRealm) /\ run.currentRealm \in Enabled
    <2>1. Elements(run.todo) = {} /\ run.stage \notin {"realms", "reload"}
      BY <1>1, EmptyFacts DEF UnitStages
    <2> QED BY <2>1 DEF IInv, PlaceInv, Last
  <1>11. PlaceInv(run)'
    BY <1>4, <1>5, <1>9, <1>10 DEF PlaceInv
  <1>12. DoneInv'
    BY <1>1, <1>5, <1>6 DEF IInv, DoneInv, RowsCached, Selected
  <1>13. FreshInv'
    <2>1. \A r : Fresh(r)' <=> Fresh(r)
      BY <1>1 DEF Fresh, AttributesOf
    <2>2. ASSUME AtStartup(run), next = "attributes", NEW r \in Enabled
          PROVE  r \in Elements(run'.todo) /\ (Last(r) => r = run.currentRealm /\ run'.todo = Units)
      <3>1. run.units = Units /\ run'.todo = Units
        BY <1>4, <2>2 DEF IInv, RunInv, AtStartup
      <3>2. r \in Elements(Units)
        BY DEF Enabled
      <3> QED BY <1>10, <2>2, <3>1, <3>2, LastFacts
    <2>3. ASSUME AtStartup(run), next \in After("attributes"), NEW r \in Enabled
          PROVE  Fresh(r)
      <3>1. run.stage = "attributes" \/ run.stage \in After("attributes")
        BY <1>2, <2>3
      <3>2. CASE run.stage \in After("attributes")
        BY <2>3, <3>2 DEF IInv, FreshInv
      <3>3. CASE run.stage = "attributes"
        <4>1. Last(run.currentRealm) /\ run.currentRealm \in Enabled
          BY <1>10, <2>3
        <4>2. run.todo # Units /\ Elements(run.todo) = {}
          BY <1>1, <2>3, EmptyFacts DEF Enabled
        <4>3. Fresh(run.currentRealm)
          BY <2>3, <3>3, <4>1, <4>2 DEF IInv, FreshInv
        <4>4. Fresh(r) \/ r = run.currentRealm
          BY <2>3, <3>3, <4>2 DEF IInv, FreshInv
        <4> QED BY <4>3, <4>4
      <3> QED BY <3>1, <3>2, <3>3
    <2> QED BY <1>4, <1>5, <1>9, <2>1, <2>2, <2>3 DEF FreshInv
  <1>14. RowsInv'
    BY <1>1, <1>4, <1>5 DEF IInv, RowsInv
  <1>15. RealmsInv'
    BY <1>2, <1>4 DEF RealmsInv
  <1> QED BY <1>7, <1>8, <1>11, <1>12, <1>13, <1>14, <1>15 DEF IInv

\* The list of enabled realms is written, and the run is through with all its units.
LEMMA PushRealmsKeeps == ASSUME IInv, PushRealms
                         PROVE  IInv'
  <1>1. /\ run.stage = "realms"
        /\ cache' = IF Enabled = {} THEN cache ELSE [cache EXCEPT !.realms = Enabled]
        /\ run' = [run EXCEPT !.stage = "reload",
                              !.todo = IF run.principal = None THEN <<>> ELSE Units]
        /\ UNCHANGED <<disabled, sheet, committed, db, jsonMap, localhost, attributeMap, started>>
    BY DEF PushRealms, Outside
  <1>2. run \in Run /\ cache \in Cache /\ Enabled \subseteq Realm /\ Units \in Seq(Realm)
    BY UnitsAssumption, SeqFacts DEF IInv, StateInv, Enabled
  <1>3. /\ run' \in Run /\ run'.stage = "reload" /\ run'.units = run.units /\ run'.later = run.later
        /\ run'.todo = (IF run.principal = None THEN <<>> ELSE Units)
        /\ run'.principal = run.principal /\ run'.currentRealm = run.currentRealm
        /\ run'.task = run.task
    BY <1>1, <1>2, EmptyFacts DEF Run, Stage
  <1>4. /\ cache' \in Cache /\ cache'.project = cache.project /\ cache'.attributes = cache.attributes
        /\ cache'.entities = cache.entities /\ cache'.urls = cache.urls
        /\ Enabled # {} => cache'.realms = Enabled
    BY <1>1, <1>2 DEF Cache
  <1>5. Running(run) /\ Running(run') /\ (AtStartup(run') <=> AtStartup(run))
    BY <1>1, <1>3 DEF Running, AtStartup
  <1>6. \A s \in {"projects", "urls", "attributes", "enable"} : Done(run', s) = Done(run, s)
    BY <1>1, <1>3 DEF Done, After
  <1>7. Enabled' = Enabled /\ \A r : Last(r)' <=> Last(r)
    BY <1>1 DEF Enabled, Last
  <1>8. StateInv'
    BY <1>1, <1>3, <1>4 DEF IInv, StateInv
  <1>9. RunInv(run)'
    BY <1>3, <1>5 DEF IInv, RunInv
  <1>10. PlaceInv(run)'
    BY <1>1, <1>3, <1>5, <1>7 DEF IInv, PlaceInv
  <1>11. DoneInv'
    BY <1>1, <1>4, <1>5, <1>6 DEF IInv, DoneInv, RowsCached, Selected
  <1>12. FreshInv'
    <2>1. \A r : Fresh(r)' <=> Fresh(r)
      BY <1>1, <1>4 DEF Fresh, AttributesOf
    <2>2. run.stage \in After("attributes") /\ run'.stage # "attributes"
      BY <1>1, <1>3 DEF After
    <2> QED BY <1>5, <1>7, <2>1, <2>2 DEF IInv, FreshInv
  <1>13. RowsInv'
    BY <1>1, <1>3, <1>5 DEF IInv, RowsInv
  <1>14. RealmsInv'
    BY <1>4, <1>7 DEF RealmsInv
  <1> QED BY <1>8, <1>9, <1>10, <1>11, <1>12, <1>13, <1>14 DEF IInv

\* A request reloads attributes, which only a startup has anything to say of.
LEMMA ReloadKeeps == ASSUME IInv, ReloadAttributes
                     PROVE  IInv'
  <1>1. /\ run.stage = "reload" /\ run.todo # <<>>
        /\ run' = [run EXCEPT !.todo = Tail(@)]
        /\ UNCHANGED <<disabled, sheet, committed, db, jsonMap, localhost, started>>
    BY DEF ReloadAttributes, Outside, At
  <1>2. Running(run) /\ run.principal # None
    BY <1>1 DEF Running, IInv, RunInv
  <1>3. /\ run \in Run /\ cache \in Cache /\ run.todo \in Seq(Realm) /\ Unit \in Realm
        /\ Tail(run.todo) \in Seq(Realm) /\ GetRealm \in Realm
        /\ attributeMap \in [Realm -> SUBSET Realm]
        /\ AttributesOf(GetRealm) \in AttributeList
    BY <1>1, RunFacts, SeqFacts, StoreFacts DEF IInv, StateInv, Unit
  <1>4. /\ run' \in Run /\ run'.stage = "reload" /\ run'.units = run.units /\ run'.later = run.later
        /\ run'.principal = run.principal
    BY <1>1, <1>3 DEF Run
  <1>5. /\ cache' \in Cache /\ cache'.project = cache.project /\ cache'.entities = cache.entities
        /\ cache'.urls = cache.urls /\ cache'.realms = cache.realms
        /\ attributeMap' \in [Realm -> SUBSET Realm]
    <2>1. CASE Unit \in disabled
      BY <1>3, <2>1 DEF ReloadAttributes
    <2>2. CASE Unit \notin disabled
      <3>1. /\ cache' = [cache EXCEPT !.attributes[Unit] = AttributesOf(GetRealm)]
            /\ attributeMap' = AttributesRead
        BY <2>2 DEF ReloadAttributes
      <3>2. attributeMap' \in [Realm -> SUBSET Realm]
        BY <1>3, <3>1 DEF AttributesRead
      <3> QED BY <1>3, <3>1, <3>2 DEF Cache
    <2> QED BY <2>1, <2>2
  <1>6. Running(run') /\ ~AtStartup(run) /\ ~AtStartup(run')
    BY <1>2, <1>4 DEF Running, AtStartup
  <1>7. \A s \in {"projects", "urls", "attributes", "enable"} : Done(run', s) = Done(run, s)
    BY <1>1, <1>4 DEF Done, After
  <1>8. StateInv'
    BY <1>1, <1>4, <1>5 DEF IInv, StateInv
  <1>9. RunInv(run)' /\ PlaceInv(run)' /\ FreshInv'
    BY <1>2, <1>4, <1>6 DEF IInv, RunInv, PlaceInv, FreshInv
  <1>10. DoneInv' /\ RowsInv'
    BY <1>1, <1>2, <1>4, <1>5, <1>6, <1>7 DEF IInv, DoneInv, RowsInv, RowsCached, Selected
  <1>11. RealmsInv'
    BY <1>1, <1>5 DEF IInv, RealmsInv, Enabled
  <1> QED BY <1>8, <1>9, <1>10, <1>11 DEF IInv

\* A run ends well, with an exception, or with the server.
LEMMA EndKeeps == ASSUME IInv, Finish \/ RequestFails \/ Crash
                  PROVE  IInv'
  <1>1. PICK stage \in {"down", "up"} : run' = NoRun(stage) /\ db' = committed'
    BY DEF Finish, RequestFails, Crash
  <1>2. /\ run' \in Run /\ run'.stage = stage /\ ~Running(run')
        /\ \A s \in {"projects", "urls", "attributes", "enable"} : Done(run', s) = {}
    BY <1>1, NoRunFacts
  <1>3. /\ disabled' = disabled /\ sheet' = sheet /\ cache' = cache
        /\ committed' \in {committed, db} /\ db' \in {committed, db}
        /\ jsonMap' \subseteq jsonMap /\ localhost' \in {localhost, None} /\ started' \subseteq started
        /\ attributeMap' = attributeMap \/ attributeMap' = [r \in Realm |-> {}]
    BY DEF Finish, RequestFails, Crash
  <1>4. [r \in Realm |-> {}] \in [Realm -> SUBSET Realm]
    OBVIOUS
  <1>5. StateInv'
    BY <1>2, <1>3, <1>4 DEF IInv, StateInv
  <1> QED BY <1>1, <1>2, <1>5, NoRunKeeps

\* A step that leaves the run and what it has done alone keeps the invariant.
LEMMA SameKeeps == ASSUME IInv, StateInv',
                          UNCHANGED <<disabled, committed, db, cache, jsonMap, run>>
                   PROVE  IInv'
  <1>1. Enabled' = Enabled /\ (\A r : Last(r)' <=> Last(r)) /\ (\A r : Fresh(r)' <=> Fresh(r))
    BY DEF Enabled, Last, Fresh, AttributesOf
  <1>2. RunInv(run)'
    BY DEF IInv, RunInv
  <1>3. PlaceInv(run)'
    BY <1>1 DEF IInv, PlaceInv
  <1>4. DoneInv' /\ RowsInv'
    BY DEF IInv, DoneInv, RowsInv, RowsCached, Selected
  <1>5. FreshInv' /\ RealmsInv'
    BY <1>1 DEF IInv, FreshInv, RealmsInv
  <1> QED BY <1>2, <1>3, <1>4, <1>5 DEF IInv

\* A sheet changes under the server.
LEMMA EditSheetKeeps == ASSUME IInv, NEW r \in Realm, EditSheet(r)
                        PROVE  IInv'
  <1>1. /\ \E c \in SheetCode : \E version \in Version : sheet' = [sheet EXCEPT ![r][c] = version]
        /\ UNCHANGED <<disabled, committed, db, cache, jsonMap, localhost, attributeMap, run, started>>
    BY DEF EditSheet
  <1>2. sheet' \in [Realm -> [SheetCode -> Version]]
    BY <1>1 DEF IInv, StateInv
  <1>3. StateInv'
    BY <1>1, <1>2 DEF IInv, StateInv
  <1> QED BY <1>1, <1>3, SameKeeps

\* A unit is enabled or disabled while the server is down.
LEMMA EditFlagKeeps == ASSUME IInv, NEW r \in Realm, EditFlag(r)
                       PROVE  IInv'
  <1>1. /\ run.stage = "down" /\ disabled' \subseteq disabled \cup {r}
        /\ UNCHANGED <<sheet, committed, db, cache, jsonMap, localhost, attributeMap, run, started>>
    BY DEF EditFlag
  <1>2. StateInv'
    BY <1>1 DEF IInv, StateInv
  <1>3. /\ ~Running(run) /\ db = committed
        /\ \A s \in {"projects", "urls", "attributes", "enable"} : Done(run, s) = {}
    BY <1>1 DEF Running, Done, After, IInv, RowsInv
  <1> QED BY <1>1, <1>2, <1>3, NoRunKeeps

----------------------------------------------------------------------------
\* Every step keeps the invariant.
LEMMA NextIInv == IInv /\ [Next]_vars => IInv'
  <1> SUFFICES ASSUME IInv, [Next]_vars PROVE IInv'
    OBVIOUS
  <1>1. CASE Start
    BY <1>1, StartKeeps
  <1>2. CASE \E p \in Realm : Request(p)
    BY <1>2, RequestKeeps
  <1>3. CASE SaveProject \/ SaveService \/ PushUrls \/ Import \/ PushToDTT \/ SetEnabledRealm
    BY <1>3, UnitsStep, UnitStepKeeps
  <1>4. CASE PushRealms \/ ReloadAttributes \/ NextStage \/ NextUnit
    BY <1>4, PushRealmsKeeps, ReloadKeeps, NextStageKeeps, NextUnitKeeps
  <1>5. CASE Finish \/ RequestFails \/ Crash
    BY <1>5, EndKeeps
  <1>6. CASE \E r \in Realm : EditSheet(r) \/ EditFlag(r)
    BY <1>6, EditSheetKeeps, EditFlagKeeps
  <1>7. CASE UNCHANGED vars
    <2>1. StateInv'
      BY <1>7 DEF vars, IInv, StateInv
    <2> QED BY <1>7, <2>1, SameKeeps DEF vars
  <1> QED BY <1>1, <1>2, <1>3, <1>4, <1>5, <1>6, <1>7 DEF Next, Pipeline

\* The invariant holds in every state of every behaviour.
LEMMA SpecIInv == Spec => []IInv
  <1> QED BY InitIInv, NextIInv, PTL DEF Spec

\* Every variable stays within its type.
THEOREM StartupTypeCorrect == Spec => []TypeOK
  <1>1. ASSUME IInv PROVE TypeOK
    BY <1>1, StoreFacts, RunFacts DEF IInv, StateInv, TypeOK
  <1> QED BY <1>1, SpecIInv, PTL

\* What a startup that is past pushToDTT has left in the cache for each enabled realm: the
\* announcements of setEnabledRealm and the end of inits both rest on it.
LEMMA StartupFacts == ASSUME IInv, AtStartup(run), run.stage \in After("attributes"), NEW r \in Enabled
                      PROVE  /\ cache.project[r] = r /\ cache.attributes[r] = AttributesOf(r)
                             /\ RowsCached(r) /\ r \in cache.urls /\ r \in jsonMap
  <1>1. r \in Realm /\ r \notin disabled /\ r \in Elements(Units)
    BY UnitsAssumption, SeqFacts DEF Enabled
  <1>2. run.units = Units
    BY DEF IInv, RunInv, AtStartup
  <1>3. r \in Done(run, "projects") /\ r \in Done(run, "urls") /\ r \in Done(run, "attributes")
    BY <1>1, <1>2 DEF Done, After
  <1> QED BY <1>1, <1>3 DEF IInv, DoneInv, FreshInv, Fresh

\* A run announces a realm (setEnabledRealm) only when its URLs, its Keycloak configuration and
\* the rows that pushToDTT selects for it, wherever they lie, are in place, at startup also its
\* own attributes and project.
THEOREM AnnouncedRealmsAreReady == Spec => ReadyWhenAnnounced
  <1> DEFINE Ready(r) == /\ r \in cache.urls /\ r \in jsonMap /\ RowsCached(r)
                         /\ run.principal = None =>
                               cache.attributes[r] = AttributesOf(r) /\ cache.project[r] = r
  <1>1. ASSUME IInv, Next, NEW r \in started' \ started
        PROVE  Ready(r)
    <2>1. CASE SaveProject \/ SaveService \/ PushUrls \/ Import \/ PushToDTT \/ SetEnabledRealm
      <3>1. UnitStep
        BY <1>1, <2>1, UnitsStep
      <3>2. run.stage = "enable" /\ r = Unit /\ r \notin disabled
        BY <1>1, <3>1 DEF UnitStep
      <3>3. /\ r \in Realm /\ r \in Elements(run.units) /\ Running(run)
            /\ run.stage \in After("projects") /\ run.stage \in After("urls")
            /\ run.stage \in After("attributes")
        BY <1>1, <3>1, <3>2, UnitFacts DEF UnitStep, After
      <3>4. r \in Done(run, "projects") /\ r \in Done(run, "urls") /\ r \in Done(run, "attributes")
        BY <3>3 DEF Done
      <3>5. r \in cache.urls /\ r \in jsonMap /\ RowsCached(r)
        BY <1>1, <3>2, <3>3, <3>4 DEF IInv, DoneInv
      <3>6. ASSUME run.principal = None
            PROVE  cache.attributes[r] = AttributesOf(r) /\ cache.project[r] = r
        <4>1. AtStartup(run) /\ r \in Enabled
          BY <1>1, <3>2, <3>3, <3>6 DEF AtStartup, Enabled, IInv, RunInv
        <4> QED BY <1>1, <3>3, <4>1, StartupFacts
      <3> QED BY <3>5, <3>6
    <2>2. CASE \/ Start \/ PushRealms \/ ReloadAttributes \/ NextStage \/ NextUnit
               \/ \E p \in Realm : Request(p)
      BY <1>1, <2>2 DEF Start, PushRealms, ReloadAttributes, NextStage, NextUnit, Request
    <2>3. CASE Finish \/ RequestFails \/ Crash \/ (\E s \in Realm : EditSheet(s) \/ EditFlag(s))
      BY <1>1, <2>3 DEF Finish, RequestFails, Crash, EditSheet, EditFlag
    <2> QED BY <1>1, <2>1, <2>2, <2>3 DEF Next, Pipeline
  <1>2. IInv /\ [Next]_vars => [\A r \in started' \ started : Ready(r)]_vars
    BY <1>1
  <1> QED BY <1>2, SpecIInv, PTL DEF Spec, ReadyWhenAnnounced

\* A startup that completes (inits) leaves every enabled realm's own project, attributes and
\* selected rows in the cache, as it commits them, and the list of enabled realms, whatever
\* crashes, failed runs and requests have left there before.
THEOREM StartupsHealTheCache == Spec => BootHealsCache
  <1> DEFINE Healed == /\ committed' = db
                       /\ \A r \in Enabled :
                             /\ cache.project[r] = r /\ cache.attributes[r] = AttributesOf(r)
                             /\ RowsCached(r)
                             /\ r \in cache.urls /\ cache.realms = Enabled
  <1>1. ASSUME IInv, Next, run.stage = "reload", run.principal = None, run'.stage = "up"
        PROVE  Healed
    <2>1. CASE Finish
      <3>1. committed' = db
        BY <2>1 DEF Finish
      <3>2. AtStartup(run) /\ run.stage \in After("attributes")
        BY <1>1 DEF AtStartup, Running, After
      <3>3. Enabled = {} \/ cache.realms = Enabled
        BY <1>1 DEF IInv, RealmsInv
      <3> QED BY <1>1, <3>1, <3>2, <3>3, StartupFacts
    <2>2. CASE Start \/ (\E p \in Realm : Request(p)) \/ PushRealms \/ NextStage \/ RequestFails
      BY <1>1, <2>2 DEF Start, Request, PushRealms, NextStage, RequestFails
    <2>3. CASE SaveProject \/ SaveService \/ PushUrls \/ Import \/ PushToDTT \/ SetEnabledRealm
      BY <1>1, <2>3, UnitsStep DEF UnitStep, UnitStages
    <2>4. CASE ReloadAttributes
      <3>1. run \in Run /\ run' = [run EXCEPT !.todo = Tail(@)]
        BY <1>1, <2>4 DEF ReloadAttributes, IInv, StateInv
      <3> QED BY <1>1, <3>1 DEF Run
    <2>5. CASE NextUnit \/ Crash
      BY <1>1, <2>5 DEF NextUnit, NewRun, Crash, NoRun
    <2>6. CASE \E r \in Realm : EditSheet(r) \/ EditFlag(r)
      BY <1>1, <2>6 DEF EditSheet, EditFlag
    <2> QED BY <1>1, <2>1, <2>2, <2>3, <2>4, <2>5, <2>6 DEF Next, Pipeline
  <1>2. IInv /\ [Next]_vars =>
           [run.stage = "reload" /\ run.principal = None /\ run'.stage = "up" => Healed]_vars
    BY <1>1
  <1> QED BY <1>2, SpecIInv, PTL DEF Spec, BootHealsCache

\* The rows of a disabled realm, and its entries of the cache, change only in the name of its
\* own users, but for entries of rows that the push of an enabled realm selects; no run
\* registers or announces the realm; its attributes change only for its own user, or with no
\* unit enabled.
THEOREM DisabledRealmsStayUntouched == Spec => DisabledRealmsUntouched
  <1> DEFINE Kept(r) == /\ db'[r] = db[r] /\ committed'[r] = committed[r]
                        /\ \A c \in Code : cache'.entities[r][c] = cache.entities[r][c]
                                            \/ \E e \in Realm \ disabled : Selected(e, r, c)
                        /\ Enabled # {} => cache'.attributes[r] = cache.attributes[r]
             Untouched(r) == /\ cache'.project[r] = cache.project[r]
                             /\ r \in cache'.urls <=> r \in cache.urls
                             /\ r \in jsonMap' => r \in jsonMap
                             /\ r \in started' => r \in started
                             /\ run.principal # r => Kept(r)
  <1>1. ASSUME IInv, Next, NEW r \in disabled
        PROVE  Untouched(r)
    <2>1. /\ r \in Realm /\ r \notin Enabled /\ cache \in Cache /\ StateInv
          /\ cache.attributes \in [Realm -> AttributeList \cup {None}]
      BY <1>1, StoreFacts DEF IInv, StateInv, Enabled
    <2>2. CASE Start \/ (\E p \in Realm : Request(p)) \/ NextStage \/ NextUnit
      BY <2>2 DEF Start, Request, NextStage, NextUnit, Outside
    <2>3. CASE SaveProject \/ SaveService \/ PushUrls \/ Import \/ PushToDTT \/ SetEnabledRealm
      <3>1. UnitStep
        BY <1>1, <2>3, UnitsStep
      <3>2. /\ cache'.project[r] = cache.project[r]
            /\ r \in cache'.urls <=> r \in cache.urls
            /\ r \in jsonMap' => r \in jsonMap
            /\ r \in started' => r \in started
        BY <1>1, <2>1, <3>1 DEF UnitStep
      <3>3. ASSUME run.principal # r
            PROVE  db'[r] = db[r] /\ committed'[r] = committed[r]
        BY <1>1, <2>1, <3>1, <3>3 DEF UnitStep
      <3>4. ASSUME run.principal # r, NEW c \in Code
            PROVE  cache'.entities[r][c] = cache.entities[r][c] \/ \E e \in Realm \ disabled : Selected(e, r, c)
        <4>1. CASE run.stage # "attributes"
          BY <1>1, <2>1, <3>1, <3>4, <4>1 DEF UnitStep
        <4>2. CASE run.stage = "attributes"
          <5>1. cache'.entities = IF Unit \in disabled THEN cache.entities ELSE Pushed
            BY <3>1, <4>2 DEF UnitStep
          <5>2. Unit \in Realm
            BY <1>1, <3>1, UnitFacts DEF UnitStep
          <5>3. Pushed[r][c] = IF Selected(Unit, r, c) THEN ContentOf(db[r][c]) ELSE cache.entities[r][c]
            BY <2>1 DEF Pushed
          <5> QED BY <5>1, <5>2, <5>3
        <4> QED BY <4>1, <4>2
      <3>5. ASSUME Enabled # {}, run.principal # r
            PROVE  cache'.attributes[r] = cache.attributes[r]
        <4>1. CASE run.stage # "attributes"
          BY <3>1, <4>1 DEF UnitStep
        <4>2. CASE run.stage = "attributes"
          <5>1. run.principal = None => run.currentRealm \in Enabled
            BY <1>1, <3>5, <4>2 DEF IInv, PlaceInv, AtStartup, Running
          <5>2. GetRealm # r
            BY <2>1, <3>5, <5>1 DEF GetRealm
          <5> QED BY <2>1, <3>1, <4>2, <5>2 DEF UnitStep
        <4> QED BY <4>1, <4>2
      <3> QED BY <3>2, <3>3, <3>4, <3>5
    <2>4. CASE PushRealms
      <3>1. /\ cache' = IF Enabled = {} THEN cache ELSE [cache EXCEPT !.realms = Enabled]
            /\ jsonMap' = jsonMap /\ started' = started /\ db' = db /\ committed' = committed
        BY <2>4 DEF PushRealms, Outside
      <3>2. /\ cache'.project = cache.project /\ cache'.entities = cache.entities
            /\ cache'.urls = cache.urls /\ cache'.attributes = cache.attributes
        BY <2>1, <3>1 DEF Cache
      <3> QED BY <3>1, <3>2
    <2>5. CASE ReloadAttributes
      <3>1. jsonMap' = jsonMap /\ started' = started /\ db' = db /\ committed' = committed
        BY <2>5 DEF ReloadAttributes, Outside
      <3>2. CASE Unit \in disabled
        BY <2>5, <3>1, <3>2 DEF ReloadAttributes
      <3>3. CASE Unit \notin disabled
        <4>1. cache' = [cache EXCEPT !.attributes[Unit] = AttributesOf(GetRealm)]
          BY <2>5, <3>3 DEF ReloadAttributes
        <4>2. /\ cache'.project = cache.project /\ cache'.entities = cache.entities
              /\ cache'.urls = cache.urls
              /\ cache'.attributes = [cache.attributes EXCEPT ![Unit] = AttributesOf(GetRealm)]
          BY <2>1, <4>1 DEF Cache
        <4>3. r # Unit
          BY <1>1, <3>3
        <4>4. cache'.attributes[r] = cache.attributes[r]
          BY <2>1, <4>2, <4>3
        <4> QED BY <3>1, <4>2, <4>4
      <3> QED BY <3>2, <3>3
    <2>6. CASE Finish \/ RequestFails \/ Crash
      <3>1. /\ cache' = cache /\ jsonMap' \subseteq jsonMap /\ started' \subseteq started
            /\ db' \in {db, committed} /\ committed' \in {db, committed}
        BY <2>6 DEF Finish, RequestFails, Crash
      <3>2. run.principal # r => db[r] = committed[r]
        BY <1>1 DEF IInv, RowsInv
      <3>3. run.principal # r => db'[r] = db[r] /\ committed'[r] = committed[r]
        BY <3>1, <3>2
      <3> QED BY <3>1, <3>3
    <2>7. CASE \E s \in Realm : EditSheet(s) \/ EditFlag(s)
      BY <2>7 DEF EditSheet, EditFlag
    <2> QED BY <1>1, <2>2, <2>3, <2>4, <2>5, <2>6, <2>7 DEF Next, Pipeline
  <1>2. IInv /\ [Next]_vars => [\A r \in disabled : Untouched(r)]_vars
    BY <1>1
  <1> QED BY <1>2, SpecIInv, PTL DEF Spec, DisabledRealmsUntouched
=============================================================================
