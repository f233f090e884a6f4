-------------------------- MODULE DeletedRowsProofs --------------------------
(***************************************************************************)
(* What synchronisations of a table may and may not take away, for any     *)
(* number of rows and threads.  The inductive invariant IInv says what a   *)
(* synchronisation knows at each step (SyncInv), that what is remembered   *)
(* of the sheet has been in it (SheetInv), and who has yet to put back     *)
(* what was hidden (OwedInv).                                              *)
(***************************************************************************)
EXTENDS DeletedRows, TLAPS

\* A synchronisation hides only what has been in the sheet, and only until it ends; one that
\* nobody disturbs works on the sheet as it is, and what it has left of the rows that went is
\* still to be hidden, or its write was lost.  (The sheet is s, the rows r, and e have been in it.)
SyncInv(q, s, r, e) ==
    /\ q \in Sync
    /\ q.pc # "hide" => q.todo = {} /\ q.hid = {}
    /\ q.pc = "hide" => q.seen # Nothing
    /\ q.todo # {} => q.read # Nothing
    /\ q.seen # Nothing => q.seen \subseteq e
    /\ q.todo \subseteq e
    /\ q.pc = "hide" /\ q.calm =>
          q.read = s /\ (q.seen \ s) \cap r \subseteq q.todo \cup q.lost

SheetInv ==
    /\ sheet \subseteq everIn /\ everIn \subseteq Code
    /\ saved # Nothing => saved \subseteq everIn
    /\ others \subseteq shown \ everIn

OwedInv == \A c \in owed : c \in shown \/ \E t \in Thread : c \in sync[t].hid

StateInv ==
    /\ sheet \subseteq Code /\ shown \subseteq Code /\ owed \subseteq Code
    /\ saved \in Data
    /\ sync \in [Thread -> Sync]

IInv == StateInv /\ SheetInv /\ OwedInv /\ \A t \in Thread : SyncInv(sync[t], sheet, shown, everIn)

----------------------------------------------------------------------------
\* The data saved of an empty sheet is not the same as no data.
LEMMA SetIsSomething == \A S \in SUBSET Code : S # Nothing
  BY NothingAssumption

\* A thread that runs no synchronisation has nothing to hide.
LEMMA IdleSound == ASSUME NEW s, NEW r, NEW e PROVE SyncInv(Idle, s, r, e)
  BY DEF SyncInv, Idle, Sync, Data

\* The rows are those of the sheet, and nothing runs.
LEMMA InitIInv == Init => IInv
  <1> SUFFICES ASSUME Init PROVE IInv
    OBVIOUS
  <1>1. \A t \in Thread : SyncInv(sync[t], sheet, shown, everIn)
    BY IdleSound DEF Init
  <1>2. StateInv
    BY IdleSound DEF Init, StateInv, Data, SyncInv
  <1> QED BY <1>1, <1>2 DEF Init, IInv, SheetInv, OwedInv

\* What a synchronisation knows stays true while the sheet stays and only rows of the sheet
\* are added.
LEMMA StaysSound == ASSUME NEW q, NEW s, NEW r, NEW e, NEW r2,
                           SyncInv(q, s, r, e), r2 \subseteq r \cup s
                    PROVE  SyncInv(q, s, r2, e)
  BY DEF SyncInv

\* A step of one synchronisation keeps the invariant when that one stays sound, only rows of
\* the sheet are added and none of another request's rows is taken away.
LEMMA OneSync == ASSUME IInv, NEW t \in Thread, NEW k,
                        sync' = [sync EXCEPT ![t] = k], SyncInv(k, sheet, shown', everIn),
                        UNCHANGED <<sheet, everIn, others>>,
                        shown' \subseteq shown \cup sheet, saved' \in {saved, sheet},
                        others \subseteq shown', owed' \subseteq Code, OwedInv'
                 PROVE  IInv'
  <1>1. sync' \in [Thread -> Sync]
    BY DEF IInv, StateInv, SyncInv
  <1>2. StateInv'
    BY <1>1 DEF IInv, StateInv, Data
  <1>3. SheetInv'
    BY DEF IInv, SheetInv
  <1>4. ASSUME NEW o \in Thread PROVE SyncInv(sync'[o], sheet, shown', everIn)
    <2>1. CASE o = t
      BY <2>1 DEF IInv, StateInv
    <2>2. CASE o # t
      <3>1. sync'[o] = sync[o]
        BY <2>2 DEF IInv, StateInv
      <3>2. SyncInv(sync[o], sheet, shown, everIn)
        BY DEF IInv
      <3> QED BY <3>1, <3>2, StaysSound
    <2> QED BY <2>1, <2>2
  <1> QED BY <1>2, <1>3, <1>4 DEF IInv

\* A change from outside: of those that run, none counts as undisturbed any more.
LEMMA Disturbs == ASSUME IInv, sync' = Disturbed, everIn \subseteq everIn'
                  PROVE  /\ sync' \in [Thread -> Sync]
                         /\ \A t \in Thread : SyncInv(sync'[t], sheet', shown', everIn')
                         /\ \A t \in Thread : sync'[t].hid = sync[t].hid
  <1> SUFFICES ASSUME NEW t \in Thread
               PROVE  /\ sync'[t] \in Sync
                      /\ SyncInv(sync'[t], sheet', shown', everIn')
                      /\ sync'[t].hid = sync[t].hid
    BY DEF Disturbed
  <1>1. sync'[t] = [sync[t] EXCEPT !.calm = FALSE]
    BY DEF Disturbed
  <1>2. sync[t] \in Sync /\ SyncInv(sync[t], sheet, shown, everIn)
    BY DEF IInv, SyncInv
  <1> DEFINE n == [sync[t] EXCEPT !.calm = FALSE]
  <1>3. /\ n \in Sync /\ n.pc = sync[t].pc /\ n.seen = sync[t].seen /\ n.read = sync[t].read
        /\ n.todo = sync[t].todo /\ n.hid = sync[t].hid /\ n.calm = FALSE
    BY <1>2 DEF Sync
  <1>4. SyncInv(n, sheet', shown', everIn')
    BY <1>2, <1>3 DEF SyncInv
  <1> QED BY <1>1, <1>3, <1>4

----------------------------------------------------------------------------
\* A synchronisation that starts knows the saved data only; those it meets are disturbed.
LEMMA StartKeeps == ASSUME IInv, NEW t \in Thread, Start(t) PROVE IInv'
  <1> DEFINE alone == \A o \in Thread \ {t} : sync[o].pc = "idle"
             n == [Idle EXCEPT !.pc = "read", !.seen = saved, !.calm = alone]
             m(s) == [sync[s] EXCEPT !.calm = FALSE]
  <1>1. sync' = [s \in Thread |-> IF s = t THEN n ELSE m(s)]
    BY DEF Start
  <1>2. SyncInv(n, sheet, shown, everIn)
    <2>1. alone \in BOOLEAN
      OBVIOUS
    <2> HIDE DEF alone
    <2>2. Idle \in Sync /\ Idle.todo = {} /\ Idle.hid = {}
      BY DEF Idle, Sync, Data
    <2>3. n \in Sync /\ n.pc = "read" /\ n.seen = saved /\ n.todo = {} /\ n.hid = {}
      BY <2>1, <2>2 DEF Sync, IInv, StateInv
    <2> HIDE DEF n
    <2> QED BY <2>3 DEF IInv, SheetInv, SyncInv
  <1>3. ASSUME NEW s \in Thread
        PROVE  SyncInv(m(s), sheet, shown, everIn) /\ m(s).hid = sync[s].hid
    <2>1. SyncInv(sync[s], sheet, shown, everIn) /\ sync[s] \in Sync
      BY DEF IInv, SyncInv
    <2>2. /\ m(s) \in Sync /\ m(s).pc = sync[s].pc /\ m(s).seen = sync[s].seen
          /\ m(s).read = sync[s].read /\ m(s).todo = sync[s].todo /\ m(s).hid = sync[s].hid
          /\ m(s).calm = FALSE
      BY <2>1 DEF Sync
    <2> QED BY <2>1, <2>2 DEF SyncInv
  <1>4. \A s \in Thread : SyncInv(sync'[s], sheet, shown, everIn)
    BY <1>1, <1>2, <1>3
  <1>5. sync[t].hid = {}
    BY DEF Start, IInv, SyncInv
  <1>6. OwedInv'
    <2> SUFFICES ASSUME NEW c \in owed, c \notin shown
                 PROVE  \E s \in Thread : c \in sync'[s].hid
      BY DEF Start, history, OwedInv
    <2>1. PICK s \in Thread : c \in sync[s].hid
      BY DEF IInv, OwedInv
    <2>2. s # t
      BY <1>5, <2>1
    <2> QED BY <1>1, <1>3, <2>1, <2>2
  <1>7. StateInv' /\ SheetInv'
    <2>1. sync' \in [Thread -> Sync]
      BY <1>1, <1>2, <1>3 DEF SyncInv
    <2> QED BY <2>1 DEF Start, history, IInv, StateInv, SheetInv
  <1> QED BY <1>4, <1>6, <1>7 DEF Start, history, IInv

\* What is to be hidden was in the saved data and is not in the sheet.
LEMMA ReadSheetKeeps == ASSUME IInv, NEW t \in Thread, ReadSheet(t) PROVE IInv'
  <1> DEFINE q == sync[t]
  <1>q. /\ q.pc = "read" /\ q \in Sync /\ SyncInv(q, sheet, shown, everIn) /\ q.hid = {}
        /\ sync \in [Thread -> Sync]
    BY DEF ReadSheet, IInv, StateInv, SyncInv
  <1>1. PICK read \in {sheet, Nothing} :
           IF q.seen = Nothing THEN Ends(t)
           ELSE sync' = [sync EXCEPT ![t] = [q EXCEPT !.pc = "hide", !.read = read,
                   !.todo = Deletions(q.seen, read), !.calm = q.calm /\ read # Nothing]]
    BY DEF ReadSheet
  <1> DEFINE n == IF q.seen = Nothing THEN Idle
                  ELSE [q EXCEPT !.pc = "hide", !.read = read,
                          !.todo = Deletions(q.seen, read), !.calm = q.calm /\ read # Nothing]
  <1>2. sync' = [sync EXCEPT ![t] = n]
    BY <1>1 DEF Ends
  <1>3. shown' \subseteq shown \cup sheet /\ shown \subseteq shown'
    BY DEF ReadSheet
  <1>4. SyncInv(n, sheet, shown', everIn) /\ n.hid = {}
    <2>1. CASE q.seen = Nothing
      BY <2>1, IdleSound DEF Idle
    <2>2. CASE q.seen # Nothing
      <3> DEFINE todo == Deletions(q.seen, read)
      <3>1. q.seen \subseteq everIn /\ q.seen \subseteq Code /\ q.calm \in BOOLEAN
        BY <1>q, <2>2 DEF SyncInv, Sync, Data
      <3>2. todo \subseteq q.seen /\ (read # Nothing => read = sheet /\ todo = q.seen \ sheet)
            /\ (todo # {} => read # Nothing)
        BY DEF Deletions
      <3>3. read \in Data
        BY DEF IInv, StateInv, Data
      <3> HIDE DEF todo
      <3> DEFINE k == [q EXCEPT !.pc = "hide", !.read = read, !.todo = todo,
                                !.calm = q.calm /\ read # Nothing]
      <3>4. /\ k \in Sync /\ k.pc = "hide" /\ k.seen = q.seen /\ k.read = read /\ k.todo = todo
            /\ k.hid = {} /\ k.calm = (q.calm /\ read # Nothing) /\ k.lost = q.lost
        BY <1>q, <3>1, <3>2, <3>3 DEF Sync
      <3>5. n = k
        BY <2>2 DEF todo
      <3> HIDE DEF k, n, q
      <3> QED BY <2>2, <3>1, <3>2, <3>4, <3>5 DEF SyncInv
    <2> QED BY <2>1, <2>2
  <1>5. OwedInv'
    <2> HIDE DEF n
    <2>1. \A s \in Thread : sync'[s].hid = sync[s].hid
      BY <1>q, <1>2, <1>4
    <2> QED BY <1>3, <2>1 DEF ReadSheet, history, IInv, OwedInv
  <1> HIDE DEF n
  <1> QED BY <1>2, <1>3, <1>4, <1>5, OneSync DEF ReadSheet, history, IInv, StateInv, SheetInv

\* One row goes from the rows or its write is lost; it has been in the sheet.
LEMMA HideKeeps == ASSUME IInv, NEW t \in Thread, Hide(t) PROVE IInv'
  <1> DEFINE q == sync[t]
  <1>q. q.pc = "hide" /\ q \in Sync /\ SyncInv(q, sheet, shown, everIn) /\ sync \in [Thread -> Sync]
    BY DEF Hide, IInv, StateInv, SyncInv
  <1>1. PICK c \in q.todo :
           \/ /\ shown' = shown \ {c}
              /\ sync' = [sync EXCEPT ![t].todo = @ \ {c}, ![t].hid = @ \cup {c}]
           \/ /\ sync' = [sync EXCEPT ![t].todo = @ \ {c}, ![t].lost = @ \cup {c}]
              /\ UNCHANGED shown
    BY DEF Hide
  <1>c. c \in everIn /\ c \in Code
    BY <1>q DEF SyncInv, Sync
  <1>2. CASE /\ shown' = shown \ {c}
             /\ sync' = [sync EXCEPT ![t].todo = @ \ {c}, ![t].hid = @ \cup {c}]
    <2> DEFINE n == [q EXCEPT !.todo = q.todo \ {c}, !.hid = q.hid \cup {c}]
    <2>1. sync' = [sync EXCEPT ![t] = n]
      BY <1>q, <1>2 DEF Sync
    <2>2. /\ n \in Sync /\ n.pc = q.pc /\ n.seen = q.seen /\ n.read = q.read
          /\ n.todo = q.todo \ {c} /\ n.hid = q.hid \cup {c} /\ n.lost = q.lost /\ n.calm = q.calm
      BY <1>q, <1>c DEF Sync
    <2> HIDE DEF n
    <2>3. SyncInv(n, sheet, shown', everIn)
      BY <1>q, <1>2, <2>2 DEF SyncInv
    <2>4. \A s \in Thread : sync[s].hid \subseteq sync'[s].hid
      BY <1>q, <2>1, <2>2
    <2>5. c \in sync'[t].hid
      BY <1>q, <2>1, <2>2
    <2>6. OwedInv'
      BY <1>2, <2>4, <2>5 DEF Hide, history, IInv, OwedInv
    <2>7. others \subseteq shown'
      BY <1>2, <1>c DEF IInv, SheetInv
    <2> QED BY <1>2, <2>1, <2>3, <2>6, <2>7, OneSync DEF Hide, history, IInv, StateInv
  <1>3. CASE /\ sync' = [sync EXCEPT ![t].todo = @ \ {c}, ![t].lost = @ \cup {c}]
             /\ UNCHANGED shown
    <2> DEFINE n == [q EXCEPT !.todo = q.todo \ {c}, !.lost = q.lost \cup {c}]
    <2>1. sync' = [sync EXCEPT ![t] = n]
      BY <1>q, <1>3 DEF Sync
    <2>2. /\ n \in Sync /\ n.pc = q.pc /\ n.seen = q.seen /\ n.read = q.read
          /\ n.todo = q.todo \ {c} /\ n.hid = q.hid /\ n.lost = q.lost \cup {c} /\ n.calm = q.calm
      BY <1>q, <1>c DEF Sync
    <2> HIDE DEF n
    <2>3. SyncInv(n, sheet, shown', everIn)
      BY <1>q, <1>3, <2>2 DEF SyncInv
    <2>4. \A s \in Thread : sync'[s].hid = sync[s].hid
      BY <1>q, <2>1, <2>2
    <2>5. OwedInv'
      BY <1>3, <2>4 DEF Hide, history, IInv, OwedInv
    <2> QED BY <1>3, <2>1, <2>3, <2>5, OneSync DEF Hide, history, IInv, StateInv, SheetInv
  <1> QED BY <1>1, <1>2, <1>3

\* A synchronisation that ends has put back what it has hidden and the sheet has.
LEMMA UpsertKeeps == ASSUME IInv, NEW t \in Thread, Upsert(t) PROVE IInv'
  <1>q. sync \in [Thread -> Sync] /\ sync' = [sync EXCEPT ![t] = Idle]
    BY DEF Upsert, Ends, IInv, StateInv
  <1>1. PICK lost \in SUBSET (sheet \ shown) :
           /\ shown' = shown \cup (sheet \ lost)
           /\ owed' = (owed \ sync[t].hid) \cup (sheet \ lost)
    BY DEF Upsert, SecondRead
  <1>2. OwedInv'
    <2> SUFFICES ASSUME NEW c \in owed', c \notin shown'
                 PROVE  \E s \in Thread : c \in sync'[s].hid
      BY DEF OwedInv
    <2>1. c \in owed /\ c \notin shown /\ c \notin sync[t].hid
      BY <1>1
    <2>2. PICK s \in Thread : c \in sync[s].hid
      BY <2>1 DEF IInv, OwedInv
    <2> QED BY <1>q, <2>1, <2>2
  <1> QED BY <1>q, <1>1, <1>2, IdleSound, OneSync DEF Upsert, IInv, StateInv, SheetInv

\* A failure gives up the claim on what has been hidden.
LEMMA FailKeeps == ASSUME IInv, NEW t \in Thread, Fail(t) PROVE IInv'
  <1>q. sync \in [Thread -> Sync] /\ sync' = [sync EXCEPT ![t] = Idle]
    BY DEF Fail, Ends, IInv, StateInv
  <1>1. OwedInv'
    <2> SUFFICES ASSUME NEW c \in owed', c \notin shown'
                 PROVE  \E s \in Thread : c \in sync'[s].hid
      BY DEF OwedInv
    <2>1. c \in owed /\ c \notin shown /\ c \notin sync[t].hid
      BY DEF Fail
    <2>2. PICK s \in Thread : c \in sync[s].hid
      BY <2>1 DEF IInv, OwedInv
    <2> QED BY <1>q, <2>1, <2>2
  <1> QED BY <1>q, <1>1, IdleSound, OneSync DEF Fail, IInv, StateInv, SheetInv

\* What comes to the sheet has been in it, and is no longer of others.
LEMMA EditSheetKeeps == ASSUME IInv, NEW c \in Code, EditSheet(c) PROVE IInv'
  <1>1. everIn \subseteq everIn' /\ sync' = Disturbed
    BY DEF EditSheet
  <1>2. OwedInv'
    BY <1>1, Disturbs DEF EditSheet, IInv, OwedInv
  <1> QED BY <1>1, <1>2, Disturbs DEF EditSheet, IInv, StateInv, SheetInv

\* Rows of others are made by requests, and go by requests.
LEMMA OtherRequestKeeps == ASSUME IInv, NEW c \in Code, OtherRequest(c) PROVE IInv'
  <1>1. everIn \subseteq everIn' /\ sync' = Disturbed
    BY DEF OtherRequest
  <1>2. OwedInv'
    BY <1>1, Disturbs DEF OtherRequest, IInv, OwedInv
  <1> QED BY <1>1, <1>2, Disturbs DEF OtherRequest, IInv, StateInv, SheetInv

\* Every step keeps IInv.
LEMMA NextIInv == ASSUME IInv, [Next]_vars PROVE IInv'
  <1>1. CASE UNCHANGED vars
    BY <1>1 DEF vars, history, IInv, StateInv, SheetInv, OwedInv
  <1> QED
    BY <1>1, StartKeeps, ReadSheetKeeps, HideKeeps, UpsertKeeps, FailKeeps, EditSheetKeeps,
       OtherRequestKeeps
    DEF Next

\* IInv holds in every reachable state.
LEMMA SpecIInv == Spec => []IInv
  BY InitIInv, NextIInv, PTL DEF Spec

----------------------------------------------------------------------------
\* The rows, the saved data and the synchronisations keep their types.
THEOREM RowsTypeCorrect == Spec => []TypeOK
  <1>1. IInv => TypeOK
    BY DEF IInv, StateInv, SheetInv, SyncInv, TypeOK
  <1> QED BY SpecIInv, <1>1, PTL

\* However many synchronisations run, none takes a row that came from elsewhere for deleted.
THEOREM OthersKeepTheirRows == Spec => []RowsOfOthersStay
  <1>1. IInv => RowsOfOthersStay
    BY DEF IInv, SheetInv, RowsOfOthersStay
  <1> QED BY SpecIInv, <1>1, PTL

\* A row of the sheet that one synchronisation hides by an older reading is back when all are
\* through.
THEOREM SheetRowsComeBack == Spec => []SheetRowsShown
  <1>1. IInv => SheetRowsShown
    BY DEF IInv, OwedInv, SyncInv, SheetRowsShown
  <1> QED BY SpecIInv, <1>1, PTL

\* An undisturbed synchronisation leaves nothing that went from the sheet but lost writes.
THEOREM DeletionsAreHidden == Spec => DeletionsHidden
  <1>1. ASSUME IInv, [Next]_vars, NEW t \in Thread, sync[t].pc = "hide", sync[t].todo = {},
               sync'[t].pc = "idle", sync[t].calm
        PROVE  (sync[t].seen \ sheet) \cap shown' \subseteq sync[t].lost
    <2>1. (sync[t].seen \ sheet) \cap shown \subseteq sync[t].lost
      BY <1>1 DEF IInv, SyncInv
    <2>2. shown' \subseteq shown \cup sheet
      <3>1. ASSUME NEW c \in Code, OtherRequest(c) PROVE FALSE
        <4>1. sync'[t] = [sync[t] EXCEPT !.calm = FALSE] /\ sync[t] \in Sync
          BY <1>1, <3>1 DEF OtherRequest, Disturbed, IInv, StateInv
        <4> QED BY <1>1, <4>1 DEF Sync
      <3>2. ASSUME NEW s \in Thread, Start(s) \/ ReadSheet(s) \/ Hide(s) \/ Upsert(s) \/ Fail(s)
            PROVE  shown' \subseteq shown \cup sheet
        BY <3>2 DEF Start, history, ReadSheet, Hide, Upsert, SecondRead, Fail
      <3> QED BY <1>1, <3>1, <3>2 DEF Next, vars, EditSheet
    <2> QED BY <2>1, <2>2
  <1>2. IInv /\ [Next]_vars =>
           [\A t \in Thread :
               LET q == sync[t] IN
               q.pc = "hide" /\ q.todo = {} /\ sync'[t].pc = "idle" /\ q.calm
               => (q.seen \ sheet) \cap shown' \subseteq q.lost]_vars
    BY <1>1
  <1> QED BY SpecIInv, <1>2, PTL DEF Spec, DeletionsHidden
=============================================================================
