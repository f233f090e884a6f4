----------------------------- MODULE DeletedRows -----------------------------
(***************************************************************************)
(* Controller.synchronizeSheetsToDataBase for one table of one realm: rows *)
(* that have gone from the sheet are taken out of the database (hidden in  *)
(* the realm "hidden", or removed if they are links), then the rows of the *)
(* sheet are written.  What has gone is the difference between the data    *)
(* that the library saved last, in a static map, and a first reading of    *)
(* the sheet; what is written comes from a second one.  The endpoint makes *)
(* its Controller with new, so @Transactional does nothing: every write    *)
(* takes effect on its own, throws, or is lost in the entity manager, and  *)
(* synchronisations run beside each other and beside other requests.       *)
(***************************************************************************)
EXTENDS FiniteSets

CONSTANTS
    Code,    \* keys of the table's rows
    Thread,  \* request threads
    Nothing  \* no data of the table at all

ASSUME NothingAssumption == \A S \in SUBSET Code : S # Nothing

VARIABLES
    sheet,   \* rows of the table in the Google sheet
    shown,   \* rows of the table in the realm
    saved,   \* BatchLoading.savedProjectData for the table
    sync,    \* per thread, the synchronisation it runs
    everIn,  \* history: rows that have been in the sheet
    others,  \* history: rows that other requests made and the sheet never had
    owed     \* history: rows that finished synchronisations have to have shown

vars == <<sheet, shown, saved, sync, everIn, others, owed>>
history == <<everIn, others, owed>>

(***************************************************************************)
(* A synchronisation: the copy of the saved data, the sheet as first read, *)
(* and the rows still to hide.  History: rows it has hidden, rows whose    *)
(* hiding was lost, and whether nobody else changed the sheet or the rows. *)
(***************************************************************************)
Data == {Nothing} \cup SUBSET Code
Sync == [pc : {"idle", "read", "hide"}, seen : Data, read : Data, todo : SUBSET Code,
         hid : SUBSET Code, lost : SUBSET Code, calm : BOOLEAN]
Idle == [pc |-> "idle", seen |-> Nothing, read |-> Nothing, todo |-> {},
         hid |-> {}, lost |-> {}, calm |-> TRUE]

Ends(t) == sync' = [sync EXCEPT ![t] = Idle]
\* A change of the sheet or of the rows from outside disturbs all that run.
Disturbed == [s \in Thread |-> [sync[s] EXCEPT !.calm = FALSE]]

----------------------------------------------------------------------------
\* The server has started and imported the sheets, or has not imported them.
Init ==
    /\ sheet \in SUBSET Code
    /\ shown = sheet /\ everIn = sheet
    /\ saved \in {sheet, Nothing}
    /\ sync = [t \in Thread |-> Idle]
    /\ others = {} /\ owed = {}

\* retrieveDeletionRecords: a copy of the saved data.
Start(t) ==
    /\ sync[t].pc = "idle"
    /\ sync' = [s \in Thread |->
          IF s = t THEN [Idle EXCEPT !.pc = "read", !.seen = saved,
                                     !.calm = \A o \in Thread \ {t} : sync[o].pc = "idle"]
          ELSE [sync[s] EXCEPT !.calm = FALSE]]
    /\ UNCHANGED <<sheet, shown, saved, history>>

\* (Mutants: what the sheet lacks of the data saved by now, or of all rows; everything, when
\* the sheet has not been read.)
DeletionsOfSaved(seen, read) == IF read = Nothing THEN {} ELSE saved' \ read
DeletionsOfRows(seen, read) == IF read = Nothing THEN {} ELSE shown \ read
DeletionsUnchecked(seen, read) == IF read = Nothing THEN seen ELSE seen \ read
\* The keys of the copy that the sheet does not have; none if the sheet has not been read.
Deletions(seen, read) == IF read = Nothing THEN {} ELSE seen \ read

\* The first persistProject, which reads the sheet or does not get it, and may save what it
\* read and write the rows.  Without saved data the comparison then dereferences null.
ReadSheet(t) ==
    LET q == sync[t] IN
    /\ q.pc = "read"
    /\ saved' \in {saved, sheet}
    /\ shown' \in {shown, shown \cup sheet}
    /\ \E read \in {sheet, Nothing} :
          IF q.seen = Nothing THEN Ends(t)
          ELSE sync' = [sync EXCEPT ![t] = [q EXCEPT !.pc = "hide", !.read = read,
                  !.todo = Deletions(q.seen, read), !.calm = @ /\ read # Nothing]]
    /\ UNCHANGED <<sheet, history>>

\* One record of updateBaseEntity, updateAttributes, updateEntityEntity and their like: a row
\* that is not found is passed over, and a write may be lost.
Hide(t) ==
    LET q == sync[t] IN
    /\ q.pc = "hide"
    /\ \E c \in q.todo :
          \/ /\ shown' = shown \ {c}
             /\ sync' = [sync EXCEPT ![t].todo = @ \ {c}, ![t].hid = @ \cup {c}]
          \/ /\ sync' = [sync EXCEPT ![t].todo = @ \ {c}, ![t].lost = @ \cup {c}]
             /\ UNCHANGED shown
    /\ UNCHANGED <<sheet, saved, history>>

\* (A mutant: the sheet is not read a second time.)
FirstRead(q) == IF q.read = Nothing THEN {} ELSE q.read
\* The rows that are written are those of a second reading.
SecondRead(q) == sheet

\* The second persistProject.
Upsert(t) ==
    LET q == sync[t] IN
    /\ q.pc = "hide" /\ q.todo = {}
    /\ \E lost \in SUBSET (SecondRead(q) \ shown) :
          /\ shown' = shown \cup (SecondRead(q) \ lost)
          /\ owed' = (owed \ q.hid) \cup (sheet \ lost)
    /\ saved' \in {saved, sheet}
    /\ Ends(t)
    /\ UNCHANGED <<sheet, everIn, others>>

\* An exception, which only NoResultException of a single record is not; or the server dies.
Fail(t) ==
    /\ sync[t].pc # "idle"
    /\ owed' = owed \ sync[t].hid
    /\ Ends(t)
    /\ UNCHANGED <<sheet, shown, saved, everIn, others>>

\* The sheet gains or loses a row.
EditSheet(c) ==
    /\ sheet' = IF c \in sheet THEN sheet \ {c} ELSE sheet \cup {c}
    /\ everIn' = everIn \cup {c}
    /\ others' = others \ {c}
    /\ sync' = Disturbed
    /\ UNCHANGED <<shown, saved, owed>>

\* Another request creates or removes a row.
OtherRequest(c) ==
    /\ shown' = IF c \in shown THEN shown \ {c} ELSE shown \cup {c}
    /\ others' = (others \ {c}) \cup ({c} \ (shown \cup everIn))
    /\ owed' = owed \ {c}
    /\ sync' = Disturbed
    /\ UNCHANGED <<sheet, saved, everIn>>

Next ==
    \/ \E t \in Thread : Start(t) \/ ReadSheet(t) \/ Hide(t) \/ Upsert(t) \/ Fail(t)
    \/ \E c \in Code : EditSheet(c) \/ OtherRequest(c)

Spec == Init /\ [][Next]_vars

----------------------------------------------------------------------------
TypeOK ==
    /\ sheet \subseteq Code /\ shown \subseteq Code
    /\ saved \in Data
    /\ sync \in [Thread -> Sync]
    /\ \A t \in Thread : sync[t].todo # {} => sync[t].seen # Nothing /\ sync[t].read # Nothing
    /\ sheet \subseteq everIn /\ everIn \subseteq Code /\ owed \subseteq Code
    /\ others \subseteq Code \ everIn

\* A row that another request has made and the sheet never had stays, whatever synchronisations
\* run over the table (retrieveDeletionRecords).
RowsOfOthersStay == others \subseteq shown

\* When no synchronisation runs, every row that was in the sheet when one of them wrote its
\* rows is there: one that went by an older sheet has not taken it away for good, unless it
\* failed halfway, its write was lost, or another request removed the row
\* (synchronizeSheetsToDataBase, which reads the sheet again before it writes).
SheetRowsShown == (\A t \in Thread : sync[t].pc = "idle") => owed \subseteq shown

\* When a synchronisation comes to its end and nobody has changed the sheet or the rows since
\* it began, none of the rows that went from the sheet since the data was saved is left, but
\* for lost writes (retrieveDeletionRecords, which copies the saved data before it
\* reads the sheet).
DeletionsHidden ==
    [][\A t \in Thread :
          LET q == sync[t] IN
          q.pc = "hide" /\ q.todo = {} /\ sync'[t].pc = "idle" /\ q.calm
          => (q.seen \ sheet) \cap shown' \subseteq q.lost]_vars
=============================================================================
