-------------------------------- MODULE Store --------------------------------
(***************************************************************************)
(* The database (database-sqlite.c) with what is kept of it in memory: the *)
(* bookmarks (bookmarks.c), the quickmarks (marks.c) and the jump list of  *)
(* the document that is open.                                              *)
(*                                                                         *)
(* Bookmarks are written one statement at a time, when they are made.  The *)
(* two lists are written as a whole, in a transaction, when the document   *)
(* is closed and, with "continuous-hist-save", by page_set.  Several       *)
(* processes use one database file; what SQLite does about them is         *)
(* modelled from its rollback journal: one of them can have a transaction  *)
(* that writes, the others' writes fail with SQLITE_BUSY meanwhile (the    *)
(* timeout of a second over), and a COMMIT that fails so leaves its        *)
(* transaction open and keeps new readers out.                             *)
(* Bookmarks, marks and jumps are known by their names; the table of the   *)
(* places where files were left is in DocumentLife.                        *)
(***************************************************************************)
EXTENDS Integers, FiniteSets, Sequences

CONSTANTS
    Procs,      \* the processes of zathura
    Files,      \* the documents
    Ids,        \* names of bookmarks
    Rows,       \* what a jump list and what the quickmarks can hold
    Layouts,    \* the database files there can be at first
    MaxFaults,  \* bound: failing statements and killed processes
    None        \* the NULL pointer

ASSUME FaultsAssumption == MaxFaults \in Nat

Lists == {"jumplist", "quickmarks"}
ASSUME RowsAssumption == DOMAIN Rows = Lists
Entries == UNION {Rows[l] : l \in Lists}

\* The tables, in the order in which they are made.
Tables == <<"bookmarks", "jumplist", "fileinfo", "history", "quickmarks", "highlights",
            "notes">>
TableNames == {Tables[i] : i \in DOMAIN Tables}

\* The columns that older versions do not have; `typed' is a first_page_column that is TEXT.
InfoColumns == {"pages_per_row", "position_x", "position_y", "first_page_column", "typed",
                "time", "zoom", "page_right_to_left", "sha256", "adjust_mode"}
BookmarkColumns == {"hadj_ratio", "vadj_ratio"}
Columns == InfoColumns \cup BookmarkColumns

\* The columns each ALTER adds, one statement each; the first is looked for before.
Alterations ==
    <<<<"pages_per_row", "position_x", "position_y">>, <<"first_page_column">>, <<"time">>,
      <<"zoom">>, <<"page_right_to_left">>, <<"hadj_ratio", "vadj_ratio">>>>
LookedFor == {Alterations[i][1] : i \in DOMAIN Alterations} \cup {"typed"}

DatabaseVersion == 6

\* Ghost: `skipped', the columns whose look-up had no answer in the upgrade that set
\* the version.
Layout == [exists : BOOLEAN, version : 0 .. DatabaseVersion, tables : SUBSET TableNames,
           columns : SUBSET Columns, skipped : SUBSET Columns]

\* What the versions that set it have left behind.
Written(y) ==
    /\ ~y.exists => y.tables = {}
    /\ y.version < DatabaseVersion => y.skipped = {}
    /\ y.version >= 1 => LookedFor \subseteq y.columns \cup y.skipped
    /\ y.version >= 2 => "sha256" \in y.columns
    /\ y.version = DatabaseVersion => TableNames \subseteq y.tables

ASSUME LayoutsAssumption == Layouts \subseteq {y \in Layout : Written(y)}

VARIABLES
    db,         \* what is committed
    tx,         \* the transaction that writes: its process, what the file would be
                \* after it, and whether its COMMIT keeps readers out; or None
    session,    \* the processes
    faults      \* how many statements have failed and processes were killed

vars == <<db, tx, session, faults>>

Data == [layout : Layout, bookmarks : [Files -> SUBSET Ids],
         lists : [Files -> [Lists -> SUBSET Entries]]]
Transactions == [owner : Procs, data : Data, pending : BOOLEAN]

ASSUME NoneAssumption == None \notin Files \cup Procs \cup Transactions

Stages == {"off", "create", "check", "alter", "retype", "sha256", "version",
           "idle", "readd", "delete", "insert", "commit"}

\* `at', `column': how far an upgrade has come in Alterations.  `begun': the connection
\* is inside a transaction.  `closing': the document is closed when its lists are saved.
\* Ghosts: `skipped', the columns that were not there and not added, a look-up having had
\* no answer; `stuck', the connection got into a transaction for good; `drift', the
\* bookmarks in memory need not be those in the table.
Sessions ==
    [stage : Stages, was : 0 .. DatabaseVersion, fresh : BOOLEAN, ok : BOOLEAN,
     at : 0 .. 6, column : 0 .. 3, skipped : SUBSET Columns, alive : BOOLEAN,
     document : Files \cup {None}, bookmarks : SUBSET Ids, lists : [Lists -> SUBSET Entries],
     closing : BOOLEAN, saving : Lists, todo : SUBSET (Ids \cup Entries),
     begun : BOOLEAN, stuck : BOOLEAN, drift : BOOLEAN]

TypeOK ==
    /\ db \in Data
    /\ tx \in Transactions \cup {None}
    /\ session \in [Procs -> Sessions]
    /\ faults \in 0 .. MaxFaults

NoRows == [l \in Lists |-> {}]
Off == [stage |-> "off", was |-> 0, fresh |-> FALSE, ok |-> TRUE, at |-> 0, column |-> 0,
        skipped |-> {}, alive |-> TRUE, document |-> None, bookmarks |-> {},
        lists |-> NoRows, closing |-> FALSE, saving |-> "jumplist", todo |-> {},
        begun |-> FALSE, stuck |-> FALSE, drift |-> FALSE]

Init ==
    /\ \E y \in Layouts :
         db = [layout |-> y, bookmarks |-> [f \in Files |-> {}],
               lists |-> [f \in Files |-> NoRows]]
    /\ tx = None
    /\ session = [p \in Procs |-> Off]
    /\ faults = 0

-----------------------------------------------------------------------------
(***************************************************************************)
(* Statements.                                                             *)
(***************************************************************************)
Owns(p) == tx # None /\ tx.owner = p
View(p) == IF Owns(p) THEN tx.data ELSE db
CanWrite(p) == session[p].alive /\ (tx = None \/ Owns(p))
CanRead(p) == session[p].alive /\ ~(tx # None /\ ~Owns(p) /\ tx.pending)

Fault == faults < MaxFaults /\ faults' = faults + 1

\* Outside a transaction a statement commits by itself; the first one that
\* writes inside a transaction gets the lock.
Executes(p, begun, new) ==
    IF begun \/ Owns(p)
    THEN /\ tx' = [owner |-> p, data |-> new, pending |-> Owns(p) /\ tx.pending]
         /\ UNCHANGED db
    ELSE db' = new /\ UNCHANGED tx

\* A statement that makes the tables what `new' says, or fails, as it must if it does
\* not fit the layout.
Statement(p, begun, fits, new, done) ==
    IF done
    THEN fits /\ CanWrite(p) /\ Executes(p, begun, new) /\ UNCHANGED faults
    ELSE /\ UNCHANGED <<db, tx>>
         /\ IF fits /\ CanWrite(p) THEN Fault ELSE UNCHANGED faults

\* The upgrade is over; its variables are.
Opened(s) == [s EXCEPT !.stage = "idle", !.was = 0, !.fresh = FALSE, !.ok = TRUE,
                       !.at = 0, !.column = 0, !.skipped = {}]

Become(p, s) == session' = [session EXCEPT ![p] = s]

-----------------------------------------------------------------------------
(***************************************************************************)
(* Opening the database: sqlite_db_init, sqlite_db_check_layout.           *)
(***************************************************************************)
\* Without the version there is no database, and zathura does not start.  A file that is
\* not there is made, empty, and is an old database to the next that comes.
Start(p) ==
    LET y == db.layout
    IN  /\ session[p].stage = "off" /\ CanRead(p)
        /\ db' = [db EXCEPT !.layout.exists = TRUE]
        /\ Become(p, IF y.version = DatabaseVersion THEN Opened(Off)
                     ELSE [Off EXCEPT !.stage = "create", !.was = y.version,
                                      !.fresh = ~y.exists])
        /\ UNCHANGED <<tx, faults>>

WithColumns(d, C) == [d EXCEPT !.layout.columns = @ \cup C]

\* A new table has all its columns.
WithTable(d, table) ==
    WithColumns([d EXCEPT !.layout.tables = @ \cup {table}],
                IF table = "fileinfo" THEN InfoColumns
                ELSE IF table = "bookmarks" THEN BookmarkColumns ELSE {})

\* When a table cannot be made the connection is closed, and used.
Broken(s) == [Opened(s) EXCEPT !.alive = FALSE]

\* A session that has come to a stage of the upgrade.
At(s, stage, at, column) == [s EXCEPT !.stage = stage, !.at = at, !.column = column]

Missing(y) == {i \in DOMAIN Tables : Tables[i] \notin y.tables}

\* The first table that is missing is made: one step for each CREATE that does something.
CreateTable(p) ==
    /\ session[p].stage = "create"
    /\ \E i \in Missing(View(p).layout), done \in BOOLEAN :
         /\ \A j \in Missing(View(p).layout) : i <= j
         /\ Statement(p, session[p].begun, TRUE, WithTable(View(p), Tables[i]), done)
         /\ Become(p, IF done THEN session[p] ELSE Broken(session[p]))

\* The tables are there; that takes reading the file.
TablesDone(p) ==
    /\ session[p].stage = "create" /\ Missing(View(p).layout) = {}
    /\ \E done \in BOOLEAN :
         LET s == session[p]
             next == IF s.fresh THEN "version" ELSE IF s.was < 1 THEN "check"
                     ELSE IF s.was < 2 THEN "sha256" ELSE "version"
         IN  /\ IF done THEN CanRead(p) /\ UNCHANGED faults
                ELSE IF CanRead(p) THEN Fault ELSE UNCHANGED faults
             /\ Become(p, IF done THEN At(s, next, IF next = "check" THEN 1 ELSE 0, 0)
                          ELSE Broken(s))
    /\ UNCHANGED <<db, tx>>

\* check_column, check_column_type.  When no statement can be prepared there is no answer;
\* when it cannot be executed no column is found.
LookUp(p, c, answer) ==
    LET truth == IF c \in View(p).layout.columns THEN "found" ELSE "missing"
    IN  IF answer = truth /\ CanRead(p) THEN UNCHANGED faults
        ELSE /\ answer # "found"
             /\ IF CanRead(p) THEN Fault ELSE UNCHANGED faults

Answers == {"found", "missing", "none"}

\* The session that takes it that c is there.
Passes(p, c) ==
    [session[p] EXCEPT !.skipped = @ \cup ({c} \ View(p).layout.columns)]

\* One ALTER is done with: the next column is looked for, or the types are.
NextAlteration(s) ==
    IF s.at < Len(Alterations) THEN At(s, "check", s.at + 1, 0) ELSE At(s, "retype", 0, 0)

\* A look-up without an answer is no failure of the upgrade: the column is left out.
CheckColumn(p) ==
    LET s == session[p]
        c == Alterations[s.at][1]
    IN  /\ s.stage = "check"
        /\ \E answer \in Answers :
             /\ LookUp(p, c, answer)
             /\ Become(p, IF answer = "missing" THEN At(s, "alter", s.at, 1)
                          ELSE NextAlteration(Passes(p, c)))
        /\ UNCHANGED <<db, tx>>

\* A new first_page_column has the right type.
Gives(c) == IF c = "first_page_column" THEN {c, "typed"} ELSE {c}

\* The statements of an ALTER, until one fails: the columns before it stay, and are found
\* at the next start.
AddColumn(p) ==
    LET s == session[p]
        c == Alterations[s.at][s.column]
    IN  /\ s.stage = "alter"
        /\ \E done \in BOOLEAN :
             /\ Statement(p, s.begun, c \notin View(p).layout.columns,
                          WithColumns(View(p), Gives(c)), done)
             /\ Become(p, IF ~done THEN NextAlteration([s EXCEPT !.ok = FALSE])
                          ELSE IF s.column < Len(Alterations[s.at])
                               THEN At(s, "alter", s.at, s.column + 1) ELSE NextAlteration(s))

\* The table fileinfo is made anew in a transaction, and the rows are copied, which takes
\* a table that had all the columns.  Any other does not fit, nor do the rows of a
\* fileinfo that ALTER has filled up, which has no adjust_mode: the transaction stops
\* there, begun.
Retype(p) ==
    LET s == session[p]
    IN  /\ s.stage = "retype"
        /\ \/ /\ \E answer \in Answers \ {"missing"} : LookUp(p, "typed", answer)
              /\ Become(p, At(Passes(p, "typed"), "sha256", 0, 0))
              /\ UNCHANGED <<db, tx>>
           \/ /\ LookUp(p, "typed", "missing")
              /\ InfoColumns \subseteq View(p).layout.columns /\ CanWrite(p)
              /\ Become(p, At(s, "sha256", 0, 0)) /\ UNCHANGED <<db, tx>>
           \/ /\ LookUp(p, "typed", "missing")
              /\ \/ CanWrite(p) /\ Executes(p, TRUE, WithColumns(View(p), InfoColumns))
                 \/ UNCHANGED <<db, tx>>
              /\ Become(p, [s EXCEPT !.stage = "sha256", !.ok = FALSE, !.begun = TRUE,
                                     !.stuck = TRUE])

\* A column that is there is an error: after a crash before SetVersion, at every start.
AddHash(p) ==
    /\ session[p].stage = "sha256"
    /\ \E done \in BOOLEAN :
         /\ Statement(p, session[p].begun, "sha256" \notin View(p).layout.columns,
                      WithColumns(View(p), {"sha256"}), done)
         /\ Become(p, [session[p] EXCEPT !.stage = "version", !.ok = @ /\ done])

WithVersion(p) == [View(p) EXCEPT !.layout.version = DatabaseVersion,
                                  !.layout.skipped = session[p].skipped]

\* Mutant: the version is set whether or not the updates went well.
SetVersionAlways(p) ==
    /\ session[p].stage = "version"
    /\ \E done \in BOOLEAN : Statement(p, session[p].begun, TRUE, WithVersion(p), done)
    /\ Become(p, Opened(session[p]))

SetVersion(p) ==
    /\ session[p].stage = "version"
    /\ IF session[p].ok
       THEN \E done \in BOOLEAN : Statement(p, session[p].begun, TRUE, WithVersion(p), done)
       ELSE UNCHANGED <<db, tx, faults>>
    /\ Become(p, Opened(session[p]))

Upgrade(p) ==
    \/ CreateTable(p) \/ TablesDone(p) \/ CheckColumn(p) \/ AddColumn(p) \/ Retype(p)
    \/ AddHash(p) \/ SetVersion(p)

-----------------------------------------------------------------------------
(***************************************************************************)
(* Documents: zathura_bookmarks_load, zathura_jumplist_load and            *)
(* zathura_quickmarks_load in document_open.                               *)
(***************************************************************************)
\* The statements about bookmarks name these columns.
Rated(p) == BookmarkColumns \subseteq View(p).layout.columns

\* Without an answer the bookmarks stay those of the document before (no statement was
\* prepared) or are those read before a failure, and the two lists start empty.
LoadBookmarks(p, f, answered, otherwise) ==
    IF answered THEN View(p).bookmarks[f] ELSE otherwise

LoadList(p, f, l, answered) == IF answered THEN View(p).lists[f][l] ELSE {}

Readable(p) == IF Rated(p) THEN Lists \cup {"bookmarks"} ELSE Lists

Open(p, f) ==
    LET s == session[p]
    IN  /\ s.stage = "idle" /\ s.document = None
        /\ \E got \in SUBSET Readable(p),
              B \in {s.bookmarks} \cup SUBSET View(p).bookmarks[f] :
             /\ IF CanRead(p)
                THEN IF got = Readable(p) THEN UNCHANGED faults ELSE Fault
                ELSE got = {} /\ UNCHANGED faults
             /\ Become(p, [s EXCEPT
                  !.document = f,
                  !.bookmarks = LoadBookmarks(p, f, "bookmarks" \in got, B),
                  !.drift = "bookmarks" \notin got,
                  !.lists = [l \in Lists |-> LoadList(p, f, l, l \in got)]])
        /\ UNCHANGED <<db, tx>>

-----------------------------------------------------------------------------
(***************************************************************************)
(* Bookmarks: zathura_bookmark_add, zathura_bookmark_remove.               *)
(***************************************************************************)
Ready(p) == session[p].stage = "idle" /\ session[p].document # None

WithBookmarks(p, B) == [View(p) EXCEPT !.bookmarks[session[p].document] = B]
StoredBookmarks(p) == View(p).bookmarks[session[p].document]

\* The session of p after a statement about the bookmarks of its document; it
\* has changed them for the other processes too, unless p is in a transaction.
Bookmarked(p, s, done) ==
    session' = [q \in Procs |->
        IF q = p THEN [s EXCEPT !.drift = @ \/ ~done]
        ELSE [session[q] EXCEPT
                !.drift = @ \/ (done /\ session[q].document = s.document)]]

AddBookmark(p, b) ==
    LET s == session[p]
    IN  /\ Ready(p) /\ b \notin s.bookmarks
        /\ \E done \in BOOLEAN :
             /\ Statement(p, s.begun, Rated(p),
                          WithBookmarks(p, StoredBookmarks(p) \cup {b}), done)
             /\ Bookmarked(p, [s EXCEPT !.bookmarks = @ \cup {b}], done)

\* The bookmark is there: it is removed from the table and added again.
MoveBookmark(p, b) ==
    LET s == session[p]
    IN  /\ Ready(p) /\ b \in s.bookmarks
        /\ \E done \in BOOLEAN :
             /\ Statement(p, s.begun, TRUE, WithBookmarks(p, StoredBookmarks(p) \ {b}), done)
             /\ Bookmarked(p, [s EXCEPT !.stage = "readd", !.todo = {b}], done)

\* Mutant: the old bookmark is not added again.
AddMovedBookmarkNot(p) ==
    /\ session[p].stage = "readd"
    /\ Bookmarked(p, [session[p] EXCEPT !.stage = "idle", !.todo = {}], TRUE)
    /\ UNCHANGED <<db, tx, faults>>

AddMovedBookmark(p) ==
    LET s == session[p]
    IN  /\ s.stage = "readd"
        /\ \E done \in BOOLEAN :
             /\ Statement(p, s.begun, Rated(p),
                          WithBookmarks(p, StoredBookmarks(p) \cup s.todo), done)
             /\ Bookmarked(p, [s EXCEPT !.stage = "idle", !.todo = {}], done)

RemoveBookmark(p, b) ==
    LET s == session[p]
    IN  /\ Ready(p) /\ b \in s.bookmarks
        /\ \E done \in BOOLEAN :
             /\ Statement(p, s.begun, TRUE, WithBookmarks(p, StoredBookmarks(p) \ {b}), done)
             /\ Bookmarked(p, [s EXCEPT !.bookmarks = @ \ {b}], done)

\* :bmark
BookmarkCreate(p, b) == AddBookmark(p, b) \/ MoveBookmark(p, b)

-----------------------------------------------------------------------------
(***************************************************************************)
(* Quickmarks and jumps: mark_add, cmd_marks_delete; jumplist.c (JumpList).*)
(***************************************************************************)
AddRow(p, l, r) ==
    /\ Ready(p) /\ r \notin session[p].lists[l]
    /\ Become(p, [session[p] EXCEPT !.lists[l] = @ \cup {r}])
    /\ UNCHANGED <<db, tx, faults>>

\* A mark is deleted, or the jump list is trimmed.
DropRow(p, l, r) ==
    /\ Ready(p) /\ r \in session[p].lists[l]
    /\ Become(p, [session[p] EXCEPT !.lists[l] = @ \ {r}])
    /\ UNCHANGED <<db, tx, faults>>

-----------------------------------------------------------------------------
(***************************************************************************)
(* Closing: save_fileinfo_to_db, sqlite_save_jumplist and                  *)
(* sqlite_save_quickmarks.                                                 *)
(***************************************************************************)
\* When the document is closed, and by page_set with continuous-hist-save.
Save(p, closing) ==
    /\ Ready(p)
    /\ Become(p, [session[p] EXCEPT !.stage = "delete", !.saving = "jumplist",
                                    !.closing = closing])
    /\ UNCHANGED <<db, tx, faults>>

\* One list is done with: the other is next, or the document is saved.
NextList(s) ==
    IF s.saving = "jumplist"
    THEN [s EXCEPT !.stage = "delete", !.saving = "quickmarks", !.todo = {}]
    ELSE IF s.closing
    THEN [s EXCEPT !.stage = "idle", !.document = None, !.lists = NoRows, !.todo = {},
                   !.closing = FALSE, !.saving = "jumplist", !.drift = FALSE]
    ELSE [s EXCEPT !.stage = "idle", !.todo = {}, !.saving = "jumplist"]

WithList(p, R) ==
    [View(p) EXCEPT !.lists[session[p].document][session[p].saving] = R]

\* Mutant: no transaction.
DeleteListAlone(p) ==
    LET s == session[p]
    IN  /\ s.stage = "delete"
        /\ \E done \in BOOLEAN :
             /\ Statement(p, s.begun, TRUE, WithList(p, {}), done)
             /\ Become(p, IF done /\ s.lists[s.saving] # {}
                          THEN [s EXCEPT !.todo = s.lists[s.saving], !.stage = "insert"]
                          ELSE NextList(s))

\* BEGIN fails inside a transaction; else it takes no lock before the DELETE.
DeleteList(p) ==
    LET s == session[p]
    IN  /\ s.stage = "delete"
        /\ \/ /\ s.begun /\ UNCHANGED <<db, tx, faults>> /\ Become(p, NextList(s))
           \/ /\ ~s.begun
              /\ \E done \in BOOLEAN :
                   /\ Statement(p, TRUE, TRUE, WithList(p, {}), done)
                   /\ Become(p, IF done
                                THEN [s EXCEPT !.begun = TRUE, !.todo = s.lists[s.saving],
                                               !.stage = IF s.lists[s.saving] = {}
                                                         THEN "commit" ELSE "insert"]
                                ELSE NextList(s))

Rollback == tx' = None /\ UNCHANGED db

\* Mutant: no ROLLBACK when a row cannot be inserted.
InsertRowOrLeave(p) ==
    LET s == session[p]
        stored == View(p).lists[s.document][s.saving]
    IN  /\ s.stage = "insert"
        /\ \/ \E row \in s.todo :
                /\ Statement(p, s.begun, TRUE, WithList(p, stored \cup {row}), TRUE)
                /\ Become(p, [s EXCEPT !.todo = @ \ {row},
                                       !.stage = IF s.todo = {row} THEN "commit" ELSE "insert"])
           \/ Fault /\ UNCHANGED <<db, tx>> /\ Become(p, NextList(s))

InsertRow(p) ==
    LET s == session[p]
        stored == View(p).lists[s.document][s.saving]
    IN  /\ s.stage = "insert"
        /\ \/ \E row \in s.todo :
                /\ Statement(p, s.begun, TRUE, WithList(p, stored \cup {row}), TRUE)
                /\ Become(p, [s EXCEPT !.todo = @ \ {row},
                                       !.stage = IF s.todo = {row} THEN "commit" ELSE "insert"])
           \/ /\ Fault /\ Rollback
              /\ Become(p, NextList([s EXCEPT !.begun = FALSE]))

\* The result of COMMIT is not looked at: it can be rolled back by SQLite, or
\* a reader can be in the way for longer than the timeout.
Commit(p) ==
    LET s == session[p]
    IN  /\ s.stage = "commit"
        /\ \/ /\ db' = tx.data /\ tx' = None /\ UNCHANGED faults
              /\ Become(p, NextList([s EXCEPT !.begun = FALSE]))
           \/ /\ Fault /\ Rollback /\ Become(p, NextList([s EXCEPT !.begun = FALSE]))
           \/ /\ Fault /\ tx' = [tx EXCEPT !.pending = TRUE] /\ UNCHANGED db
              /\ Become(p, NextList([s EXCEPT !.stuck = TRUE]))

\* The process is killed, or quits without a document; SQLite rolls back.
Exit(p) ==
    LET s == session[p]
    IN  /\ s.stage # "off"
        /\ IF s.stage = "idle" /\ s.document = None THEN UNCHANGED faults ELSE Fault
        /\ tx' = IF Owns(p) THEN None ELSE tx
        /\ Become(p, Off)
        /\ UNCHANGED db

Next ==
    \E p \in Procs :
        \/ Start(p) \/ Upgrade(p)
        \/ \E f \in Files : Open(p, f)
        \/ \E b \in Ids : BookmarkCreate(p, b) \/ RemoveBookmark(p, b)
        \/ AddMovedBookmark(p)
        \/ \E l \in Lists : \E r \in Rows[l] : AddRow(p, l, r) \/ DropRow(p, l, r)
        \/ Save(p, TRUE) \/ Save(p, FALSE) \/ DeleteList(p) \/ InsertRow(p) \/ Commit(p)
        \/ Exit(p)

Spec == Init /\ [][Next]_vars

-----------------------------------------------------------------------------
(***************************************************************************)
(* Properties.                                                             *)
(***************************************************************************)
\* The bookmarks a process shows are the rows its connection sees, whatever is done in
\* which order, unless a statement of its failed or another process changed them too:
\* bookmarks.c keeps the list and the table in step by hand.
BookmarksAgree ==
    \A p \in Procs :
        (Ready(p) /\ ~session[p].drift) =>
            session[p].bookmarks = StoredBookmarks(p)

\* Nobody waits for a process that is not saving: outside the two save functions no
\* connection is in a transaction, except after a COMMIT that failed and after the
\* rebuilding of fileinfo.
TransactionsEnd ==
    \A p \in Procs :
        (Owns(p) \/ session[p].begun) =>
            session[p].stage \in {"insert", "commit"} \/ session[p].stuck

\* So it is of every session, well typed.
WellFormed == TypeOK /\ TransactionsEnd

\* A version that is current means the layout is, so that no later start would look
\* again: whoever upgrades beside whom, and whoever dies in between, there are all tables,
\* sha256, and every column that is looked for, except those whose look-up had no answer
\* in the upgrade that set the version.  Nobody looks for position_x, position_y and
\* vadj_ratio: a process that dies or fails between the statements of an ALTER loses them.
VersionTellsLayout ==
    db.layout.version = DatabaseVersion =>
        /\ TableNames \subseteq db.layout.tables
        /\ LookedFor \subseteq db.layout.columns \cup db.layout.skipped
        /\ "sha256" \in db.layout.columns

\* A stored list is replaced as a whole, by what the process has in memory when it saves,
\* on a close or by page_set; a process that dies or fails in between leaves the list there was.
ListsSavedWhole ==
    [][\A f \in Files, l \in Lists :
         db'.lists[f][l] # db.lists[f][l] =>
            \E p \in Procs : /\ session[p].document = f /\ session[p].saving = l
                             /\ session[p].stage = "commit"
                             /\ db'.lists[f][l] = session[p].lists[l]]_vars

=============================================================================
