----------------------------- MODULE StoreProofs -----------------------------
(***************************************************************************)
(* Proofs about Store, for any number of processes, documents and faults:  *)
(* sessions are well typed and wait for nobody who is not saving, the      *)
(* bookmarks in memory are those of the table, a current version means a   *)
(* current layout whoever died in between, and a stored list is replaced   *)
(* as a whole.                                                             *)
(***************************************************************************)
EXTENDS Store, TLAPS

Saving == {"insert", "commit"}
Upgrading == {"create", "check", "alter", "retype", "sha256", "version"}

\* Tables that were made by this version, not by an older one.
Whole(y) ==
    /\ "fileinfo" \in y.tables => InfoColumns \subseteq y.columns
    /\ "bookmarks" \in y.tables => BookmarkColumns \subseteq y.columns

\* The first n columns that are looked for have been found, added or left out.
Found(s, y, n) == \A i \in 1 .. n : Alterations[i][1] \in y.columns \cup s.skipped

\* What an upgrade can count on from its start.
Counts(s, y) ==
    /\ s.was >= 1 => LookedFor \subseteq y.columns \cup s.skipped
    /\ s.was >= 2 => "sha256" \in y.columns
    /\ s.fresh => Whole(y)

\* What an upgrade that has come so far without a failure can count on: the layout
\* the connection sees, by the stage it is in.
Known(s, y) ==
    /\ s.stage \notin Upgrading => s.was = 0 /\ ~s.fresh
    /\ Counts(s, y)
    /\ s.stage \in Upgrading \ {"create"} => TableNames \subseteq y.tables
    /\ s.stage \in {"check", "alter"} => s.at \in 1 .. 6
    /\ s.stage \in {"check", "alter"} /\ s.ok => Found(s, y, s.at - 1)
    /\ s.stage = "alter" => s.column \in 1 .. Len(Alterations[s.at])
    /\ s.stage = "alter" /\ s.column > 1 => Alterations[s.at][1] \in y.columns
    /\ s.stage = "retype" /\ s.ok => Found(s, y, 6)
    /\ s.stage = "sha256" /\ s.ok => LookedFor \subseteq y.columns \cup s.skipped
    /\ s.stage = "version" /\ s.ok =>
          LookedFor \subseteq y.columns \cup s.skipped /\ "sha256" \in y.columns

\* Nobody takes anything away from a layout, and new tables have all their columns.
Grows(y, z) ==
    /\ y.columns \subseteq z.columns
    /\ y.tables \subseteq z.tables
    /\ y.exists => z.exists
    /\ "fileinfo" \in z.tables \ y.tables => InfoColumns \subseteq z.columns
    /\ "bookmarks" \in z.tables \ y.tables => BookmarkColumns \subseteq z.columns

\* Who is in a transaction, when a document is open, and what is to be added again.
Stands(s, owns) ==
    /\ s.begun <=> s.stuck \/ s.stage \in Saving
    /\ s.stage \in Saving => ~s.stuck /\ owns
    /\ owns => s.begun
    /\ s.stage \in Saving \cup {"delete", "readd"} => s.document # None
    /\ s.stage \in Upgrading \cup {"off"} => s.document = None
    /\ s.stage = "off" => ~s.begun
    /\ s.stage = "readd" => s.todo \subseteq Ids

Reads(s, d) ==
    s.document # None /\ ~s.drift =>
        /\ s.stage \in Saving \cup {"idle", "delete"} => s.bookmarks = d.bookmarks[s.document]
        /\ s.stage = "readd" => s.bookmarks = d.bookmarks[s.document] \cup s.todo

\* The transaction of a process that saves changes one list and nothing else.
Writes(s, d, committed) ==
    s.stage \in Saving =>
        /\ d = [committed EXCEPT !.lists[s.document][s.saving] = s.lists[s.saving] \ s.todo]
        /\ s.todo \subseteq s.lists[s.saving]
        /\ s.stage = "commit" <=> s.todo = {}

ProcInv(p) ==
    /\ Known(session[p], View(p).layout)
    /\ Stands(session[p], Owns(p))
    /\ Reads(session[p], View(p))
    /\ Writes(session[p], View(p), db)
    /\ Written(View(p).layout)
    /\ session[p].stage # "off" => db.layout.exists /\ View(p).layout.exists

StoreInv == TypeOK /\ Written(db.layout) /\ \A p \in Procs : ProcInv(p)

-----------------------------------------------------------------------------
(***************************************************************************)
(* Lemmas.                                                                 *)
(***************************************************************************)
\* What a connection sees is data.
LEMMA ViewIsData ==
    ASSUME TypeOK, NEW p
    PROVE  View(p) \in Data
  BY DEF TypeOK, View, Owns, Transactions

\* The tables are made what `new' says, or the statement fails.
Carries(p, begun, new, done) ==
    /\ faults' \in 0 .. MaxFaults
    /\ IF done THEN CanWrite(p) /\ Executes(p, begun, new) ELSE UNCHANGED <<db, tx>>

LEMMA StatementCarries ==
    ASSUME TypeOK, NEW p \in Procs, NEW begun, NEW fits, NEW new, NEW done \in BOOLEAN,
           Statement(p, begun, fits, new, done)
    PROVE  Carries(p, begun, new, done)
<1>1. faults' = faults \/ Fault
  BY DEF Statement
<1>2. faults' \in 0 .. MaxFaults
  BY <1>1, FaultsAssumption DEF Fault, TypeOK
<1> QED BY <1>2 DEF Statement, Carries

\* A statement that is done makes the tables what it says for its own connection, and
\* for the others unless it is in a transaction; one that is not done leaves them.
LEMMA StatementEffect ==
    ASSUME TypeOK, NEW p \in Procs, NEW begun \in BOOLEAN,
           NEW new \in Data, NEW done \in BOOLEAN, Carries(p, begun, new, done)
    PROVE  /\ db' \in Data /\ tx' \in Transactions \cup {None} /\ faults' \in 0 .. MaxFaults
           /\ ~done => db' = db /\ tx' = tx
           /\ done => \A q \in Procs \ {p} : ~Owns(q) /\ ~Owns(q)'
           /\ done => View(p)' = new
           /\ done => (Owns(p)' <=> begun \/ Owns(p))
           /\ done /\ ~begun /\ ~Owns(p) => db' = new
           /\ done /\ (begun \/ Owns(p)) => db' = db /\ tx'.data = new
<1> USE NoneAssumption
<1>1. CASE ~done
  BY <1>1, FaultsAssumption DEF Carries, TypeOK
<1>2. CASE done
  <2>1. CanWrite(p) /\ Executes(p, begun, new) /\ faults' \in 0 .. MaxFaults
    BY <1>2 DEF Carries
  <2>2. CASE begun \/ Owns(p)
    <3> DEFINE t == [owner |-> p, data |-> new, pending |-> Owns(p) /\ tx.pending]
    <3>1. tx' = t /\ db' = db
      BY <2>1, <2>2 DEF Executes
    <3>2. t \in Transactions /\ t.owner = p /\ t.data = new
      <4>1. (Owns(p) /\ tx.pending) \in BOOLEAN
        OBVIOUS
      <4> QED BY <4>1 DEF Transactions
    <3> HIDE DEF t
    <3> QED BY <1>2, <2>1, <2>2, <3>1, <3>2 DEF CanWrite, View, Owns, TypeOK
  <2>3. CASE ~begun /\ ~Owns(p)
    <3>1. db' = new /\ tx' = tx /\ tx = None
      BY <2>1, <2>3 DEF Executes, CanWrite
    <3> QED BY <1>2, <2>1, <2>3, <3>1 DEF View, Owns, TypeOK
  <2> QED BY <2>2, <2>3
<1> QED BY <1>1, <1>2

LEMMA StatementView ==
    ASSUME TypeOK, NEW p \in Procs, NEW begun \in BOOLEAN,
           NEW new \in Data, Carries(p, begun, new, TRUE)
    PROVE  View(p)' = new
<1> USE NoneAssumption
<1>1. CanWrite(p) /\ Executes(p, begun, new)
  BY DEF Carries
<1>2. CASE begun \/ Owns(p)
  <2>1. tx' = [owner |-> p, data |-> new, pending |-> Owns(p) /\ tx.pending]
    BY <1>1, <1>2 DEF Executes
  <2>2. tx'.owner = p /\ tx'.data = new /\ tx' \in Transactions
    BY <2>1 DEF Transactions
  <2> QED BY <2>2 DEF View, Owns
<1>3. CASE ~begun /\ ~Owns(p)
  BY <1>1, <1>3 DEF Executes, View, Owns
<1> QED BY <1>2, <1>3

\* What an upgrade counts on stays when the layout grows.
LEMMA KnownGrows ==
    ASSUME NEW s, NEW y, NEW z, Grows(y, z), Known(s, y)
    PROVE  Known(s, z)
<1>1. y.columns \subseteq z.columns /\ y.tables \subseteq z.tables
  BY DEF Grows
<1>2. Whole(y) => Whole(z)
  BY DEF Whole, Grows
<1>3. \A n : Found(s, y, n) => Found(s, z, n)
  BY <1>1 DEF Found
<1> QED BY <1>1, <1>2, <1>3 DEF Known, Counts

LEMMA GrowsItself == \A y : Grows(y, y)
  BY DEF Grows

\* What the other processes see of a step: their sessions stay, except that their
\* bookmarks may be declared out of date, their transactions stay, and the layout grows.
Undisturbed(q) ==
    /\ session'[q] \in {session[q], [session[q] EXCEPT !.drift = TRUE]}
    /\ Owns(q)' <=> Owns(q)
    /\ Owns(q) => db' = db /\ tx' = tx
    /\ db.layout.exists => db'.layout.exists
    /\ Grows(View(q).layout, View(q)'.layout) /\ Written(View(q)'.layout)
    /\ \/ session'[q].drift \/ session[q].document = None
       \/ View(q)'.bookmarks[session[q].document] = View(q).bookmarks[session[q].document]

LEMMA OthersStay ==
    ASSUME StoreInv, NEW q \in Procs, Undisturbed(q)
    PROVE  ProcInv(q)'
<1> DEFINE s == session[q]
           t == session'[q]
<1>1. s \in Sessions
  BY DEF StoreInv, TypeOK
<1>2. /\ t.stage = s.stage /\ t.was = s.was /\ t.fresh = s.fresh /\ t.ok = s.ok
      /\ t.document = s.document /\ t.bookmarks = s.bookmarks /\ t.lists = s.lists
      /\ t.at = s.at /\ t.column = s.column /\ t.skipped = s.skipped
      /\ t.saving = s.saving /\ t.todo = s.todo /\ t.begun = s.begun /\ t.stuck = s.stuck
      /\ t.drift = s.drift \/ t.drift = TRUE
  BY <1>1 DEF Undisturbed, Sessions
<1>3. ProcInv(q)
  BY DEF StoreInv
<1> HIDE DEF s, t
<1>4. Known(t, View(q)'.layout)
  <2>1. Known(s, View(q)'.layout)
    BY <1>3, KnownGrows DEF Undisturbed, ProcInv, s
  <2> QED BY <1>2, <2>1 DEF Known, Counts, Found
<1>5. Stands(t, Owns(q)')
  BY <1>2, <1>3 DEF Undisturbed, ProcInv, Stands, s
<1>6. Reads(t, View(q)')
  BY <1>2, <1>3 DEF Undisturbed, ProcInv, Reads, s, t
<1>7. Writes(t, View(q)', db')
  <2>1. CASE s.stage \in Saving
    <3>1. Owns(q) /\ db' = db /\ tx' = tx
      BY <1>3, <2>1 DEF ProcInv, Stands, Undisturbed, s
    <3>2. View(q)' = View(q)
      BY <3>1 DEF View, Owns
    <3>3. Writes(s, View(q), db)
      BY <1>3 DEF ProcInv, s
    <3> QED BY <1>2, <3>1, <3>2, <3>3 DEF Writes
  <2>2. CASE s.stage \notin Saving
    BY <1>2, <2>2 DEF Writes
  <2> QED BY <2>1, <2>2
<1>8. t.stage # "off" => db'.layout.exists /\ View(q)'.layout.exists
  BY <1>2, <1>3 DEF Undisturbed, ProcInv, Grows, s
<1> QED BY <1>4, <1>5, <1>6, <1>7, <1>8 DEF ProcInv, Undisturbed, t

\* A step of one process.
LEMMA StepOf ==
    ASSUME StoreInv, NEW p \in Procs, TypeOK', Written(db.layout)', ProcInv(p)',
           \A q \in Procs \ {p} : Undisturbed(q)
    PROVE  StoreInv'
  BY OthersStay DEF StoreInv

\* A step that leaves the database alone.
LEMMA SilentStep ==
    ASSUME StoreInv, NEW p \in Procs, NEW t \in Sessions, Become(p, t),
           UNCHANGED <<db, tx>>, faults' \in 0 .. MaxFaults,
           Known(t, View(p).layout), Stands(t, Owns(p)), Reads(t, View(p)),
           Writes(t, View(p), db), session[p].stage # "off"
    PROVE  StoreInv'
<1>1. /\ session'[p] = t /\ \A q \in Procs \ {p} : session'[q] = session[q]
      /\ session' \in [Procs -> Sessions]
  BY DEF Become, StoreInv, TypeOK
<1>2. \A q : View(q)' = View(q) /\ (Owns(q)' <=> Owns(q))
  BY DEF View, Owns
<1>3. TypeOK' /\ Written(db.layout)'
  BY <1>1 DEF StoreInv, TypeOK
<1>4. ProcInv(p)'
  BY <1>1, <1>2 DEF StoreInv, ProcInv
<1>5. \A q \in Procs \ {p} : Undisturbed(q)
  BY <1>1, <1>2, GrowsItself DEF StoreInv, ProcInv, Undisturbed
<1> QED BY <1>3, <1>4, <1>5, StepOf

\* The others when one process executes a statement that changes no bookmarks of theirs.
LEMMA StatementDisturbs ==
    ASSUME StoreInv, NEW p \in Procs, NEW begun \in BOOLEAN,
           NEW new \in Data, NEW done \in BOOLEAN, Carries(p, begun, new, done),
           Grows(View(p).layout, new.layout), Written(new.layout),
           NEW q \in Procs \ {p},
           session'[q] \in {session[q], [session[q] EXCEPT !.drift = TRUE]},
           \/ session'[q].drift \/ session[q].document = None
           \/ new.bookmarks[session[q].document] = View(p).bookmarks[session[q].document]
           \/ ~done
    PROVE  Undisturbed(q)
<1> USE DEF StoreInv
<1>1. CASE ~done
  <2>1. db' = db /\ tx' = tx
    BY <1>1, StatementEffect
  <2>2. View(q)' = View(q) /\ (Owns(q)' <=> Owns(q))
    BY <2>1 DEF View, Owns
  <2> QED BY <2>1, <2>2, GrowsItself DEF Undisturbed, ProcInv
<1>2. CASE done
  <2>1. ~Owns(q) /\ ~Owns(q)'
    BY <1>2, StatementEffect
  <2>2. View(q) = db /\ View(q)' = db'
    BY <2>1 DEF View
  <2>3. CASE begun \/ Owns(p)
    <3>1. db' = db
      BY <1>2, <2>3, StatementEffect
    <3> QED BY <2>1, <2>2, <3>1, GrowsItself DEF Undisturbed
  <2>4. CASE ~begun /\ ~Owns(p)
    <3>1. db' = new /\ View(p) = db
      BY <1>2, <2>4, StatementEffect DEF View
    <3>2. db.layout.exists => db'.layout.exists
      BY <3>1 DEF Grows
    <3> QED BY <1>2, <2>1, <2>2, <3>1, <3>2 DEF Undisturbed
  <2> QED BY <2>3, <2>4
<1> QED BY <1>1, <1>2

\* What is committed is well kept after a statement.
LEMMA StatementWritten ==
    ASSUME StoreInv, NEW p \in Procs, NEW begun \in BOOLEAN,
           NEW new \in Data, NEW done \in BOOLEAN, Carries(p, begun, new, done),
           Written(new.layout)
    PROVE  Written(db.layout)' /\ Written(View(p).layout)'
<1> USE DEF StoreInv
<1>1. CASE ~done
  <2>1. db' = db /\ tx' = tx
    BY <1>1, StatementEffect
  <2> QED BY <2>1 DEF ProcInv, View, Owns
<1>2. CASE done
  <2>1. View(p)' = new /\ db' \in {db, new}
    BY <1>2, StatementEffect
  <2> QED BY <2>1
<1> QED BY <1>1, <1>2

\* A statement of an upgrade.
LEMMA UpgradeStep ==
    ASSUME StoreInv, NEW p \in Procs, NEW begun \in BOOLEAN,
           NEW new \in Data, NEW done \in BOOLEAN, Carries(p, begun, new, done),
           new.bookmarks = View(p).bookmarks, new.lists = View(p).lists,
           Grows(View(p).layout, new.layout), Written(new.layout),
           session[p].stage \in Upgrading,
           NEW t \in Sessions, Become(p, t),
           t.stage \in Upgrading \cup {"idle"}, t.document = None,
           t.begun <=> t.stuck, begun \/ session[p].begun => t.begun,
           session[p].begun => begun,
           IF done THEN Known(t, new.layout) ELSE Known(t, View(p).layout)
    PROVE  StoreInv' /\ db'.lists = db.lists
<1> USE DEF StoreInv
<1>1. /\ session'[p] = t /\ \A q \in Procs \ {p} : session'[q] = session[q]
      /\ session' \in [Procs -> Sessions]
  BY DEF Become, TypeOK
<1>2. TypeOK' /\ Written(db.layout)' /\ Written(View(p).layout)'
  BY <1>1, StatementEffect, StatementWritten DEF TypeOK
<1>3. \A q \in Procs \ {p} : Undisturbed(q)
  BY <1>1, StatementDisturbs
<1>4. Owns(p) => session[p].begun
  BY DEF ProcInv, Stands
<1>5. Owns(p)' => t.begun
  <2>1. CASE ~done
    BY <1>4, <2>1, StatementEffect DEF Owns
  <2>2. CASE done
    BY <1>4, <2>2, StatementEffect
  <2> QED BY <2>1, <2>2
<1>6. Known(t, View(p)'.layout)
  <2>1. CASE ~done
    BY <2>1, StatementEffect DEF View, Owns
  <2>2. CASE done
    <3>1. View(p)' = new
      <4>1. Carries(p, begun, new, TRUE)
        BY <2>2
      <4> QED BY <4>1, StatementView
    <3> QED BY <2>2, <3>1
  <2> QED BY <2>1, <2>2
<1>7. /\ Stands(t, Owns(p)') /\ Reads(t, View(p)') /\ Writes(t, View(p)', db')
  BY <1>5 DEF Stands, Reads, Writes, Upgrading, Saving
<1>8. ProcInv(p)'
  <2>1. db.layout.exists
    BY DEF ProcInv, Upgrading
  <2>2. db'.layout.exists
    <3>1. CASE done /\ ~begun /\ ~Owns(p)
      <4>1. db' = new /\ View(p) = db
        BY <3>1, StatementEffect DEF View
      <4> QED BY <2>1, <4>1 DEF Grows
    <3>2. CASE ~(done /\ ~begun /\ ~Owns(p))
      BY <2>1, <3>2, StatementEffect
    <3> QED BY <3>1, <3>2
  <2>3. View(p)'.layout.exists
    <3>1. View(p).layout.exists
      BY DEF ProcInv, Upgrading
    <3>2. CASE ~done
      BY <3>1, <3>2, StatementEffect DEF View, Owns
    <3>3. CASE done
      <4>1. Carries(p, begun, new, TRUE)
        BY <3>3
      <4>2. View(p)' = new
        BY <4>1, StatementView
      <4> QED BY <3>1, <4>2 DEF Grows
    <3> QED BY <3>2, <3>3
  <2> QED BY <1>1, <1>2, <1>6, <1>7, <2>2, <2>3 DEF ProcInv
<1>9. db'.lists = db.lists
  <2>1. CASE done /\ ~begun /\ ~Owns(p)
    BY <2>1, StatementEffect DEF View
  <2>2. CASE ~(done /\ ~begun /\ ~Owns(p))
    BY <2>2, StatementEffect
  <2> QED BY <2>1, <2>2
<1> QED BY <1>2, <1>3, <1>8, <1>9, StepOf

\* A session whose upgrade is over.
LEMMA OpenedProperties ==
    ASSUME NEW s \in Sessions
    PROVE  /\ Opened(s) \in Sessions /\ Opened(s).stage = "idle" /\ Opened(s).was = 0
           /\ Opened(s).fresh = FALSE /\ Opened(s).begun = s.begun
           /\ Opened(s).stuck = s.stuck /\ Opened(s).document = s.document
<1>1. "idle" \in Stages /\ 0 \in 0 .. DatabaseVersion /\ 0 \in 0 .. 6 /\ 0 \in 0 .. 3
  BY DEF Stages, DatabaseVersion
<1> QED BY <1>1 DEF Opened, Sessions

\* Whoever is not upgrading counts on nothing.
LEMMA IdleKnows ==
    ASSUME NEW t, t.stage = "idle", t.was = 0, t.fresh = FALSE, NEW y
    PROVE  Known(t, y)
  BY DEF Known, Counts, Upgrading

\* The columns that are looked for, and those that are added.
LEMMA AlterationsProperties ==
    /\ Len(Alterations) = 6
    /\ \A i \in 1 .. 6 :
         /\ Len(Alterations[i]) \in 1 .. 3
         /\ \A k \in 1 .. Len(Alterations[i]) : Alterations[i][k] \in Columns
    /\ LookedFor = {Alterations[i][1] : i \in 1 .. 6} \cup {"typed"}
<1>1. /\ Len(Alterations) = 6 /\ DOMAIN Alterations = 1 .. 6
      /\ Len(Alterations[1]) = 3 /\ Len(Alterations[2]) = 1 /\ Len(Alterations[3]) = 1
      /\ Len(Alterations[4]) = 1 /\ Len(Alterations[5]) = 1 /\ Len(Alterations[6]) = 2
  BY DEF Alterations
<1>2. /\ Alterations[1][1] = "pages_per_row" /\ Alterations[1][2] = "position_x"
      /\ Alterations[1][3] = "position_y" /\ Alterations[2][1] = "first_page_column"
      /\ Alterations[3][1] = "time" /\ Alterations[4][1] = "zoom"
      /\ Alterations[5][1] = "page_right_to_left" /\ Alterations[6][1] = "hadj_ratio"
      /\ Alterations[6][2] = "vadj_ratio"
  BY DEF Alterations
<1>3. {"pages_per_row", "position_x", "position_y", "first_page_column", "time", "zoom",
       "page_right_to_left", "hadj_ratio", "vadj_ratio"} \subseteq Columns
  BY DEF Columns, InfoColumns, BookmarkColumns
<1>4. ASSUME NEW i \in 1 .. 6
      PROVE  /\ Len(Alterations[i]) \in 1 .. 3
             /\ \A k \in 1 .. Len(Alterations[i]) : Alterations[i][k] \in Columns
  <2>1. i = 1 \/ i = 2 \/ i = 3 \/ i = 4 \/ i = 5 \/ i = 6
    OBVIOUS
  <2>2. \A k \in 1 .. 3 : k = 1 \/ k = 2 \/ k = 3
    OBVIOUS
  <2> HIDE DEF Alterations, Columns
  <2> QED BY <1>1, <1>2, <1>3, <2>1, <2>2
<1>5. LookedFor = {Alterations[i][1] : i \in 1 .. 6} \cup {"typed"}
  BY <1>1 DEF LookedFor
<1> QED BY <1>1, <1>4, <1>5

\* Columns that are added.
LEMMA ColumnsProperties ==
    ASSUME NEW d \in Data, NEW C \in SUBSET Columns
    PROVE  /\ WithColumns(d, C) \in Data
           /\ WithColumns(d, C).bookmarks = d.bookmarks /\ WithColumns(d, C).lists = d.lists
           /\ WithColumns(d, C).layout \in Layout
           /\ C \subseteq WithColumns(d, C).layout.columns
           /\ WithColumns(d, C).layout.columns = d.layout.columns \cup C
           /\ WithColumns(d, C).layout.tables = d.layout.tables
           /\ WithColumns(d, C).layout.exists = d.layout.exists
           /\ WithColumns(d, C).layout.version = d.layout.version
           /\ WithColumns(d, C).layout.skipped = d.layout.skipped
           /\ Grows(d.layout, WithColumns(d, C).layout)
           /\ Written(d.layout) => Written(WithColumns(d, C).layout)
<1> DEFINE new == WithColumns(d, C)
<1>1. /\ new \in Data /\ new.bookmarks = d.bookmarks /\ new.lists = d.lists
      /\ new.layout = [d.layout EXCEPT !.columns = @ \cup C]
  BY DEF WithColumns, Data, Layout
<1>2. /\ new.layout \in Layout /\ new.layout.columns = d.layout.columns \cup C
      /\ new.layout.exists = d.layout.exists /\ new.layout.tables = d.layout.tables
      /\ new.layout.version = d.layout.version /\ new.layout.skipped = d.layout.skipped
  BY <1>1 DEF Data, Layout
<1> HIDE DEF new
<1>3. Grows(d.layout, new.layout) /\ (Written(d.layout) => Written(new.layout))
  BY <1>2 DEF Grows, Written
<1> QED BY <1>1, <1>2, <1>3 DEF new

\* A table that is made.
LEMMA TableProperties ==
    ASSUME NEW d \in Data, NEW table \in TableNames \ d.layout.tables, d.layout.exists,
           Written(d.layout)
    PROVE  /\ WithTable(d, table) \in Data
           /\ WithTable(d, table).bookmarks = d.bookmarks
           /\ WithTable(d, table).lists = d.lists
           /\ Grows(d.layout, WithTable(d, table).layout)
           /\ Written(WithTable(d, table).layout)
<1> DEFINE c == [d EXCEPT !.layout.tables = @ \cup {table}]
           C == IF table = "fileinfo" THEN InfoColumns
                ELSE IF table = "bookmarks" THEN BookmarkColumns ELSE {}
           new == WithColumns(c, C)
<1>1. C \in SUBSET Columns
  BY DEF Columns
<1>2. /\ c \in Data /\ c.bookmarks = d.bookmarks /\ c.lists = d.lists
      /\ c.layout = [d.layout EXCEPT !.tables = @ \cup {table}]
  BY DEF Data, Layout
<1>3. /\ c.layout.tables = d.layout.tables \cup {table} /\ c.layout.exists = d.layout.exists
      /\ c.layout.columns = d.layout.columns /\ c.layout.version = d.layout.version
      /\ c.layout.skipped = d.layout.skipped
  BY <1>2 DEF Data, Layout
<1> DEFINE y == d.layout
           z == new.layout
<1> HIDE DEF c
<1>4. /\ new \in Data /\ new.bookmarks = d.bookmarks /\ new.lists = d.lists
      /\ z.tables = y.tables \cup {table} /\ z.columns = y.columns \cup C
      /\ z.exists = y.exists /\ z.version = y.version /\ z.skipped = y.skipped
  <2> HIDE DEF C, new, z
  <2>1. /\ WithColumns(c, C) \in Data
        /\ WithColumns(c, C).bookmarks = c.bookmarks /\ WithColumns(c, C).lists = c.lists
        /\ WithColumns(c, C).layout.columns = c.layout.columns \cup C
        /\ WithColumns(c, C).layout.tables = c.layout.tables
        /\ WithColumns(c, C).layout.exists = c.layout.exists
        /\ WithColumns(c, C).layout.version = c.layout.version
        /\ WithColumns(c, C).layout.skipped = c.layout.skipped
    BY <1>1, <1>2, ColumnsProperties
  <2> QED BY <1>2, <1>3, <2>1 DEF new, z
<1>5. new = WithTable(d, table)
  BY DEF WithTable, c
<1> HIDE DEF new, z
<1>6. Grows(y, z)
  <2>1. "fileinfo" \in z.tables \ y.tables => InfoColumns \subseteq z.columns
    BY <1>4
  <2>2. "bookmarks" \in z.tables \ y.tables => BookmarkColumns \subseteq z.columns
    BY <1>4
  <2> HIDE DEF C, y
  <2> QED BY <1>4, <2>1, <2>2 DEF Grows
<1>7. Written(z)
  <2> HIDE DEF C
  <2> QED BY <1>4 DEF Written
<1> QED BY <1>4, <1>5, <1>6, <1>7 DEF z

\* The state of a process that upgrades.
LEMMA UpgradeState ==
    ASSUME StoreInv, NEW p \in Procs, session[p].stage \in Upgrading
    PROVE  /\ session[p] \in Sessions /\ View(p) \in Data /\ View(p).layout \in Layout
           /\ Known(session[p], View(p).layout) /\ Written(View(p).layout)
           /\ session[p].document = None /\ (session[p].begun <=> session[p].stuck)
           /\ session[p].begun \in BOOLEAN /\ session[p].ok \in BOOLEAN
           /\ faults \in 0 .. MaxFaults /\ View(p).layout.exists
<1>1. /\ session[p] \in Sessions /\ View(p) \in Data
      /\ Known(session[p], View(p).layout) /\ Written(View(p).layout)
      /\ Stands(session[p], Owns(p)) /\ faults \in 0 .. MaxFaults
      /\ session[p].stage # "off" => View(p).layout.exists
  BY ViewIsData DEF StoreInv, TypeOK, ProcInv
<1>2. session[p].begun \in BOOLEAN /\ session[p].ok \in BOOLEAN
  BY <1>1 DEF Sessions
<1> QED BY <1>1, <1>2 DEF Stands, Saving, Upgrading, Data

\* A step of an upgrade that executes nothing.
LEMMA UpgradeSilent ==
    ASSUME StoreInv, NEW p \in Procs, session[p].stage \in Upgrading,
           NEW t \in Sessions, Become(p, t), UNCHANGED <<db, tx>>,
           faults' = faults \/ Fault,
           t.stage \in Upgrading \cup {"idle"}, t.document = None,
           t.begun <=> t.stuck, session[p].begun => t.begun, Known(t, View(p).layout)
    PROVE  StoreInv' /\ db'.lists = db.lists
<1>1. Owns(p) => session[p].begun
  BY DEF StoreInv, ProcInv, Stands
<1>2. Stands(t, Owns(p)) /\ Reads(t, View(p)) /\ Writes(t, View(p), db)
  BY <1>1 DEF Stands, Reads, Writes, Upgrading, Saving
<1>3. faults' \in 0 .. MaxFaults
  BY UpgradeState, FaultsAssumption DEF Fault
<1>4. session[p].stage # "off"
  BY DEF Upgrading
<1> QED BY <1>2, <1>3, <1>4, SilentStep

\* A statement of an upgrade that adds columns.
LEMMA UpgradeColumns ==
    ASSUME StoreInv, NEW p \in Procs, session[p].stage \in Upgrading,
           NEW C \in SUBSET Columns, NEW begun \in BOOLEAN,
           NEW done \in BOOLEAN, NEW t \in Sessions, Become(p, t),
           Carries(p, begun, WithColumns(View(p), C), done),
           t.stage \in Upgrading \cup {"idle"}, t.document = None,
           t.begun <=> t.stuck, begun \/ session[p].begun => t.begun,
           session[p].begun => begun,
           \A z \in Layout : Known(session[p], z) /\ C \subseteq z.columns /\ done
                                => Known(t, z),
           ~done => Known(t, View(p).layout)
    PROVE  StoreInv' /\ db'.lists = db.lists
<1> DEFINE new == WithColumns(View(p), C)
<1>1. /\ View(p) \in Data /\ Known(session[p], View(p).layout) /\ Written(View(p).layout)
  BY UpgradeState
<1>2. /\ new \in Data /\ new.bookmarks = View(p).bookmarks /\ new.lists = View(p).lists
      /\ new.layout \in Layout /\ C \subseteq new.layout.columns
      /\ Grows(View(p).layout, new.layout) /\ Written(new.layout)
  BY <1>1, ColumnsProperties
<1>3. Carries(p, begun, new, done)
  OBVIOUS
<1> HIDE DEF new
<1>4. Known(session[p], new.layout)
  BY <1>1, <1>2, KnownGrows
<1>5. IF done THEN Known(t, new.layout) ELSE Known(t, View(p).layout)
  BY <1>2, <1>4
<1> QED BY <1>2, <1>3, <1>5, UpgradeStep

\* Every column that is looked for is one of the columns.
LEMMA LookedForColumns == LookedFor \cup {"sha256"} \subseteq Columns
<1>1. 1 \in 1 .. 3 /\ \A i \in 1 .. 6 : Alterations[i][1] \in Columns
  <2>1. \A i \in 1 .. 6 : 1 \in 1 .. Len(Alterations[i])
    BY AlterationsProperties
  <2> QED BY <2>1, AlterationsProperties
<1>2. "typed" \in Columns /\ "sha256" \in Columns
  BY DEF Columns, InfoColumns
<1> QED BY <1>1, <1>2, AlterationsProperties

\* A session t that comes from s and has come to a stage of the upgrade.
Arrived(t, s, stage, at, column) ==
    /\ t \in Sessions /\ t.stage = stage /\ t.at = at /\ t.column = column
    /\ t.was = s.was /\ t.ok = s.ok /\ t.fresh = s.fresh /\ t.skipped = s.skipped
    /\ t.document = s.document /\ t.begun = s.begun /\ t.stuck = s.stuck

LEMMA AtProperties ==
    ASSUME NEW s \in Sessions, NEW stage \in Stages, NEW at \in 0 .. 6, NEW column \in 0 .. 3
    PROVE  Arrived(At(s, stage, at, column), s, stage, at, column)
  BY DEF At, Sessions, Arrived

\* The session after one ALTER.
LEMMA NextAlterationSession ==
    ASSUME NEW s \in Sessions, s.at \in 1 .. 6, NEW t, t = NextAlteration(s)
    PROVE  /\ t \in Sessions /\ t.document = s.document /\ t.begun = s.begun
           /\ t.stuck = s.stuck /\ t.was = s.was /\ t.fresh = s.fresh /\ t.ok = s.ok
           /\ t.skipped = s.skipped /\ t.stage \in Upgrading
           /\ \/ s.at < 6 /\ t.stage = "check" /\ t.at = s.at + 1
              \/ s.at = 6 /\ t.stage = "retype"
<1>1. Len(Alterations) = 6
  BY AlterationsProperties
<1>2. CASE s.at < 6
  <2>1. s.at + 1 \in 0 .. 6 /\ 0 \in 0 .. 3 /\ "check" \in Stages
    BY <1>2 DEF Stages
  <2>2. t = At(s, "check", s.at + 1, 0)
    BY <1>1, <1>2 DEF NextAlteration
  <2>3. Arrived(t, s, "check", s.at + 1, 0)
    BY <2>1, <2>2, AtProperties, Zenon
  <2> QED BY <1>2, <2>3 DEF Arrived, Upgrading
<1>3. CASE s.at = 6
  <2>1. 0 \in 0 .. 6 /\ 0 \in 0 .. 3 /\ "retype" \in Stages
    BY DEF Stages
  <2>2. t = At(s, "retype", 0, 0)
    BY <1>1, <1>3 DEF NextAlteration
  <2>3. Arrived(t, s, "retype", 0, 0)
    BY <2>1, <2>2, AtProperties, Zenon
  <2> QED BY <1>3, <2>3 DEF Arrived, Upgrading
<1> QED BY <1>2, <1>3

\* What it can count on.
LEMMA NextAlterationProperties ==
    ASSUME NEW s \in Sessions, NEW y, s.at \in 1 .. 6, Counts(s, y),
           TableNames \subseteq y.tables, s.ok => Found(s, y, s.at)
    PROVE  /\ NextAlteration(s) \in Sessions /\ Known(NextAlteration(s), y)
           /\ NextAlteration(s).stage \in Upgrading
           /\ NextAlteration(s).document = s.document
           /\ NextAlteration(s).begun = s.begun /\ NextAlteration(s).stuck = s.stuck
<1> DEFINE t == NextAlteration(s)
<1>2. /\ t \in Sessions /\ t.document = s.document /\ t.begun = s.begun
      /\ t.stuck = s.stuck /\ t.was = s.was /\ t.fresh = s.fresh /\ t.ok = s.ok
      /\ t.skipped = s.skipped
      /\ \/ s.at < 6 /\ t.stage = "check" /\ t.at = s.at + 1
         \/ s.at = 6 /\ t.stage = "retype"
  BY NextAlterationSession
<1> HIDE DEF t
<1>3. Counts(t, y) /\ \A n : Found(s, y, n) => Found(t, y, n)
  BY <1>2 DEF Counts, Found
<1>4. t.stage = "check" /\ t.ok => Found(t, y, t.at - 1)
  <2>1. t.stage = "check" => t.at - 1 = s.at
    BY <1>2
  <2> QED BY <1>2, <1>3, <2>1
<1>5. t.stage = "check" => t.at \in 1 .. 6
  BY <1>2
<1>6. t.stage = "retype" /\ t.ok => Found(t, y, 6)
  BY <1>2, <1>3
<1>7. t.stage \in {"check", "retype"}
  BY <1>2
<1>8. Known(t, y)
  BY <1>3, <1>4, <1>5, <1>6, <1>7 DEF Known, Upgrading
<1> QED BY <1>2, <1>7, <1>8 DEF t, Upgrading

\* A session that takes it that a column is there.
LEMMA PassesProperties ==
    ASSUME NEW p \in Procs, session[p] \in Sessions, NEW c \in Columns
    PROVE  /\ Passes(p, c) \in Sessions
           /\ Passes(p, c).skipped = session[p].skipped \cup ({c} \ View(p).layout.columns)
           /\ Passes(p, c).stage = session[p].stage /\ Passes(p, c).at = session[p].at
           /\ Passes(p, c).ok = session[p].ok /\ Passes(p, c).was = session[p].was
           /\ Passes(p, c).fresh = session[p].fresh
           /\ Passes(p, c).document = session[p].document
           /\ Passes(p, c).begun = session[p].begun /\ Passes(p, c).stuck = session[p].stuck
  BY DEF Passes, Sessions

\* A table is made.
LEMMA CreateTableNext ==
    ASSUME StoreInv, NEW p \in Procs, CreateTable(p)
    PROVE  StoreInv' /\ db'.lists = db.lists
<1> DEFINE s == session[p]
           y == View(p).layout
<1>1. PICK i \in Missing(y), done \in BOOLEAN :
        /\ Statement(p, s.begun, TRUE, WithTable(View(p), Tables[i]), done)
        /\ Become(p, IF done THEN s ELSE Broken(s))
  BY DEF CreateTable
<1>2. s.stage = "create" /\ s.stage \in Upgrading
  BY DEF CreateTable, Upgrading
<1>3. /\ s \in Sessions /\ View(p) \in Data /\ Known(s, y) /\ Written(y) /\ y.exists
      /\ s.document = None /\ (s.begun <=> s.stuck) /\ s.begun \in BOOLEAN
  BY <1>2, UpgradeState
<1>4. Tables[i] \in TableNames \ y.tables
  BY DEF Missing, TableNames
<1> DEFINE new == WithTable(View(p), Tables[i])
           t == IF done THEN s ELSE Broken(s)
<1>5. /\ new \in Data /\ new.bookmarks = View(p).bookmarks /\ new.lists = View(p).lists
      /\ Grows(y, new.layout) /\ Written(new.layout)
  BY <1>3, <1>4, TableProperties
<1>6. /\ Broken(s) \in Sessions /\ Broken(s).stage = "idle" /\ Broken(s).was = 0
      /\ Broken(s).fresh = FALSE /\ Broken(s).begun = s.begun /\ Broken(s).stuck = s.stuck
      /\ Broken(s).document = s.document
  BY <1>3, OpenedProperties DEF Broken, Sessions
<1> HIDE DEF new, s, y
<1>7. Known(Broken(s), y)
  BY <1>6, IdleKnows
<1>8. Known(s, new.layout)
  BY <1>3, <1>5, KnownGrows
<1>9. /\ t \in Sessions /\ t.stage \in Upgrading \cup {"idle"} /\ t.document = None
      /\ (t.begun <=> t.stuck) /\ t.begun = s.begun
      /\ IF done THEN Known(t, new.layout) ELSE Known(t, y)
  BY <1>2, <1>3, <1>6, <1>7, <1>8
<1>10. Carries(p, s.begun, new, done) /\ Become(p, t)
  BY <1>1, StatementCarries DEF new, s, StoreInv
<1> HIDE DEF t
<1> QED BY <1>2, <1>3, <1>5, <1>9, <1>10, UpgradeStep DEF s, y

\* All tables are there.
LEMMA TablesDoneNext ==
    ASSUME StoreInv, NEW p \in Procs, TablesDone(p)
    PROVE  StoreInv' /\ db'.lists = db.lists
<1> DEFINE s == session[p]
           y == View(p).layout
           next == IF s.fresh THEN "version" ELSE IF s.was < 1 THEN "check"
                   ELSE IF s.was < 2 THEN "sha256" ELSE "version"
           at == IF next = "check" THEN 1 ELSE 0
           t == At(s, next, at, 0)
<1>1. /\ s.stage = "create" /\ s.stage \in Upgrading /\ Missing(y) = {}
      /\ UNCHANGED <<db, tx>> /\ (faults' = faults \/ Fault)
      /\ Become(p, t) \/ Become(p, Broken(s))
  BY DEF TablesDone, Upgrading
<1>2. /\ s \in Sessions /\ View(p) \in Data /\ Known(s, y) /\ y \in Layout
      /\ s.document = None /\ (s.begun <=> s.stuck)
  BY <1>1, UpgradeState
<1>3. TableNames \subseteq y.tables
  BY <1>1 DEF Missing, TableNames
<1>4. /\ Broken(s) \in Sessions /\ Broken(s).stage = "idle" /\ Broken(s).was = 0
      /\ Broken(s).fresh = FALSE /\ Broken(s).begun = s.begun /\ Broken(s).stuck = s.stuck
      /\ Broken(s).document = s.document
  BY <1>2, OpenedProperties DEF Broken, Sessions
<1>5. CASE Become(p, Broken(s))
  <2>1. Known(Broken(s), y)
    BY <1>4, IdleKnows
  <2> QED BY <1>1, <1>2, <1>4, <1>5, <2>1, UpgradeSilent
<1>6. CASE Become(p, t)
  <2>1. /\ t \in Sessions /\ t.stage = next /\ t.document = s.document
        /\ t.begun = s.begun /\ t.stuck = s.stuck /\ t.was = s.was /\ t.fresh = s.fresh
        /\ t.ok = s.ok /\ t.skipped = s.skipped /\ (t.stage = "check" => t.at = 1)
        /\ t.stage \in {"version", "check", "sha256"}
    <3>1. at \in 0 .. 6 /\ 0 \in 0 .. 3 /\ (next = "check" => at = 1)
      OBVIOUS
    <3>2. next \in Stages /\ next \in {"version", "check", "sha256"}
      BY DEF Stages
    <3> HIDE DEF at, next, s
    <3>3. t = At(s, next, at, 0)
      OBVIOUS
    <3> HIDE DEF t
    <3>4. s \in Sessions /\ at \in 0 .. 6 /\ 0 \in 0 .. 3 /\ next \in Stages
      BY <1>2, <3>1, <3>2
    <3>5. Arrived(t, s, next, at, 0)
      BY <3>3, <3>4, AtProperties, Zenon
    <3> QED BY <3>1, <3>2, <3>5 DEF Arrived
  <2>2. Counts(s, y)
    BY <1>2 DEF Known
  <2>3. Counts(t, y)
    <3> HIDE DEF t, next
    <3> QED BY <2>1, <2>2 DEF Counts
  <2>4. s.fresh => Columns \subseteq y.columns
    BY <1>3, <2>2 DEF Counts, Whole, Columns, TableNames, Tables
  <2>5. LookedFor \cup {"sha256"} \subseteq Columns
    BY LookedForColumns
  <2>6. s.was \in 0 .. 6
    BY <1>2 DEF Sessions, DatabaseVersion
  <2>7. t.stage = "version" => LookedFor \subseteq y.columns \cup t.skipped
                               /\ "sha256" \in y.columns
    BY <2>1, <2>2, <2>4, <2>5, <2>6 DEF Counts
  <2>8. t.stage = "sha256" => LookedFor \subseteq y.columns \cup t.skipped
    BY <2>1, <2>2, <2>6 DEF Counts
  <2> HIDE DEF t, next
  <2>9. t.stage = "check" => t.at = 1 /\ Found(t, y, t.at - 1)
    BY <2>1 DEF Found
  <2>10. Known(t, y)
    BY <1>3, <2>1, <2>3, <2>7, <2>8, <2>9 DEF Known, Upgrading
  <2> QED BY <1>1, <1>2, <1>6, <2>1, <2>10, UpgradeSilent DEF Upgrading
<1> QED BY <1>1, <1>5, <1>6

\* A column is looked for.
LEMMA CheckColumnNext ==
    ASSUME StoreInv, NEW p \in Procs, CheckColumn(p)
    PROVE  StoreInv' /\ db'.lists = db.lists
<1> DEFINE s == session[p]
           y == View(p).layout
           c == Alterations[s.at][1]
           t == At(s, "alter", s.at, 1)
           u == Passes(p, c)
<1>1. /\ s.stage = "check" /\ s.stage \in Upgrading /\ UNCHANGED <<db, tx>>
      /\ \E answer \in Answers :
           /\ LookUp(p, c, answer)
           /\ Become(p, IF answer = "missing" THEN t ELSE NextAlteration(u))
  BY DEF CheckColumn, Upgrading
<1>2. (faults' = faults \/ Fault) /\ (Become(p, t) \/ Become(p, NextAlteration(u)))
  BY <1>1 DEF LookUp
<1>3. /\ s \in Sessions /\ Known(s, y) /\ s.document = None /\ (s.begun <=> s.stuck)
  BY <1>1, UpgradeState
<1>4. /\ s.at \in 1 .. 6 /\ Counts(s, y) /\ TableNames \subseteq y.tables
      /\ s.ok => Found(s, y, s.at - 1)
  BY <1>1, <1>3 DEF Known, Upgrading
<1>5. Len(Alterations[s.at]) \in 1 .. 3 /\ c \in Columns
  BY <1>4, AlterationsProperties
<1>6. CASE Become(p, t)
  <2>1. /\ t \in Sessions /\ t.stage = "alter" /\ t.column = 1 /\ t.at = s.at
        /\ t.document = s.document /\ t.begun = s.begun /\ t.stuck = s.stuck
        /\ t.was = s.was /\ t.fresh = s.fresh /\ t.ok = s.ok /\ t.skipped = s.skipped
    <3>1. s.at \in 0 .. 6 /\ 1 \in 0 .. 3 /\ "alter" \in Stages
      BY <1>4 DEF Stages
    <3>2. t = At(s, "alter", s.at, 1)
      OBVIOUS
    <3> HIDE DEF s, t
    <3>3. Arrived(t, s, "alter", s.at, 1)
      BY <1>3, <3>1, <3>2, AtProperties, Zenon
    <3> QED BY <3>3 DEF Arrived
  <2> HIDE DEF t, c, s
  <2>2. Counts(t, y) /\ (t.ok => Found(t, y, t.at - 1))
    BY <1>4, <2>1 DEF Counts, Found
  <2>3. t.column \in 1 .. Len(Alterations[t.at]) /\ ~(t.column > 1)
    <3>1. t.column = 1 /\ Alterations[t.at] = Alterations[s.at]
      BY <2>1
    <3>2. Len(Alterations[t.at]) \in 1 .. 3
      BY <1>5, <3>1
    <3>3. Len(Alterations[t.at]) \in Int /\ Len(Alterations[t.at]) >= 1
      BY <3>2
    <3>4. 1 \in 1 .. Len(Alterations[t.at]) /\ ~(1 > 1)
      BY <3>3
    <3> QED BY <3>1, <3>4, Zenon
  <2>4. Known(t, y)
    BY <1>4, <2>1, <2>2, <2>3 DEF Known, Upgrading
  <2> QED BY <1>1, <1>2, <1>3, <1>6, <2>1, <2>4, UpgradeSilent DEF Upgrading, s
<1>7. CASE Become(p, NextAlteration(u))
  <2>1. /\ u \in Sessions /\ u.skipped = s.skipped \cup ({c} \ y.columns) /\ u.at = s.at
        /\ u.ok = s.ok /\ u.was = s.was /\ u.fresh = s.fresh
        /\ u.document = s.document /\ u.begun = s.begun /\ u.stuck = s.stuck
    BY <1>3, <1>5, PassesProperties
  <2> HIDE DEF u, s, y
  <2>2. Counts(u, y)
    BY <1>4, <2>1 DEF Counts
  <2>3. u.ok => Found(u, y, u.at)
    <3> SUFFICES ASSUME u.ok, NEW i \in 1 .. u.at
                 PROVE  Alterations[i][1] \in y.columns \cup u.skipped
      BY DEF Found
    <3>1. CASE i = s.at
      BY <2>1, <3>1
    <3>2. CASE i # s.at
      <4>1. i \in 1 .. s.at - 1
        BY <1>4, <2>1, <3>2
      <4> QED BY <1>4, <2>1, <4>1 DEF Found
    <3> QED BY <3>1, <3>2
  <2>4. /\ NextAlteration(u) \in Sessions /\ Known(NextAlteration(u), y)
        /\ NextAlteration(u).stage \in Upgrading
        /\ NextAlteration(u).document = None
        /\ NextAlteration(u).begun = s.begun /\ NextAlteration(u).stuck = s.stuck
    BY <1>3, <1>4, <2>1, <2>2, <2>3, NextAlterationProperties
  <2> QED BY <1>1, <1>2, <1>3, <1>7, <2>4, UpgradeSilent DEF s, y
<1> QED BY <1>2, <1>6, <1>7

\* A column is added.
LEMMA AddColumnNext ==
    ASSUME StoreInv, NEW p \in Procs, AddColumn(p)
    PROVE  StoreInv' /\ db'.lists = db.lists
<1> DEFINE s == session[p]
           y == View(p).layout
           n == Len(Alterations[s.at])
           c == Alterations[s.at][s.column]
           C == Gives(c)
           u == [s EXCEPT !.ok = FALSE]
<1>1. PICK done \in BOOLEAN :
        /\ Statement(p, s.begun, c \notin y.columns, WithColumns(View(p), C), done)
        /\ Become(p, IF ~done THEN NextAlteration(u)
                     ELSE IF s.column < n THEN At(s, "alter", s.at, s.column + 1)
                     ELSE NextAlteration(s))
  BY DEF AddColumn
<1>2. s.stage = "alter" /\ s.stage \in Upgrading
  BY DEF AddColumn, Upgrading
<1>3. /\ s \in Sessions /\ Known(s, y) /\ s.document = None /\ (s.begun <=> s.stuck)
      /\ s.begun \in BOOLEAN /\ y \in Layout
  BY <1>2, UpgradeState
<1>4. s.at \in 1 .. 6 /\ s.column \in 1 .. n
  BY <1>2, <1>3 DEF Known
<1>5. n \in 1 .. 3 /\ c \in Columns /\ C \in SUBSET Columns /\ c \in C
  <2>1. n \in 1 .. 3 /\ c \in Columns
    BY <1>4, AlterationsProperties
  <2>2. "typed" \in Columns
    BY DEF Columns, InfoColumns
  <2> HIDE DEF c
  <2> QED BY <2>1, <2>2 DEF Gives
<1>6. ASSUME NEW z, Known(s, z)
      PROVE  /\ Counts(s, z) /\ TableNames \subseteq z.tables
             /\ s.ok => Found(s, z, s.at - 1)
             /\ s.column > 1 => Alterations[s.at][1] \in z.columns
  BY <1>2, <1>6 DEF Known, Upgrading
<1>7. CASE ~done
  <2>1. /\ u \in Sessions /\ ~u.ok /\ u.at = s.at /\ u.skipped = s.skipped
        /\ u.was = s.was /\ u.fresh = s.fresh
        /\ u.document = s.document /\ u.begun = s.begun /\ u.stuck = s.stuck
    BY <1>3 DEF Sessions
  <2> HIDE DEF u, s, y, C
  <2>2. Counts(u, y) /\ TableNames \subseteq y.tables
    BY <1>3, <1>6, <2>1 DEF Counts
  <2>3. /\ NextAlteration(u) \in Sessions /\ Known(NextAlteration(u), y)
        /\ NextAlteration(u).stage \in Upgrading
        /\ NextAlteration(u).document = u.document
        /\ NextAlteration(u).begun = u.begun /\ NextAlteration(u).stuck = u.stuck
    BY <1>4, <2>1, <2>2, NextAlterationProperties
  <2>4. /\ NextAlteration(u).document = None
        /\ (NextAlteration(u).begun <=> NextAlteration(u).stuck)
        /\ NextAlteration(u).begun = s.begun
    BY <1>3, <2>1, <2>3
  <2>5. Become(p, NextAlteration(u))
    BY <1>1, <1>7
  <2>6. Carries(p, s.begun, WithColumns(View(p), C), done)
    BY <1>1, StatementCarries DEF StoreInv
  <2> HIDE DEF c
  <2> QED BY <1>2, <1>3, <1>5, <1>7, <2>3, <2>4, <2>5, <2>6, UpgradeColumns DEF s, y
<1>8. CASE done
  <2>1. PICK t \in Sessions :
          /\ Become(p, t) /\ t.stage \in Upgrading /\ t.document = None
          /\ t.begun = s.begun /\ t.stuck = s.stuck
          /\ \A z \in Layout : Known(s, z) /\ C \subseteq z.columns => Known(t, z)
    <3>1. ASSUME NEW z, Known(s, z), C \subseteq z.columns
          PROVE  Alterations[s.at][1] \in z.columns
      <4>1. CASE s.column = 1
        BY <1>5, <3>1, <4>1
      <4>2. CASE s.column # 1
        BY <1>4, <1>5, <1>6, <3>1, <4>2
      <4> QED BY <4>1, <4>2
    <3>2. CASE s.column < n
      <4> DEFINE t == At(s, "alter", s.at, s.column + 1)
      <4>1. Become(p, t)
        BY <1>1, <1>8, <3>2
      <4> HIDE DEF s, y, C, c, n
      <4>2. s.at \in 0 .. 6 /\ s.column + 1 \in 0 .. 3
        BY <1>4, <1>5, <3>2
      <4>3. Arrived(t, s, "alter", s.at, s.column + 1)
        <5>1. "alter" \in Stages
          BY DEF Stages
        <5> QED BY <1>3, <4>2, <5>1, AtProperties, Zenon
      <4> HIDE DEF t
      <4>4. /\ t \in Sessions /\ t.stage = "alter" /\ t.at = s.at /\ t.column = s.column + 1
            /\ t.was = s.was /\ t.ok = s.ok /\ t.fresh = s.fresh /\ t.skipped = s.skipped
            /\ t.document = s.document /\ t.begun = s.begun /\ t.stuck = s.stuck
        BY <4>3 DEF Arrived
      <4>5. t.column \in 1 .. Len(Alterations[t.at])
        <5>1. s.column + 1 \in 1 .. n
          BY <1>4, <1>5, <3>2
        <5> QED BY <4>4, <5>1 DEF n
      <4>6. ASSUME NEW z \in Layout, Known(s, z), C \subseteq z.columns
            PROVE  Known(t, z)
        <5>1. /\ Counts(s, z) /\ TableNames \subseteq z.tables
              /\ (s.ok => Found(s, z, s.at - 1)) /\ Alterations[s.at][1] \in z.columns
          BY <1>6, <3>1, <4>6
        <5>2. Counts(t, z) /\ (t.ok => Found(t, z, t.at - 1))
          BY <4>4, <5>1 DEF Counts, Found
        <5>3. t.at \in 1 .. 6 /\ Alterations[t.at][1] \in z.columns
          BY <1>4, <4>4, <5>1
        <5> QED BY <4>4, <4>5, <5>1, <5>2, <5>3 DEF Known, Upgrading
      <4> QED BY <1>3, <4>1, <4>4, <4>6 DEF Upgrading
    <3>3. CASE ~(s.column < n)
      <4> DEFINE t == NextAlteration(s)
      <4>1. Become(p, t)
        BY <1>1, <1>8, <3>3
      <4>2. Counts(s, y) /\ TableNames \subseteq y.tables
        BY <1>3, <1>6
      <4> HIDE DEF s, y, C, c, n
      <4>3. ASSUME NEW z, Known(s, z), C \subseteq z.columns
            PROVE  s.ok => Found(s, z, s.at)
        <5> SUFFICES ASSUME s.ok, NEW i \in 1 .. s.at
                     PROVE  Alterations[i][1] \in z.columns \cup s.skipped
          BY DEF Found
        <5>1. CASE i = s.at
          BY <3>1, <4>3, <5>1
        <5>2. CASE i # s.at
          <6>1. i \in 1 .. s.at - 1
            BY <1>4, <5>2
          <6> QED BY <1>6, <4>3, <6>1 DEF Found
        <5> QED BY <5>1, <5>2
      <4>4. ASSUME NEW z \in Layout, Known(s, z), C \subseteq z.columns
            PROVE  Known(t, z)
        <5>1. Counts(s, z) /\ TableNames \subseteq z.tables /\ (s.ok => Found(s, z, s.at))
          BY <1>6, <4>3, <4>4
        <5> QED BY <1>3, <1>4, <5>1, NextAlterationProperties
      <4>5. /\ t \in Sessions /\ t.stage \in Upgrading /\ t.document = s.document
            /\ t.begun = s.begun /\ t.stuck = s.stuck
        BY <1>3, <1>4, NextAlterationSession
      <4> HIDE DEF t
      <4> QED BY <1>3, <4>1, <4>4, <4>5
    <3> QED BY <3>2, <3>3
  <2>2. Carries(p, s.begun, WithColumns(View(p), C), done)
    BY <1>1, StatementCarries DEF StoreInv
  <2> HIDE DEF c, C, y, s
  <2>3. \A z \in Layout : Known(s, z) /\ C \subseteq z.columns /\ done => Known(t, z)
    BY <2>1
  <2>4. /\ t.stage \in Upgrading \cup {"idle"} /\ (t.begun <=> t.stuck)
        /\ (~done => Known(t, y))
    BY <1>3, <1>8, <2>1
  <2>5. Become(p, t) /\ t.document = None /\ t.begun = s.begun
    BY <2>1
  <2> QED BY <1>2, <1>3, <1>5, <2>2, <2>3, <2>4, <2>5, UpgradeColumns DEF s, y
<1> QED BY <1>7, <1>8

\* The types of the columns are looked at.
LEMMA RetypeNext ==
    ASSUME StoreInv, NEW p \in Procs, Retype(p)
    PROVE  StoreInv' /\ db'.lists = db.lists
<1> DEFINE s == session[p]
           y == View(p).layout
<1>1. s.stage = "retype" /\ s.stage \in Upgrading
  BY DEF Retype, Upgrading
<1>2. /\ s \in Sessions /\ Known(s, y) /\ s.document = None /\ (s.begun <=> s.stuck)
      /\ s.begun \in BOOLEAN /\ y \in Layout /\ View(p) \in Data
  BY <1>1, UpgradeState
<1>3. "typed" \in InfoColumns /\ InfoColumns \in SUBSET Columns
  BY DEF InfoColumns, Columns
<1>4. ASSUME NEW z, Known(s, z)
      PROVE  /\ Counts(s, z) /\ TableNames \subseteq z.tables
             /\ s.ok => Found(s, z, 6)
  BY <1>1, <1>4 DEF Known, Upgrading
<1>5. ASSUME NEW u \in Sessions, NEW z, Counts(s, z), s.ok => Found(s, z, 6),
             s.skipped \subseteq u.skipped, "typed" \in z.columns \cup u.skipped, s.ok
      PROVE  LookedFor \subseteq z.columns \cup u.skipped
  <2>1. \A i \in 1 .. 6 : Alterations[i][1] \in z.columns \cup u.skipped
    BY <1>5 DEF Found
  <2> QED BY <1>5, <2>1, AlterationsProperties
<1>6. ASSUME NEW u \in Sessions, u.stage = "retype", u.ok = s.ok, u.was = s.was,
             u.fresh = s.fresh, u.document = s.document, u.begun = s.begun,
             u.stuck = s.stuck, s.skipped \subseteq u.skipped,
             "typed" \in y.columns \cup u.skipped,
             Become(p, At(u, "sha256", 0, 0)), UNCHANGED <<db, tx>>,
             faults' = faults \/ Fault
      PROVE  StoreInv' /\ db'.lists = db.lists
  <2> DEFINE t == At(u, "sha256", 0, 0)
  <2>1. 0 \in 0 .. 6 /\ 0 \in 0 .. 3 /\ "sha256" \in Stages
    BY DEF Stages
  <2>2. Arrived(t, u, "sha256", 0, 0)
    BY <1>6, <2>1, AtProperties, Zenon
  <2> HIDE DEF t, s, y
  <2>3. /\ t \in Sessions /\ t.stage = "sha256" /\ t.was = s.was /\ t.ok = s.ok
        /\ t.fresh = s.fresh /\ t.skipped = u.skipped
        /\ t.document = s.document /\ t.begun = s.begun /\ t.stuck = s.stuck
    BY <1>6, <2>2 DEF Arrived
  <2>4. Counts(s, y) /\ TableNames \subseteq y.tables /\ (s.ok => Found(s, y, 6))
    BY <1>2, <1>4
  <2>5. Counts(t, y)
    BY <1>6, <2>3, <2>4 DEF Counts
  <2>6. t.ok => LookedFor \subseteq y.columns \cup t.skipped
    BY <1>5, <1>6, <2>3, <2>4
  <2>7. Known(t, y)
    BY <2>3, <2>4, <2>5, <2>6 DEF Known, Upgrading
  <2>8. t.stage \in Upgrading /\ Become(p, t)
    BY <1>6, <2>3 DEF Upgrading, t
  <2> QED BY <1>1, <1>2, <1>6, <2>3, <2>7, <2>8, UpgradeSilent DEF s, y
<1>7. CASE /\ \E answer \in Answers \ {"missing"} : LookUp(p, "typed", answer)
           /\ Become(p, At(Passes(p, "typed"), "sha256", 0, 0))
           /\ UNCHANGED <<db, tx>>
  <2> DEFINE u == Passes(p, "typed")
  <2>1. /\ u \in Sessions /\ u.skipped = s.skipped \cup ({"typed"} \ y.columns)
        /\ u.stage = s.stage /\ u.ok = s.ok /\ u.was = s.was /\ u.fresh = s.fresh
        /\ u.document = s.document /\ u.begun = s.begun /\ u.stuck = s.stuck
    BY <1>2, <1>3, PassesProperties
  <2>2. faults' = faults \/ Fault
    BY <1>7 DEF LookUp
  <2>3. Become(p, At(u, "sha256", 0, 0)) /\ UNCHANGED <<db, tx>>
    BY <1>7
  <2> HIDE DEF u, s, y
  <2> QED BY <1>1, <1>6, <2>1, <2>2, <2>3
<1>8. CASE /\ LookUp(p, "typed", "missing") /\ InfoColumns \subseteq y.columns
           /\ Become(p, At(s, "sha256", 0, 0)) /\ UNCHANGED <<db, tx>>
  <2>1. faults' = faults \/ Fault
    BY <1>8 DEF LookUp
  <2> HIDE DEF s, y
  <2> QED BY <1>1, <1>2, <1>3, <1>6, <1>8, <2>1
<1>9. CASE /\ LookUp(p, "typed", "missing")
           /\ \/ CanWrite(p) /\ Executes(p, TRUE, WithColumns(View(p), InfoColumns))
              \/ UNCHANGED <<db, tx>>
           /\ Become(p, [s EXCEPT !.stage = "sha256", !.ok = FALSE, !.begun = TRUE,
                                  !.stuck = TRUE])
  <2> DEFINE t == [s EXCEPT !.stage = "sha256", !.ok = FALSE, !.begun = TRUE,
                            !.stuck = TRUE]
  <2>1. /\ t \in Sessions /\ t.stage = "sha256" /\ ~t.ok /\ t.was = s.was
        /\ t.fresh = s.fresh /\ t.skipped = s.skipped /\ t.document = None
        /\ t.begun = TRUE /\ t.stuck = TRUE
    BY <1>2 DEF Sessions, Stages
  <2>2. Become(p, t) /\ (faults' = faults \/ Fault)
    BY <1>9 DEF LookUp
  <2> HIDE DEF t
  <2>3. ASSUME NEW z, Known(s, z) PROVE Known(t, z)
    <3>1. Counts(s, z) /\ TableNames \subseteq z.tables
      BY <1>4, <2>3
    <3>2. Counts(t, z)
      BY <2>1, <3>1 DEF Counts
    <3> QED BY <2>1, <3>1, <3>2 DEF Known, Upgrading
  <2>4. t.stage \in Upgrading
    BY <2>1 DEF Upgrading
  <2>5. CASE UNCHANGED <<db, tx>>
    BY <1>1, <1>2, <2>1, <2>2, <2>3, <2>4, <2>5, UpgradeSilent
  <2>6. CASE CanWrite(p) /\ Executes(p, TRUE, WithColumns(View(p), InfoColumns))
    <3> DEFINE new == WithColumns(View(p), InfoColumns)
    <3>1. /\ new \in Data /\ new.bookmarks = View(p).bookmarks /\ new.lists = View(p).lists
          /\ Grows(y, new.layout)
          /\ Written(new.layout)
      <4>1. Written(y)
        BY <1>1, UpgradeState
      <4> QED BY <1>2, <1>3, <4>1, ColumnsProperties
    <3>2. Carries(p, TRUE, new, TRUE)
      <4>1. faults' \in 0 .. MaxFaults
        <5>1. faults \in 0 .. MaxFaults
          BY DEF StoreInv, TypeOK
        <5>2. faults' = faults \/ Fault
          BY <2>2
        <5> QED BY <5>1, <5>2, FaultsAssumption DEF Fault
      <4> HIDE DEF new
      <4> QED BY <2>6, <4>1 DEF Carries, new
    <3> HIDE DEF new, s, y
    <3>3. Known(t, new.layout)
      BY <1>2, <2>3, <3>1, KnownGrows
    <3> QED BY <1>1, <2>1, <2>2, <2>4, <3>1, <3>2, <3>3, UpgradeStep DEF s, y
  <2> QED BY <1>9, <2>5, <2>6
<1> QED BY <1>7, <1>8, <1>9 DEF Retype

\* The hash of the file.
LEMMA AddHashNext ==
    ASSUME StoreInv, NEW p \in Procs, AddHash(p)
    PROVE  StoreInv' /\ db'.lists = db.lists
<1> DEFINE s == session[p]
           y == View(p).layout
           C == {"sha256"}
<1>1. PICK done \in BOOLEAN :
        /\ Statement(p, s.begun, "sha256" \notin y.columns, WithColumns(View(p), C), done)
        /\ Become(p, [s EXCEPT !.stage = "version", !.ok = @ /\ done])
  BY DEF AddHash
<1> DEFINE t == [s EXCEPT !.stage = "version", !.ok = @ /\ done]
<1>2. s.stage = "sha256" /\ s.stage \in Upgrading
  BY DEF AddHash, Upgrading
<1>3. /\ s \in Sessions /\ Known(s, y) /\ s.document = None /\ (s.begun <=> s.stuck)
      /\ s.begun \in BOOLEAN /\ s.ok \in BOOLEAN
  BY <1>2, UpgradeState
<1>4. (s.ok /\ done) \in BOOLEAN /\ "version" \in Stages
  BY <1>3 DEF Stages
<1>5. /\ t \in Sessions /\ t.stage = "version" /\ t.ok = (s.ok /\ done) /\ t.was = s.was
      /\ t.fresh = s.fresh /\ t.skipped = s.skipped /\ t.document = s.document
      /\ t.begun = s.begun /\ t.stuck = s.stuck
  BY <1>3, <1>4 DEF Sessions
<1>6. Become(p, t)
  BY <1>1
<1>7. Carries(p, s.begun, WithColumns(View(p), C), done)
  BY <1>1, StatementCarries DEF StoreInv
<1> HIDE DEF t
<1>8. ASSUME NEW z, Known(s, z), t.ok => "sha256" \in z.columns
      PROVE  Known(t, z)
  <2>1. /\ Counts(s, z) /\ TableNames \subseteq z.tables
        /\ s.ok => LookedFor \subseteq z.columns \cup s.skipped
    BY <1>2, <1>8 DEF Known, Upgrading
  <2>2. Counts(t, z)
    BY <1>5, <2>1 DEF Counts
  <2>3. t.ok => LookedFor \subseteq z.columns \cup t.skipped /\ "sha256" \in z.columns
    BY <1>3, <1>5, <1>8, <2>1
  <2> QED BY <1>5, <2>1, <2>2, <2>3 DEF Known, Upgrading
<1>9. C \in SUBSET Columns
  BY LookedForColumns
<1>10. \A z \in Layout : Known(s, z) /\ C \subseteq z.columns /\ done => Known(t, z)
  BY <1>8
<1>11. ~done => Known(t, y)
  BY <1>3, <1>5, <1>8
<1>12. /\ t.stage \in Upgrading \cup {"idle"} /\ t.document = None
       /\ (t.begun <=> t.stuck) /\ t.begun = s.begun
  BY <1>3, <1>5 DEF Upgrading
<1> HIDE DEF C, s, y
<1> QED BY <1>2, <1>3, <1>5, <1>6, <1>7, <1>9, <1>10, <1>11, <1>12, UpgradeColumns DEF s, y

\* The version is set if nothing failed.
LEMMA SetVersionNext ==
    ASSUME StoreInv, NEW p \in Procs, SetVersion(p)
    PROVE  StoreInv' /\ db'.lists = db.lists
<1> DEFINE s == session[p]
           y == View(p).layout
           t == Opened(s)
           new == WithVersion(p)
<1>1. /\ s.stage = "version" /\ s.stage \in Upgrading /\ Become(p, t)
      /\ IF s.ok THEN \E done \in BOOLEAN : Statement(p, s.begun, TRUE, new, done)
         ELSE UNCHANGED <<db, tx, faults>>
  BY DEF SetVersion, Upgrading
<1>2. /\ s \in Sessions /\ Known(s, y) /\ Written(y) /\ y.exists /\ View(p) \in Data
      /\ s.document = None /\ (s.begun <=> s.stuck) /\ s.begun \in BOOLEAN
  BY <1>1, UpgradeState
<1>3. /\ t \in Sessions /\ t.stage = "idle" /\ t.was = 0 /\ t.fresh = FALSE
      /\ t.begun = s.begun /\ t.stuck = s.stuck /\ t.document = None
  BY <1>2, OpenedProperties
<1> HIDE DEF t
<1>4. \A z : Known(t, z)
  BY <1>3, IdleKnows
<1>5. CASE ~s.ok
  BY <1>1, <1>2, <1>3, <1>4, <1>5, UpgradeSilent
<1>6. CASE s.ok
  <2>1. PICK done \in BOOLEAN : Statement(p, s.begun, TRUE, new, done)
    BY <1>1, <1>6
  <2>2. Carries(p, s.begun, new, done)
    BY <2>1, StatementCarries DEF StoreInv
  <2> DEFINE z == new.layout
  <2>3. /\ new \in Data /\ new.bookmarks = View(p).bookmarks /\ new.lists = View(p).lists
        /\ z.version = DatabaseVersion /\ z.skipped = s.skipped /\ z.exists = y.exists
        /\ z.tables = y.tables /\ z.columns = y.columns
    <3>1. s.skipped \in SUBSET Columns /\ DatabaseVersion \in 0 .. DatabaseVersion
      BY <1>2 DEF Sessions, DatabaseVersion
    <3> HIDE DEF s
    <3> QED BY <1>2, <3>1 DEF WithVersion, Data, Layout, s
  <2> HIDE DEF new, z
  <2>4. /\ LookedFor \subseteq z.columns \cup z.skipped /\ "sha256" \in z.columns
        /\ TableNames \subseteq z.tables
    BY <1>1, <1>2, <1>6, <2>3 DEF Known
  <2>5. Written(z)
    BY <1>2, <2>3, <2>4 DEF Written, DatabaseVersion
  <2>6. Grows(y, z)
    BY <2>3 DEF Grows
  <2> HIDE DEF s, y
  <2> QED BY <1>1, <1>2, <1>3, <1>4, <2>2, <2>3, <2>5, <2>6, UpgradeStep DEF s, y, z
<1> QED BY <1>5, <1>6

LEMMA UpgradeNext ==
    ASSUME StoreInv, NEW p \in Procs, Upgrade(p)
    PROVE  StoreInv' /\ db'.lists = db.lists
  BY CreateTableNext, TablesDoneNext, CheckColumnNext, AddColumnNext, RetypeNext,
     AddHashNext, SetVersionNext DEF Upgrade

\* Whoever is not upgrading goes on counting on nothing.
LEMMA QuietKnows ==
    ASSUME NEW s, NEW y, Known(s, y), s.stage \notin Upgrading,
           NEW t, t.was = s.was, t.fresh = s.fresh, t.stage \notin Upgrading, NEW z
    PROVE  Known(t, z)
  BY DEF Known, Counts, Upgrading

\* Starting.
LEMMA StartNext ==
    ASSUME StoreInv, NEW p \in Procs, Start(p)
    PROVE  StoreInv' /\ db'.lists = db.lists
<1> USE DEF StoreInv
<1> DEFINE y == db.layout
           z == db'.layout
           t == IF y.version = DatabaseVersion THEN Opened(Off)
                ELSE [Off EXCEPT !.stage = "create", !.was = y.version, !.fresh = ~y.exists]
<1>1. /\ session[p] \in Sessions /\ session[p].stage = "off" /\ db \in Data
      /\ Stands(session[p], Owns(p)) /\ Written(y) /\ session \in [Procs -> Sessions]
      /\ UNCHANGED <<tx, faults>> /\ faults \in 0 .. MaxFaults /\ TypeOK
      /\ db' = [db EXCEPT !.layout.exists = TRUE] /\ Become(p, t)
  BY DEF Start, TypeOK, ProcInv
<1>2. ~Owns(p) /\ View(p) = db
  BY <1>1 DEF Stands, View
<1>3. Off \in Sessions
  BY DEF Off, Sessions, Stages, Lists, NoRows, DatabaseVersion
<1>4. y \in Layout
  BY <1>1 DEF Data
<1>5. /\ t \in Sessions /\ t.document = None /\ t.begun = FALSE /\ t.stuck = FALSE
      /\ \/ t.stage = "idle" /\ t.was = 0 /\ t.fresh = FALSE
         \/ /\ t.stage = "create" /\ t.was = y.version /\ t.fresh = ~y.exists
            /\ y.version # DatabaseVersion
  <2>1. CASE y.version = DatabaseVersion
    <3>1. t = Opened(Off)
      BY <2>1
    <3>2. Off.document = None /\ Off.begun = FALSE /\ Off.stuck = FALSE
      BY DEF Off
    <3> QED BY <1>3, <3>1, <3>2, OpenedProperties
  <2>2. CASE y.version # DatabaseVersion
    <3>1. t = [Off EXCEPT !.stage = "create", !.was = y.version, !.fresh = ~y.exists]
      BY <2>2
    <3> HIDE DEF t
    <3>2. "create" \in Stages /\ y.version \in 0 .. DatabaseVersion /\ (~y.exists) \in BOOLEAN
      BY <1>4 DEF Stages, Layout
    <3>3. Off.document = None /\ Off.begun = FALSE /\ Off.stuck = FALSE
      BY DEF Off
    <3> HIDE DEF y
    <3> QED BY <1>3, <2>2, <3>1, <3>2, <3>3 DEF Sessions
  <2> QED BY <2>1, <2>2
<1>6. /\ db' \in Data /\ db'.bookmarks = db.bookmarks /\ db'.lists = db.lists
      /\ z.exists = TRUE /\ z.version = y.version /\ z.tables = y.tables
      /\ z.columns = y.columns /\ z.skipped = y.skipped
  BY <1>1 DEF Data, Layout
<1>7. y.exists => db' = db
  BY <1>1 DEF Data, Layout
<1> HIDE DEF t, y, z
<1>8. Grows(y, z) /\ Written(z)
  BY <1>1, <1>6 DEF Grows, Written
<1>9. Known(t, z)
  <2>1. CASE t.stage = "idle"
    BY <1>5, <2>1, IdleKnows
  <2>2. CASE t.stage = "create"
    <3>1. y.version \in 0 .. 5 /\ y.exists \in BOOLEAN
      BY <1>4, <1>5, <2>2 DEF Layout, DatabaseVersion
    <3>2. y.skipped = {}
      BY <1>1, <3>1 DEF Written, DatabaseVersion
    <3>3. t.fresh => y.tables = {}
      BY <1>1, <1>5, <2>2 DEF Written
    <3>4. /\ t.was >= 1 => LookedFor \subseteq z.columns \cup t.skipped
          /\ t.was >= 2 => "sha256" \in z.columns
      BY <1>1, <1>5, <1>6, <2>2, <3>2 DEF Written
    <3>5. Counts(t, z)
      BY <1>6, <3>3, <3>4 DEF Counts, Whole
    <3> QED BY <2>2, <3>5 DEF Known, Upgrading
  <2> QED BY <1>5, <2>1, <2>2
<1>10. /\ session'[p] = t /\ \A q \in Procs \ {p} : session'[q] = session[q]
       /\ session' \in [Procs -> Sessions]
  BY <1>1, <1>5 DEF Become
<1>11. \A q : Owns(q)' <=> Owns(q)
  BY <1>1 DEF Owns
<1>12. View(p)' = db'
  BY <1>2, <1>11 DEF View
<1>13. ASSUME NEW q \in Procs \ {p}
       PROVE  Undisturbed(q)
  <2>1. CASE Owns(q)
    <3>1. y.exists
      <4>1. session[q].begun /\ session[q].stage # "off"
        BY <2>1 DEF ProcInv, Stands
      <4> QED BY <4>1 DEF ProcInv, y
    <3>2. db' = db /\ tx' = tx
      BY <1>1, <1>7, <3>1
    <3>3. View(q)' = View(q)
      BY <1>11, <3>2 DEF View
    <3> QED BY <1>10, <1>11, <3>2, <3>3, GrowsItself DEF Undisturbed, ProcInv
  <2>2. CASE ~Owns(q)
    <3>1. View(q) = db /\ View(q)' = db'
      BY <1>11, <2>2 DEF View
    <3> QED BY <1>6, <1>8, <1>10, <1>11, <2>2, <3>1 DEF Undisturbed, y, z
  <2> QED BY <2>1, <2>2
<1>14. Stands(t, FALSE) /\ Reads(t, db') /\ Writes(t, db', db')
  BY <1>5 DEF Stands, Reads, Writes, Saving, Upgrading
<1>15. ProcInv(p)'
  <2>1. Owns(p)' = FALSE
    BY <1>2, <1>11 DEF Owns
  <2> QED BY <1>6, <1>8, <1>9, <1>10, <1>12, <1>14, <2>1 DEF ProcInv, z
<1>16. TypeOK' /\ Written(db.layout)'
  BY <1>1, <1>6, <1>8, <1>10 DEF TypeOK, z
<1> QED BY <1>6, <1>13, <1>15, <1>16, StepOf

\* Opening a document.
LEMMA OpenNext ==
    ASSUME StoreInv, NEW p \in Procs, NEW f \in Files, Open(p, f)
    PROVE  StoreInv' /\ db'.lists = db.lists
<1> USE DEF StoreInv
<1> DEFINE s == session[p]
<1>1. /\ s \in Sessions /\ s.stage = "idle" /\ s.document = None /\ View(p) \in Data
      /\ Stands(s, Owns(p)) /\ Known(s, View(p).layout)
      /\ UNCHANGED <<db, tx>> /\ faults \in 0 .. MaxFaults
  BY ViewIsData DEF Open, TypeOK, ProcInv
<1>2. PICK got \in SUBSET Readable(p),
           B \in {s.bookmarks} \cup SUBSET View(p).bookmarks[f] :
        /\ IF CanRead(p)
           THEN IF got = Readable(p) THEN UNCHANGED faults ELSE Fault
           ELSE got = {} /\ UNCHANGED faults
        /\ Become(p, [s EXCEPT
             !.document = f,
             !.bookmarks = LoadBookmarks(p, f, "bookmarks" \in got, B),
             !.drift = "bookmarks" \notin got,
             !.lists = [l \in Lists |-> LoadList(p, f, l, l \in got)]])
  BY DEF Open
<1> DEFINE books == LoadBookmarks(p, f, "bookmarks" \in got, B)
           rows == [l \in Lists |-> LoadList(p, f, l, l \in got)]
           t == [s EXCEPT !.document = f, !.bookmarks = books,
                          !.drift = "bookmarks" \notin got, !.lists = rows]
<1>3. books \in SUBSET Ids /\ ("bookmarks" \in got => books = View(p).bookmarks[f])
  <2>1. View(p).bookmarks[f] \in SUBSET Ids /\ s.bookmarks \in SUBSET Ids
    BY <1>1 DEF Data, Sessions
  <2>2. B \in SUBSET Ids
    BY <1>2, <2>1
  <2> QED BY <2>1, <2>2 DEF LoadBookmarks
<1>4. rows \in [Lists -> SUBSET Entries]
  BY <1>1 DEF LoadList, Data
<1>5. Become(p, t)
  BY <1>2
<1> HIDE DEF books, rows, s
<1>6. /\ t \in Sessions /\ t.stage = "idle" /\ t.document = f /\ t.bookmarks = books
      /\ t.drift = ("bookmarks" \notin got)
      /\ t.begun = s.begun /\ t.stuck = s.stuck /\ t.was = s.was /\ t.fresh = s.fresh
  BY <1>1, <1>3, <1>4 DEF Sessions
<1> HIDE DEF t
<1>7. f # None
  BY NoneAssumption
<1>8. Stands(t, Owns(p)) /\ Reads(t, View(p)) /\ Writes(t, View(p), db)
  BY <1>1, <1>3, <1>6, <1>7 DEF Stands, Reads, Writes, Saving, Upgrading
<1>9. Known(t, View(p).layout)
  BY <1>1, <1>6, QuietKnows DEF Upgrading
<1>10. faults' \in 0 .. MaxFaults
  BY <1>1, <1>2, FaultsAssumption DEF Fault
<1>11. session[p].stage # "off"
  BY <1>1 DEF s
<1> QED BY <1>1, <1>5, <1>6, <1>8, <1>9, <1>10, <1>11, SilentStep

\* A statement about the bookmarks of the document of one process.
LEMMA BookmarkStep ==
    ASSUME StoreInv, NEW p \in Procs, NEW B \in SUBSET Ids, NEW done \in BOOLEAN,
           Carries(p, session[p].begun, WithBookmarks(p, B), done),
           NEW t \in Sessions, Bookmarked(p, t, done),
           session[p].document \in Files, session[p].stage \in {"idle", "readd"},
           t.stage \in {"idle", "readd"}, t.document = session[p].document,
           t.begun = session[p].begun, t.stuck = session[p].stuck,
           t.was = session[p].was, t.fresh = session[p].fresh,
           t.stage = "readd" => t.todo \subseteq Ids,
           done /\ ~t.drift /\ t.stage = "idle" => t.bookmarks = B,
           done /\ ~t.drift /\ t.stage = "readd" => t.bookmarks = B \cup t.todo
    PROVE  StoreInv' /\ db'.lists = db.lists
<1> USE DEF StoreInv
<1> DEFINE s == session[p]
           new == WithBookmarks(p, B)
           u == [t EXCEPT !.drift = @ \/ ~done]
<1>1. /\ s \in Sessions /\ View(p) \in Data /\ Stands(s, Owns(p))
      /\ Known(s, View(p).layout) /\ Written(View(p).layout)
      /\ session \in [Procs -> Sessions]
      /\ db.layout.exists /\ View(p).layout.exists
  BY ViewIsData DEF TypeOK, ProcInv
<1>2. /\ new \in Data /\ new.layout = View(p).layout /\ new.lists = View(p).lists
      /\ new.bookmarks = [View(p).bookmarks EXCEPT ![s.document] = B]
  BY <1>1 DEF WithBookmarks, Data
<1>3. Carries(p, s.begun, new, done) /\ s.begun \in BOOLEAN
  BY <1>1 DEF Sessions
<1>4. /\ session'[p] = u
      /\ \A q \in Procs \ {p} :
           session'[q] = [session[q] EXCEPT
                            !.drift = @ \/ (done /\ session[q].document = t.document)]
  BY DEF Bookmarked
<1>5. /\ u \in Sessions /\ u.stage = t.stage /\ u.document = t.document
      /\ u.bookmarks = t.bookmarks /\ u.todo = t.todo /\ u.begun = t.begun
      /\ u.stuck = t.stuck /\ u.was = t.was /\ u.fresh = t.fresh
      /\ u.drift = (t.drift \/ ~done)
  BY DEF Sessions
<1> HIDE DEF u, new
<1>6. ASSUME NEW q \in Procs \ {p}
      PROVE  /\ session'[q] \in Sessions
             /\ session'[q] \in {session[q], [session[q] EXCEPT !.drift = TRUE]}
             /\ \/ session'[q].drift \/ session[q].document = None
                \/ new.bookmarks[session[q].document] = View(p).bookmarks[session[q].document]
                \/ ~done
  <2>1. session[q] \in Sessions
    BY <1>1
  <2>2. session'[q] = [session[q] EXCEPT
                         !.drift = @ \/ (done /\ session[q].document = t.document)]
    BY <1>4
  <2>3. CASE done /\ session[q].document = t.document
    BY <2>1, <2>2, <2>3 DEF Sessions
  <2>4. CASE ~(done /\ session[q].document = t.document)
    <3>1. session'[q] = session[q]
      BY <2>1, <2>2, <2>4 DEF Sessions
    <3>2. \/ session[q].document = None \/ ~done
          \/ session[q].document \in Files \ {s.document}
      BY <2>1, <2>4 DEF Sessions
    <3> QED BY <1>1, <1>2, <2>1, <3>1, <3>2 DEF Data
  <2> QED BY <2>3, <2>4
<1>7. Grows(View(p).layout, new.layout) /\ Written(new.layout)
  BY <1>1, <1>2, GrowsItself
<1>8. \A q \in Procs \ {p} : Undisturbed(q)
  BY <1>2, <1>3, <1>6, <1>7, StatementDisturbs
<1>9. TypeOK' /\ Written(db.layout)' /\ Written(View(p).layout)'
  <2>1. session' \in [Procs -> Sessions]
    <3>1. session' = [q \in Procs |-> session'[q]]
      BY DEF Bookmarked
    <3>2. \A q \in Procs : session'[q] \in Sessions
      BY <1>4, <1>5, <1>6
    <3> QED BY <3>1, <3>2
  <2> QED BY <1>2, <1>3, <1>7, <2>1, StatementEffect, StatementWritten DEF TypeOK
<1>10. CASE ~done
  <2>1. db' = db /\ tx' = tx
    BY <1>2, <1>3, <1>10, StatementEffect
  <2>2. View(p)' = View(p) /\ (Owns(p)' <=> Owns(p))
    BY <2>1 DEF View, Owns
  <2>3. Known(u, View(p)'.layout) /\ Stands(u, Owns(p)')
    <3>1. Known(u, View(p)'.layout)
      BY <1>1, <1>5, QuietKnows DEF Upgrading
    <3> QED BY <1>1, <1>5, <2>2, <3>1, NoneAssumption DEF Stands, Saving, Upgrading
  <2>4. Reads(u, View(p)') /\ Writes(u, View(p)', db')
    BY <1>5, <1>10 DEF Reads, Writes, Saving
  <2>5. ProcInv(p)'
    BY <1>1, <1>4, <1>9, <2>1, <2>2, <2>3, <2>4 DEF ProcInv
  <2> QED BY <1>8, <1>9, <2>1, <2>5, StepOf
<1>11. CASE done
  <2>1. View(p)' = new
    <3>1. done = TRUE
      BY <1>11
    <3>2. Carries(p, s.begun, new, TRUE)
      BY <1>3, <3>1
    <3>3. TypeOK /\ s.begun \in BOOLEAN /\ new \in Data
      BY <1>2, <1>3
    <3> HIDE DEF s
    <3> QED BY <3>2, <3>3, StatementView
  <2>2. Owns(p)' <=> s.begun \/ Owns(p)
    BY <1>2, <1>3, <1>11, StatementEffect
  <2>3. Known(u, new.layout) /\ Stands(u, Owns(p)')
    <3>1. Known(u, new.layout)
      BY <1>1, <1>5, QuietKnows DEF Upgrading
    <3> QED BY <1>1, <1>5, <2>2, <3>1, NoneAssumption DEF Stands, Saving, Upgrading
  <2>4. new.bookmarks[u.document] = B
    BY <1>1, <1>2, <1>5 DEF Data
  <2>5. Reads(u, new) /\ Writes(u, new, db')
    BY <1>5, <1>11, <2>4 DEF Reads, Writes, Saving
  <2>6. db'.lists = db.lists /\ db'.layout = db.layout
    <3>1. CASE s.begun \/ Owns(p)
      BY <1>2, <1>3, <1>11, <3>1, StatementEffect
    <3>2. CASE ~s.begun /\ ~Owns(p)
      BY <1>2, <1>3, <1>11, <3>2, StatementEffect DEF View
    <3> QED BY <3>1, <3>2
  <2>7. ProcInv(p)'
    BY <1>1, <1>2, <1>4, <1>9, <2>1, <2>3, <2>5, <2>6 DEF ProcInv
  <2> QED BY <1>8, <1>9, <2>6, <2>7, StepOf
<1> QED BY <1>10, <1>11


\* The bookmarks of a document that is open.
LEMMA ReadyBookmarks ==
    ASSUME StoreInv, NEW p \in Procs, session[p].stage \in {"idle", "readd"},
           session[p].document # None
    PROVE  /\ session[p] \in Sessions /\ session[p].document \in Files
           /\ StoredBookmarks(p) \in SUBSET Ids
           /\ ~session[p].drift =>
                /\ session[p].stage = "idle" => session[p].bookmarks = StoredBookmarks(p)
                /\ session[p].stage = "readd" =>
                      session[p].bookmarks = StoredBookmarks(p) \cup session[p].todo
<1>1. session[p] \in Sessions /\ View(p) \in Data /\ Reads(session[p], View(p))
  BY ViewIsData DEF StoreInv, TypeOK, ProcInv
<1>2. session[p].document \in Files
  BY <1>1 DEF Sessions
<1> QED BY <1>1, <1>2 DEF Reads, StoredBookmarks, Data

\* Bookmarks made, moved and removed.
LEMMA AddBookmarkNext ==
    ASSUME StoreInv, NEW p \in Procs, NEW b \in Ids, AddBookmark(p, b)
    PROVE  StoreInv' /\ db'.lists = db.lists
<1> DEFINE s == session[p]
           B == StoredBookmarks(p) \cup {b}
           t == [s EXCEPT !.bookmarks = @ \cup {b}]
<1>1. PICK done \in BOOLEAN :
        Carries(p, s.begun, WithBookmarks(p, B), done) /\ Bookmarked(p, t, done)
  <2>1. PICK done \in BOOLEAN :
          Statement(p, s.begun, Rated(p), WithBookmarks(p, B), done) /\ Bookmarked(p, t, done)
    BY DEF AddBookmark
  <2> HIDE DEF t, B, s
  <2> QED BY <2>1, StatementCarries DEF StoreInv
<1>2. /\ s \in Sessions /\ s.stage = "idle" /\ s.document \in Files
      /\ B \in SUBSET Ids /\ (~s.drift => s.bookmarks = StoredBookmarks(p))
  BY ReadyBookmarks DEF AddBookmark, Ready
<1>3. /\ t \in Sessions /\ t.stage = "idle" /\ t.document = s.document
      /\ t.begun = s.begun /\ t.stuck = s.stuck /\ t.was = s.was /\ t.fresh = s.fresh
      /\ t.bookmarks = s.bookmarks \cup {b} /\ t.drift = s.drift
  BY <1>2 DEF Sessions
<1>4. ~t.drift => t.bookmarks = B
  BY <1>2, <1>3
<1> HIDE DEF t, B
<1> QED BY <1>1, <1>2, <1>3, <1>4, BookmarkStep

LEMMA MoveBookmarkNext ==
    ASSUME StoreInv, NEW p \in Procs, NEW b \in Ids, MoveBookmark(p, b)
    PROVE  StoreInv' /\ db'.lists = db.lists
<1> DEFINE s == session[p]
           B == StoredBookmarks(p) \ {b}
           t == [s EXCEPT !.stage = "readd", !.todo = {b}]
<1>1. PICK done \in BOOLEAN :
        Carries(p, s.begun, WithBookmarks(p, B), done) /\ Bookmarked(p, t, done)
  <2>1. PICK done \in BOOLEAN :
          Statement(p, s.begun, TRUE, WithBookmarks(p, B), done) /\ Bookmarked(p, t, done)
    BY DEF MoveBookmark
  <2> HIDE DEF t, B, s
  <2> QED BY <2>1, StatementCarries DEF StoreInv
<1>2. /\ s \in Sessions /\ s.stage = "idle" /\ s.document \in Files /\ b \in s.bookmarks
      /\ B \in SUBSET Ids /\ (~s.drift => s.bookmarks = StoredBookmarks(p))
  BY ReadyBookmarks DEF MoveBookmark, Ready
<1>3. /\ t \in Sessions /\ t.stage = "readd" /\ t.document = s.document
      /\ t.begun = s.begun /\ t.stuck = s.stuck /\ t.was = s.was /\ t.fresh = s.fresh
      /\ t.bookmarks = s.bookmarks /\ t.todo = {b} /\ t.drift = s.drift
  BY <1>2 DEF Sessions, Stages
<1>4. ~t.drift => t.bookmarks = B \cup t.todo
  BY <1>2, <1>3
<1> HIDE DEF t, B
<1> QED BY <1>1, <1>2, <1>3, <1>4, BookmarkStep

LEMMA AddMovedBookmarkNext ==
    ASSUME StoreInv, NEW p \in Procs, AddMovedBookmark(p)
    PROVE  StoreInv' /\ db'.lists = db.lists
<1> DEFINE s == session[p]
           B == StoredBookmarks(p) \cup s.todo
           t == [s EXCEPT !.stage = "idle", !.todo = {}]
<1>1. PICK done \in BOOLEAN :
        Carries(p, s.begun, WithBookmarks(p, B), done) /\ Bookmarked(p, t, done)
  <2>1. PICK done \in BOOLEAN :
          Statement(p, s.begun, Rated(p), WithBookmarks(p, B), done) /\ Bookmarked(p, t, done)
    BY DEF AddMovedBookmark
  <2> HIDE DEF t, B, s
  <2> QED BY <2>1, StatementCarries DEF StoreInv
<1>2. s.stage = "readd" /\ s.document # None
  BY DEF AddMovedBookmark, StoreInv, ProcInv, Stands
<1>3. /\ s \in Sessions /\ s.document \in Files /\ StoredBookmarks(p) \in SUBSET Ids
      /\ (~s.drift => s.bookmarks = B)
  BY <1>2, ReadyBookmarks
<1>4. B \in SUBSET Ids
  BY <1>1, <1>2, <1>3 DEF StoreInv, ProcInv, Stands
<1>5. /\ t \in Sessions /\ t.stage = "idle" /\ t.document = s.document
      /\ t.begun = s.begun /\ t.stuck = s.stuck /\ t.was = s.was /\ t.fresh = s.fresh
      /\ t.bookmarks = s.bookmarks /\ t.drift = s.drift
  BY <1>3 DEF Sessions, Stages
<1>6. ~t.drift => t.bookmarks = B
  BY <1>3, <1>5
<1> HIDE DEF t, B
<1> QED BY <1>1, <1>2, <1>3, <1>4, <1>5, <1>6, BookmarkStep

LEMMA RemoveBookmarkNext ==
    ASSUME StoreInv, NEW p \in Procs, NEW b \in Ids, RemoveBookmark(p, b)
    PROVE  StoreInv' /\ db'.lists = db.lists
<1> DEFINE s == session[p]
           B == StoredBookmarks(p) \ {b}
           t == [s EXCEPT !.bookmarks = @ \ {b}]
<1>1. PICK done \in BOOLEAN :
        Carries(p, s.begun, WithBookmarks(p, B), done) /\ Bookmarked(p, t, done)
  <2>1. PICK done \in BOOLEAN :
          Statement(p, s.begun, TRUE, WithBookmarks(p, B), done) /\ Bookmarked(p, t, done)
    BY DEF RemoveBookmark
  <2> HIDE DEF t, B, s
  <2> QED BY <2>1, StatementCarries DEF StoreInv
<1>2. /\ s \in Sessions /\ s.stage = "idle" /\ s.document \in Files
      /\ B \in SUBSET Ids /\ (~s.drift => s.bookmarks = StoredBookmarks(p))
  BY ReadyBookmarks DEF RemoveBookmark, Ready
<1>3. /\ t \in Sessions /\ t.stage = "idle" /\ t.document = s.document
      /\ t.begun = s.begun /\ t.stuck = s.stuck /\ t.was = s.was /\ t.fresh = s.fresh
      /\ t.bookmarks = s.bookmarks \ {b} /\ t.drift = s.drift
  BY <1>2 DEF Sessions
<1>4. ~t.drift => t.bookmarks = B
  BY <1>2, <1>3
<1> HIDE DEF t, B
<1> QED BY <1>1, <1>2, <1>3, <1>4, BookmarkStep


\* Marks and jumps, in memory.
LEMMA RowNext ==
    ASSUME StoreInv, NEW p \in Procs, NEW l \in Lists, NEW r \in Rows[l],
           AddRow(p, l, r) \/ DropRow(p, l, r)
    PROVE  StoreInv' /\ db'.lists = db.lists
<1> USE DEF StoreInv
<1> DEFINE s == session[p]
<1>1. /\ s \in Sessions /\ s.stage = "idle" /\ UNCHANGED <<db, tx, faults>>
      /\ Known(s, View(p).layout) /\ Stands(s, Owns(p)) /\ Reads(s, View(p))
      /\ faults \in 0 .. MaxFaults
  BY DEF AddRow, DropRow, Ready, TypeOK, ProcInv
<1>2. r \in Entries
  BY DEF Entries
<1>3. PICK R \in SUBSET Entries : Become(p, [s EXCEPT !.lists[l] = R])
  <2>1. s.lists[l] \in SUBSET Entries
    BY <1>1 DEF Sessions
  <2>2. \/ Become(p, [s EXCEPT !.lists[l] = s.lists[l] \cup {r}])
        \/ Become(p, [s EXCEPT !.lists[l] = s.lists[l] \ {r}])
    BY DEF AddRow, DropRow
  <2>3. s.lists[l] \cup {r} \in SUBSET Entries /\ s.lists[l] \ {r} \in SUBSET Entries
    BY <1>2, <2>1
  <2> QED BY <2>2, <2>3
<1> DEFINE t == [s EXCEPT !.lists[l] = R]
<1>4. Become(p, t)
  BY <1>3
<1>5. /\ t \in Sessions /\ t.stage = "idle" /\ t.document = s.document
      /\ t.bookmarks = s.bookmarks /\ t.drift = s.drift /\ t.todo = s.todo
      /\ t.begun = s.begun /\ t.stuck = s.stuck /\ t.was = s.was /\ t.fresh = s.fresh
  BY <1>1 DEF Sessions
<1> HIDE DEF t, s
<1>6. Stands(t, Owns(p))
  BY <1>1, <1>5 DEF Stands, Saving, Upgrading
<1>7. Known(t, View(p).layout)
  BY <1>1, <1>5, QuietKnows DEF Upgrading
<1>8. Reads(t, View(p)) /\ Writes(t, View(p), db)
  BY <1>1, <1>5 DEF Reads, Writes, Saving
<1>9. session[p].stage # "off"
  BY <1>1 DEF s
<1> QED BY <1>1, <1>4, <1>5, <1>6, <1>7, <1>8, <1>9, SilentStep

\* Saving begins.
LEMMA SaveNext ==
    ASSUME StoreInv, NEW p \in Procs, NEW closing \in BOOLEAN, Save(p, closing)
    PROVE  StoreInv' /\ db'.lists = db.lists
<1> USE DEF StoreInv
<1> DEFINE s == session[p]
           t == [s EXCEPT !.stage = "delete", !.saving = "jumplist", !.closing = closing]
<1>1. /\ s \in Sessions /\ s.stage = "idle" /\ s.document # None
      /\ UNCHANGED <<db, tx, faults>> /\ Become(p, t)
      /\ Known(s, View(p).layout) /\ Stands(s, Owns(p)) /\ Reads(s, View(p))
      /\ faults \in 0 .. MaxFaults
  BY DEF Save, Ready, TypeOK, ProcInv
<1>2. /\ t \in Sessions /\ t.stage = "delete" /\ t.document = s.document
      /\ t.bookmarks = s.bookmarks /\ t.drift = s.drift
      /\ t.begun = s.begun /\ t.stuck = s.stuck /\ t.was = s.was /\ t.fresh = s.fresh
  BY <1>1 DEF Sessions, Stages, Lists
<1> HIDE DEF t, s
<1>3. Known(t, View(p).layout)
  BY <1>1, <1>2, QuietKnows DEF Upgrading
<1>4. Stands(t, Owns(p)) /\ Reads(t, View(p)) /\ Writes(t, View(p), db)
  BY <1>1, <1>2 DEF Stands, Reads, Writes, Saving, Upgrading
<1>5. session[p].stage # "off"
  BY <1>1 DEF s
<1> QED BY <1>1, <1>2, <1>3, <1>4, <1>5, SilentStep

\* The session when one list is done with.
LEMMA NextListProperties ==
    ASSUME NEW s \in Sessions, s.document # None, s.begun <=> s.stuck,
           s.stage \in Saving \cup {"delete"}, NEW owns, owns => s.begun,
           NEW y, Known(s, y), NEW d, Reads(s, d), NEW e, e.bookmarks = d.bookmarks,
           NEW committed
    PROVE  /\ NextList(s) \in Sessions
           /\ Known(NextList(s), y) /\ Stands(NextList(s), owns)
           /\ Reads(NextList(s), e) /\ Writes(NextList(s), e, committed)
           /\ NextList(s).stage # "off"
<1> DEFINE t == NextList(s)
<1>1. /\ t \in Sessions /\ t.begun = s.begun /\ t.stuck = s.stuck
      /\ t.was = s.was /\ t.fresh = s.fresh
      /\ \/ /\ t.stage \in {"delete", "idle"} /\ t.document = s.document
            /\ t.bookmarks = s.bookmarks /\ t.drift = s.drift
         \/ t.stage = "idle" /\ t.document = None
  <2>1. CASE s.saving = "jumplist"
    BY <2>1 DEF NextList, Sessions, Stages, Lists
  <2>2. CASE s.saving # "jumplist" /\ s.closing
    BY <2>2 DEF NextList, Sessions, Stages, Lists, NoRows
  <2>3. CASE s.saving # "jumplist" /\ ~s.closing
    BY <2>3 DEF NextList, Sessions, Stages, Lists
  <2> QED BY <2>1, <2>2, <2>3
<1> HIDE DEF t
<1>2. Known(t, y)
  BY <1>1, QuietKnows DEF Saving, Upgrading
<1>3. Reads(t, e)
  BY <1>1 DEF Reads, Saving
<1>4. Stands(t, owns) /\ Writes(t, e, committed)
  BY <1>1 DEF Stands, Writes, Saving, Upgrading
<1> QED BY <1>1, <1>2, <1>3, <1>4 DEF t

\* One list is deleted.
LEMMA DeleteListNext ==
    ASSUME StoreInv, NEW p \in Procs, DeleteList(p)
    PROVE  StoreInv' /\ db'.lists = db.lists
<1> USE DEF StoreInv
<1> DEFINE s == session[p]
<1>1. /\ s \in Sessions /\ s.stage = "delete" /\ s.document # None
      /\ (s.begun <=> s.stuck) /\ (Owns(p) => s.begun)
      /\ Known(s, View(p).layout) /\ Stands(s, Owns(p)) /\ Written(View(p).layout)
      /\ View(p) \in Data /\ faults \in 0 .. MaxFaults /\ session \in [Procs -> Sessions]
      /\ Reads(s, View(p)) /\ db.layout.exists
  BY ViewIsData DEF DeleteList, TypeOK, ProcInv, Stands, Saving
<1>2. /\ NextList(s) \in Sessions
      /\ Known(NextList(s), View(p).layout) /\ Stands(NextList(s), Owns(p))
      /\ Reads(NextList(s), View(p)) /\ Writes(NextList(s), View(p), db)
  <2>1. s.stage \in Saving \cup {"delete"}
    BY <1>1
  <2> HIDE DEF s
  <2> QED BY <1>1, <2>1, NextListProperties
<1>3. ASSUME Become(p, NextList(s)), UNCHANGED <<db, tx>>, faults' \in 0 .. MaxFaults
      PROVE  StoreInv' /\ db'.lists = db.lists
  <2>1. session[p].stage # "off"
    BY <1>1
  <2> QED BY <1>2, <1>3, <2>1, SilentStep
<1>4. CASE s.begun /\ UNCHANGED <<db, tx, faults>> /\ Become(p, NextList(s))
  BY <1>1, <1>3, <1>4
<1> DEFINE t == [s EXCEPT !.begun = TRUE, !.todo = s.lists[s.saving],
                          !.stage = IF s.lists[s.saving] = {} THEN "commit" ELSE "insert"]
           new == WithList(p, {})
<1>5. CASE /\ ~s.begun
           /\ \E done \in BOOLEAN :
                /\ Statement(p, TRUE, TRUE, new, done)
                /\ Become(p, IF done THEN t ELSE NextList(s))
  <2>1. PICK done \in BOOLEAN : /\ Carries(p, TRUE, new, done)
                                /\ Become(p, IF done THEN t ELSE NextList(s))
    <3>1. PICK done \in BOOLEAN : /\ Statement(p, TRUE, TRUE, new, done)
                                  /\ Become(p, IF done THEN t ELSE NextList(s))
      BY <1>5
    <3> HIDE DEF new, t, s
    <3> QED BY <3>1, StatementCarries
  <2>2. ~Owns(p) /\ View(p) = db
    BY <1>1, <1>5 DEF View
  <2>3. /\ s.document \in Files /\ s.saving \in Lists /\ s.lists[s.saving] \in SUBSET Entries
    BY <1>1 DEF Sessions
  <2>4. /\ new \in Data /\ new.layout = db.layout /\ new.bookmarks = db.bookmarks
        /\ new = [db EXCEPT !.lists[s.document][s.saving] = {}]
    BY <1>1, <2>2, <2>3 DEF WithList, Data
  <2>5. /\ t \in Sessions /\ t.begun = TRUE /\ t.stuck = s.stuck /\ t.document = s.document
        /\ t.saving = s.saving /\ t.lists = s.lists /\ t.todo = s.lists[s.saving]
        /\ t.was = s.was /\ t.fresh = s.fresh /\ t.bookmarks = s.bookmarks
        /\ t.drift = s.drift /\ t.stage = IF t.todo = {} THEN "commit" ELSE "insert"
    BY <1>1, <2>3 DEF Sessions, Stages
  <2> HIDE DEF t, new, s
  <2>6. CASE ~done
    <3>1. db' = db /\ tx' = tx /\ faults' \in 0 .. MaxFaults
      BY <2>1, <2>6 DEF Carries
    <3> QED BY <1>3, <2>1, <2>6, <3>1
  <2>7. CASE done
    <3>1. /\ session'[p] = t /\ \A q \in Procs \ {p} : session'[q] = session[q]
          /\ session' \in [Procs -> Sessions]
      BY <1>1, <2>1, <2>5, <2>7 DEF Become
    <3>2. Carries(p, TRUE, new, TRUE)
      BY <2>1, <2>7
    <3>3. /\ db' = db /\ Owns(p)' /\ db' \in Data /\ tx' \in Transactions \cup {None}
          /\ faults' \in 0 .. MaxFaults
      BY <2>4, <3>2, StatementEffect
    <3>4. View(p)' = new
      BY <2>4, <3>2, StatementView
    <3>5. Grows(View(p).layout, new.layout) /\ Written(new.layout)
      BY <1>1, <2>2, <2>4, GrowsItself
    <3>6. \A q \in Procs \ {p} : Undisturbed(q)
      BY <2>2, <2>4, <3>1, <3>2, <3>5, StatementDisturbs
    <3>7. Known(t, new.layout) /\ Stands(t, TRUE)
      <4>1. Known(t, new.layout)
        BY <1>1, <2>5, QuietKnows DEF Upgrading
      <4> QED BY <1>1, <1>5, <2>5, <4>1 DEF Stands, Saving, Upgrading
    <3>8. Reads(t, new)
      BY <1>1, <2>2, <2>4, <2>5 DEF Reads, Saving
    <3>9. Writes(t, new, db)
      <4>1. t.lists[t.saving] \ t.todo = {}
        BY <2>5
      <4> QED BY <2>4, <2>5, <4>1 DEF Writes
    <3>10. ProcInv(p)'
      BY <1>1, <2>4, <3>1, <3>3, <3>4, <3>5, <3>7, <3>8, <3>9 DEF ProcInv
    <3>11. TypeOK' /\ Written(db.layout)'
      BY <3>1, <3>3 DEF TypeOK
    <3> QED BY <3>3, <3>6, <3>10, <3>11, StepOf
  <2> QED BY <2>6, <2>7
<1> QED BY <1>4, <1>5 DEF DeleteList

\* A transaction is over: what the others see, if it changed lists only.
LEMMA TransactionEnds ==
    ASSUME StoreInv, NEW p \in Procs, Owns(p), tx' = None, db' \in {db, View(p)},
           Writes(session[p], View(p), db), session[p].stage \in Saving,
           NEW t \in Sessions, Become(p, t), faults' \in 0 .. MaxFaults,
           \A d : d.bookmarks = db.bookmarks =>
                    /\ Known(t, db.layout) /\ Stands(t, FALSE) /\ Reads(t, d)
                    /\ Writes(t, d, d)
    PROVE  StoreInv'
<1> USE DEF StoreInv
<1>1. /\ session'[p] = t /\ \A q \in Procs \ {p} : session'[q] = session[q]
      /\ session' \in [Procs -> Sessions]
  BY DEF Become, TypeOK
<1>2. db \in Data /\ View(p) \in Data
  BY ViewIsData DEF TypeOK
<1>3. View(p).layout = db.layout /\ View(p).bookmarks = db.bookmarks
  BY <1>2 DEF Writes, Data
<1>4. db'.layout = db.layout /\ db'.bookmarks = db.bookmarks /\ db' \in Data
  BY <1>2, <1>3
<1>5. \A q : ~Owns(q)' /\ View(q)' = db'
  BY DEF View, Owns
<1>6. \A q \in Procs \ {p} : ~Owns(q) /\ View(q) = db
  BY DEF View, Owns
<1>7. \A q \in Procs \ {p} : Undisturbed(q)
  BY <1>1, <1>4, <1>5, <1>6, GrowsItself DEF Undisturbed
<1>8. ProcInv(p)'
  <2>1. Owns(p)' = FALSE /\ View(p)' = db'
    BY <1>5 DEF Owns
  <2>2. Known(t, db'.layout) /\ Written(db'.layout)
    BY <1>4
  <2>3. Stands(t, FALSE) /\ Reads(t, db') /\ Writes(t, db', db')
    BY <1>4
  <2>4. db'.layout.exists
    BY <1>4 DEF ProcInv, Saving
  <2> QED BY <1>1, <2>1, <2>2, <2>3, <2>4 DEF ProcInv
<1>9. TypeOK' /\ Written(db.layout)'
  BY <1>1, <1>4 DEF TypeOK
<1> QED BY <1>7, <1>8, <1>9, StepOf


\* The state of a process that saves.
LEMMA SavingProperties ==
    ASSUME StoreInv, NEW p \in Procs, session[p].stage \in Saving
    PROVE  /\ session[p] \in Sessions /\ session[p].document \in Files
           /\ session[p].saving \in Lists /\ session[p].begun /\ ~session[p].stuck
           /\ Owns(p) /\ View(p) = tx.data /\ View(p) \in Data /\ db \in Data
           /\ Known(session[p], View(p).layout) /\ Writes(session[p], View(p), db)
           /\ Reads(session[p], View(p)) /\ db.layout.exists
           /\ View(p).layout = db.layout /\ View(p).bookmarks = db.bookmarks
<1>1. /\ session[p] \in Sessions /\ Stands(session[p], Owns(p)) /\ View(p) \in Data
      /\ db \in Data /\ Known(session[p], View(p).layout)
      /\ Writes(session[p], View(p), db) /\ Reads(session[p], View(p))
      /\ db.layout.exists
  BY ViewIsData DEF StoreInv, TypeOK, ProcInv, Saving
<1>2. /\ session[p].document \in Files /\ session[p].saving \in Lists
      /\ session[p].begun /\ ~session[p].stuck /\ Owns(p)
  BY <1>1 DEF Stands, Saving, Sessions
<1> QED BY <1>1, <1>2 DEF Writes, Data, View

\* The session of one that has left its transaction.
LEMMA LeavesTransaction ==
    ASSUME StoreInv, NEW p \in Procs, session[p].stage \in Saving,
           NEW t, t = NextList([session[p] EXCEPT !.begun = FALSE])
    PROVE  /\ t \in Sessions
           /\ \A d : d.bookmarks = db.bookmarks =>
                       /\ Known(t, db.layout) /\ Stands(t, FALSE)
                       /\ Reads(t, d) /\ Writes(t, d, d)
<1> DEFINE s == session[p]
           u == [s EXCEPT !.begun = FALSE]
<1>1. /\ s \in Sessions /\ s.document # None /\ ~s.stuck /\ Known(s, db.layout)
      /\ Reads(s, View(p)) /\ View(p).bookmarks = db.bookmarks
  BY SavingProperties, NoneAssumption
<1>2. /\ u \in Sessions /\ u.stage = s.stage /\ u.document = s.document /\ u.begun = FALSE
      /\ u.stuck = s.stuck /\ u.was = s.was /\ u.fresh = s.fresh
      /\ u.bookmarks = s.bookmarks /\ u.drift = s.drift /\ u.todo = s.todo
  BY <1>1 DEF Sessions
<1>3. t = NextList(u)
  OBVIOUS
<1>4. u.stage \in Saving \cup {"delete"}
  BY <1>2
<1> HIDE DEF u, s
<1>5. Known(u, db.layout)
  <2>1. u.stage \notin Upgrading
    BY <1>4 DEF Saving, Upgrading
  <2> QED BY <1>1, <1>2, <2>1, QuietKnows
<1>6. Reads(u, View(p))
  BY <1>1, <1>2 DEF Reads
<1>7. ASSUME NEW d, d.bookmarks = db.bookmarks
      PROVE  /\ t \in Sessions /\ Known(t, db.layout) /\ Stands(t, FALSE)
             /\ Reads(t, d) /\ Writes(t, d, d)
  <2>1. d.bookmarks = View(p).bookmarks
    BY <1>1, <1>7
  <2> QED BY <1>1, <1>2, <1>3, <1>4, <1>5, <1>6, <2>1, NextListProperties
<1> QED BY <1>7

\* A list that is replaced twice.
Replaced(d, f, l, R) == [d EXCEPT !.lists[f][l] = R]

LEMMA ReplacedTwice ==
    ASSUME NEW d \in Data, NEW f \in Files, NEW l \in Lists, NEW A, NEW B
    PROVE  Replaced(Replaced(d, f, l, A), f, l, B) = Replaced(d, f, l, B)
<1>1. d.lists \in [Files -> [Lists -> SUBSET Entries]]
  BY DEF Data
<1> DEFINE g == [d.lists EXCEPT ![f] = [d.lists[f] EXCEPT ![l] = A]]
           c == Replaced(d, f, l, A)
<1>2. c = [d EXCEPT !.lists = g]
  BY DEF Replaced
<1>3. c.lists = g
  BY <1>2 DEF Data
<1>4. g[f] = [d.lists[f] EXCEPT ![l] = A]
  BY <1>1
<1>5. [g[f] EXCEPT ![l] = B] = [d.lists[f] EXCEPT ![l] = B]
  BY <1>1, <1>4
<1>6. [g EXCEPT ![f] = [d.lists[f] EXCEPT ![l] = B]]
        = [d.lists EXCEPT ![f] = [d.lists[f] EXCEPT ![l] = B]]
  BY <1>1
<1>7. [c EXCEPT !.lists[f][l] = B]
        = [c EXCEPT !.lists = [c.lists EXCEPT ![f] = [c.lists[f] EXCEPT ![l] = B]]]
  OBVIOUS
<1> HIDE DEF g, c
<1>8. [c EXCEPT !.lists[f][l] = B]
        = [c EXCEPT !.lists = [d.lists EXCEPT ![f] = [d.lists[f] EXCEPT ![l] = B]]]
  BY <1>3, <1>5, <1>6, <1>7
<1> DEFINE h == [d.lists EXCEPT ![f] = [d.lists[f] EXCEPT ![l] = B]]
<1>9. [c EXCEPT !.lists = h] = [d EXCEPT !.lists = h]
  <2> HIDE DEF h
  <2> QED BY <1>2
<1> QED BY <1>8, <1>9 DEF Replaced, c

\* A row of the list is inserted.
LEMMA InsertRowNext ==
    ASSUME StoreInv, NEW p \in Procs, InsertRow(p)
    PROVE  StoreInv' /\ db'.lists = db.lists
<1> DEFINE s == session[p]
           f == s.document
           l == s.saving
<1>1. s.stage = "insert" /\ s.stage \in Saving
  BY DEF InsertRow, Saving
<1>2. /\ s \in Sessions /\ f \in Files /\ l \in Lists /\ s.begun /\ ~s.stuck
      /\ Owns(p) /\ View(p) \in Data /\ db \in Data
      /\ Known(s, View(p).layout) /\ Writes(s, View(p), db)
      /\ View(p).layout = db.layout /\ View(p).bookmarks = db.bookmarks
      /\ Reads(s, View(p)) /\ db.layout.exists
  BY <1>1, SavingProperties
<1>3. /\ View(p) = [db EXCEPT !.lists[f][l] = s.lists[l] \ s.todo]
      /\ s.todo \subseteq s.lists[l] /\ s.todo # {}
  BY <1>1, <1>2 DEF Writes
<1>4. s.lists[l] \in SUBSET Entries
  BY <1>2 DEF Sessions
<1>5. ASSUME NEW row \in s.todo, NEW R, R = View(p).lists[f][l] \cup {row},
             NEW t, t = [s EXCEPT !.todo = @ \ {row},
                                  !.stage = IF s.todo = {row} THEN "commit" ELSE "insert"],
             Carries(p, s.begun, WithList(p, R), TRUE), Become(p, t)
      PROVE  StoreInv' /\ db'.lists = db.lists
  <2> DEFINE new == WithList(p, R)
  <2>1. s.begun = TRUE
    BY <1>2 DEF Sessions
  <2>2. View(p).lists[f][l] = s.lists[l] \ s.todo
    BY <1>2, <1>3 DEF Data
  <2>3. R = s.lists[l] \ (s.todo \ {row}) /\ R \in SUBSET Entries
    BY <1>3, <1>4, <1>5, <2>2
  <2>4. new = [View(p) EXCEPT !.lists[f][l] = R]
    BY DEF WithList
  <2>5. /\ new \in Data /\ new = [db EXCEPT !.lists[f][l] = R]
        /\ new.layout = db.layout /\ new.bookmarks = db.bookmarks
    <3> HIDE DEF s, f, l, new
    <3>1. View(p) = Replaced(db, f, l, s.lists[l] \ s.todo)
      BY <1>3 DEF s, Replaced
    <3>2. new = Replaced(View(p), f, l, R)
      BY <2>4 DEF s, f, l, Replaced
    <3>3. f \in Files /\ l \in Lists /\ db \in Data /\ R \in SUBSET Entries
      BY <1>2, <2>3
    <3>4. new = Replaced(db, f, l, R)
      BY <3>1, <3>2, <3>3, ReplacedTwice
    <3>5. new = [db EXCEPT !.lists[f][l] = R]
      BY <3>4 DEF Replaced
    <3>6. new \in Data /\ new.layout = db.layout /\ new.bookmarks = db.bookmarks
      BY <3>3, <3>5 DEF Data
    <3> QED BY <3>5, <3>6
  <2>6. /\ t \in Sessions /\ t.stage = (IF s.todo = {row} THEN "commit" ELSE "insert")
        /\ t.todo = s.todo \ {row} /\ t.document = f /\ t.saving = l /\ t.lists = s.lists
        /\ t.begun = s.begun /\ t.stuck = s.stuck /\ t.was = s.was /\ t.fresh = s.fresh
        /\ t.bookmarks = s.bookmarks /\ t.drift = s.drift
    BY <1>2, <1>5 DEF Sessions, Stages
  <2>7. t.stage = "commit" <=> t.todo = {}
    BY <1>5, <2>6
  <2>8. Carries(p, TRUE, new, TRUE)
    BY <1>5, <2>1
  <2>9. /\ session'[p] = t /\ \A q \in Procs \ {p} : session'[q] = session[q]
        /\ session' \in [Procs -> Sessions]
    BY <1>5, <2>6 DEF Become, StoreInv, TypeOK
  <2> HIDE DEF new, s, f, l
  <2>10. TypeOK /\ TRUE \in BOOLEAN
    BY DEF StoreInv
  <2>11. /\ db' = db /\ Owns(p)' /\ db' \in Data /\ tx' \in Transactions \cup {None}
         /\ faults' \in 0 .. MaxFaults
    BY <2>5, <2>8, <2>10, StatementEffect
  <2>12. View(p)' = new
    BY <2>5, <2>8, <2>10, StatementView
  <2>13. Grows(View(p).layout, new.layout) /\ Written(new.layout)
    BY <1>2, <2>5, GrowsItself DEF StoreInv
  <2>14. \A q \in Procs \ {p} : Undisturbed(q)
    BY <1>2, <2>5, <2>8, <2>9, <2>10, <2>13, StatementDisturbs
  <2>15. Known(t, new.layout) /\ Stands(t, TRUE)
    <3>1. Known(t, new.layout)
      BY <1>1, <1>2, <2>6, QuietKnows DEF Upgrading, s
    <3> QED BY <1>2, <2>1, <2>6, <3>1, NoneAssumption DEF Stands, Saving, Upgrading, s, f
  <2>16. Reads(t, new)
    BY <1>1, <1>2, <2>5, <2>6 DEF Reads, Saving, f
  <2>17. Writes(t, new, db)
    BY <1>3, <2>3, <2>5, <2>6, <2>7 DEF Writes
  <2>18. ProcInv(p)'
    BY <1>2, <2>5, <2>9, <2>11, <2>12, <2>13, <2>15, <2>16, <2>17 DEF ProcInv
  <2>19. TypeOK' /\ Written(db.layout)'
    BY <2>9, <2>11 DEF TypeOK, StoreInv
  <2> QED BY <2>11, <2>14, <2>18, <2>19, StepOf
<1>6. CASE Fault /\ Rollback /\ Become(p, NextList([s EXCEPT !.begun = FALSE]))
  <2> DEFINE u == NextList([s EXCEPT !.begun = FALSE])
  <2>1. /\ u \in Sessions
        /\ \A d : d.bookmarks = db.bookmarks =>
                    /\ Known(u, db.layout) /\ Stands(u, FALSE)
                    /\ Reads(u, d) /\ Writes(u, d, d)
    BY <1>1, LeavesTransaction
  <2>2. Become(p, u) /\ tx' = None /\ db' = db /\ faults' \in 0 .. MaxFaults
    BY <1>6, FaultsAssumption DEF Rollback, Fault, StoreInv, TypeOK
  <2> HIDE DEF u
  <2> QED BY <1>1, <1>2, <2>1, <2>2, TransactionEnds
<1>7. CASE \E row \in s.todo :
             /\ Statement(p, s.begun, TRUE, WithList(p, View(p).lists[f][l] \cup {row}), TRUE)
             /\ Become(p, [s EXCEPT !.todo = @ \ {row},
                                    !.stage = IF s.todo = {row} THEN "commit" ELSE "insert"])
  <2>1. PICK row \in s.todo :
          /\ Statement(p, s.begun, TRUE, WithList(p, View(p).lists[f][l] \cup {row}), TRUE)
          /\ Become(p, [s EXCEPT !.todo = @ \ {row},
                                 !.stage = IF s.todo = {row} THEN "commit" ELSE "insert"])
    BY <1>7
  <2>2. Carries(p, s.begun, WithList(p, View(p).lists[f][l] \cup {row}), TRUE)
    <3>1. TRUE \in BOOLEAN /\ TypeOK
      BY DEF StoreInv
    <3> HIDE DEF s, f, l
    <3> QED BY <2>1, <3>1, StatementCarries
  <2> QED BY <1>5, <2>1, <2>2
<1> QED BY <1>6, <1>7 DEF InsertRow

\* The list is committed, whole; a COMMIT that fails commits nothing.
LEMMA CommitNext ==
    ASSUME StoreInv, NEW p \in Procs, Commit(p)
    PROVE  /\ StoreInv'
           /\ session[p].stage = "commit" /\ session[p].document \in Files
           /\ session[p].saving \in Lists
           /\ \/ db' = db
              \/ db' = [db EXCEPT !.lists[session[p].document][session[p].saving] =
                                     session[p].lists[session[p].saving]]
<1> DEFINE s == session[p]
<1>1. s.stage = "commit" /\ s.stage \in Saving
  BY DEF Commit, Saving
<1>2. /\ s \in Sessions /\ s.document \in Files /\ s.saving \in Lists
      /\ s.begun /\ ~s.stuck /\ Owns(p) /\ View(p) = tx.data /\ Known(s, View(p).layout)
      /\ Writes(s, View(p), db) /\ Reads(s, View(p)) /\ db.layout.exists
  BY <1>1, SavingProperties
<1>3. tx.data = [db EXCEPT !.lists[s.document][s.saving] = s.lists[s.saving]]
  <2>1. s.lists[s.saving] \ {} = s.lists[s.saving]
    OBVIOUS
  <2> QED BY <1>1, <1>2, <2>1 DEF Writes
<1> DEFINE u == NextList([s EXCEPT !.begun = FALSE])
<1>4. /\ u \in Sessions
      /\ \A d : d.bookmarks = db.bookmarks =>
                  /\ Known(u, db.layout) /\ Stands(u, FALSE) /\ Reads(u, d)
                  /\ Writes(u, d, d)
  BY <1>1, LeavesTransaction
<1>5. /\ faults \in 0 .. MaxFaults /\ tx \in Transactions
  BY <1>2 DEF StoreInv, TypeOK, Owns
<1>6. CASE /\ Become(p, u) /\ tx' = None /\ (db' = tx.data \/ db' = db)
           /\ (Fault \/ UNCHANGED faults)
  <2>1. db' \in {db, View(p)} /\ faults' \in 0 .. MaxFaults
    BY <1>2, <1>5, <1>6, FaultsAssumption DEF Fault
  <2> HIDE DEF u
  <2>2. StoreInv'
    BY <1>1, <1>2, <1>4, <1>6, <2>1, TransactionEnds
  <2> QED BY <1>1, <1>2, <1>3, <1>6, <2>2
<1>7. CASE /\ Fault /\ tx' = [tx EXCEPT !.pending = TRUE] /\ UNCHANGED db
           /\ Become(p, NextList([s EXCEPT !.stuck = TRUE]))
  <2> DEFINE v == [s EXCEPT !.stuck = TRUE]
             t == NextList(v)
  <2>1. /\ v \in Sessions /\ v.stage = s.stage /\ v.document = s.document
        /\ v.begun = s.begun /\ v.stuck /\ v.was = s.was /\ v.fresh = s.fresh
        /\ v.bookmarks = s.bookmarks /\ v.drift = s.drift
    BY <1>2 DEF Sessions
  <2>2. v.document # None /\ (v.begun <=> v.stuck) /\ v.stage \in Saving \cup {"delete"}
    BY <1>1, <1>2, <2>1, NoneAssumption
  <2> HIDE DEF v
  <2>3. Known(v, View(p).layout) /\ Reads(v, View(p))
    <3>1. s.stage \notin Upgrading /\ s.stage \in Saving /\ v.stage \notin Upgrading
      BY <1>1, <2>1 DEF Upgrading
    <3>2. Reads(v, View(p))
      BY <1>2, <2>1, <3>1 DEF Reads, Saving
    <3> QED BY <1>2, <2>1, <3>1, <3>2, QuietKnows
  <2>4. /\ t \in Sessions /\ Known(t, View(p).layout) /\ Stands(t, TRUE)
        /\ Reads(t, View(p)) /\ Writes(t, View(p), db)
    BY <2>1, <2>2, <2>3, NextListProperties
  <2>5. Become(p, t)
    BY <1>7 DEF v
  <2> HIDE DEF t
  <2>6. /\ tx' \in Transactions /\ tx'.owner = tx.owner /\ tx'.data = tx.data
    BY <1>5, <1>7 DEF Transactions
  <2>7. tx # None /\ tx' # None
    BY <1>5, <2>6, NoneAssumption
  <2>8. \A q : (Owns(q)' <=> Owns(q)) /\ View(q)' = View(q)
    BY <1>7, <2>6, <2>7 DEF Owns, View
  <2>9. /\ session'[p] = t /\ \A q \in Procs \ {p} : session'[q] = session[q]
        /\ session' \in [Procs -> Sessions]
    BY <2>4, <2>5 DEF Become, StoreInv, TypeOK
  <2>10. \A q \in Procs \ {p} : ~Owns(q)
    BY <1>2 DEF Owns
  <2>11. \A q \in Procs \ {p} : Undisturbed(q)
    BY <1>7, <2>8, <2>9, <2>10, GrowsItself DEF Undisturbed, StoreInv, ProcInv
  <2>12. Owns(p)' = TRUE
    BY <1>2, <2>8 DEF Owns
  <2>13. ProcInv(p)'
    <3>1. Written(View(p).layout) /\ db.layout.exists /\ View(p).layout.exists
      BY <1>1 DEF ProcInv, StoreInv, Saving
    <3> HIDE DEF s
    <3> QED BY <1>7, <2>4, <2>8, <2>9, <2>12, <3>1 DEF ProcInv
  <2>14. TypeOK' /\ Written(db.layout)'
    BY <1>7, <2>6, <2>9, FaultsAssumption DEF TypeOK, StoreInv, Fault
  <2>15. StoreInv'
    BY <2>11, <2>13, <2>14, StepOf
  <2> QED BY <1>1, <1>2, <1>7, <2>15
<1> QED BY <1>6, <1>7 DEF Commit, Rollback


\* A process that is gone has committed nothing of what it was about to.
LEMMA ExitNext ==
    ASSUME StoreInv, NEW p \in Procs, Exit(p)
    PROVE  StoreInv' /\ db'.lists = db.lists
<1> USE DEF StoreInv
<1>1. /\ Become(p, Off) /\ db' = db /\ tx' = (IF Owns(p) THEN None ELSE tx)
      /\ faults' \in 0 .. MaxFaults
  BY FaultsAssumption DEF Exit, Fault, TypeOK
<1>2. Off \in Sessions
  BY DEF Off, Sessions, Stages, Lists, NoRows, DatabaseVersion
<1>3. /\ session'[p] = Off /\ \A q \in Procs \ {p} : session'[q] = session[q]
      /\ session' \in [Procs -> Sessions]
  BY <1>1, <1>2 DEF Become, TypeOK
<1>4. ~Owns(p)' /\ View(p)' = db
  BY <1>1 DEF Owns, View
<1>5. \A q \in Procs \ {p} : (Owns(q)' <=> Owns(q)) /\ View(q)' = View(q) /\ (Owns(q) => tx' = tx)
  <2>1. CASE Owns(p)
    BY <1>1, <2>1 DEF Owns, View
  <2>2. CASE ~Owns(p)
    BY <1>1, <2>2 DEF Owns, View
  <2> QED BY <2>1, <2>2
<1>6. \A q \in Procs \ {p} : Undisturbed(q)
  BY <1>1, <1>3, <1>5, GrowsItself DEF Undisturbed, ProcInv
<1>7. \A y, d, c : /\ Known(Off, y) /\ Stands(Off, FALSE) /\ Reads(Off, d)
                    /\ Writes(Off, d, c)
  BY DEF Off, Known, Counts, Stands, Reads, Writes, Saving, Upgrading
<1>8. ProcInv(p)'
  <2>1. Owns(p)' = FALSE
    BY <1>4 DEF Owns
  <2>2. Off.stage = "off"
    BY DEF Off
  <2> QED BY <1>3, <1>4, <1>7, <2>1, <2>2 DEF ProcInv
<1>9. TypeOK' /\ Written(db.layout)'
  BY <1>1, <1>3 DEF TypeOK
<1> QED BY <1>1, <1>6, <1>8, <1>9, StepOf

\* The invariant holds at the start and is kept by every step.
LEMMA StoreInit == Init => StoreInv
<1> SUFFICES ASSUME Init PROVE StoreInv
  OBVIOUS
<1>1. PICK y \in Layouts : db = [layout |-> y, bookmarks |-> [f \in Files |-> {}],
                                 lists |-> [f \in Files |-> NoRows]]
  BY DEF Init
<1>2. y \in Layout /\ Written(y)
  BY LayoutsAssumption
<1>3. db \in Data
  BY <1>1, <1>2 DEF Data, NoRows
<1>4. Off \in Sessions
  BY DEF Off, Sessions, Stages, Lists, NoRows, DatabaseVersion
<1>5. TypeOK /\ Written(db.layout)
  BY <1>1, <1>2, <1>3, <1>4, FaultsAssumption DEF Init, TypeOK
<1>6. \A z, d, c : /\ Known(Off, z) /\ Stands(Off, FALSE) /\ Reads(Off, d)
                    /\ Writes(Off, d, c)
  BY DEF Off, Known, Counts, Stands, Reads, Writes, Saving, Upgrading
<1>7. ASSUME NEW p \in Procs PROVE ProcInv(p)
  <2>1. Owns(p) = FALSE /\ View(p) = db /\ session[p] = Off
    BY DEF Init, Owns, View
  <2>2. Off.stage = "off"
    BY DEF Off
  <2> QED BY <1>5, <1>6, <2>1, <2>2 DEF ProcInv
<1> QED BY <1>5, <1>7 DEF StoreInv

\* Only a COMMIT changes a list that is stored.
LEMMA StoreNext ==
    ASSUME StoreInv, Next
    PROVE  /\ StoreInv'
           /\ \/ db'.lists = db.lists
              \/ \E p \in Procs : Commit(p)
<1>1. PICK p \in Procs :
        \/ Start(p) \/ Upgrade(p)
        \/ \E f \in Files : Open(p, f)
        \/ \E b \in Ids : BookmarkCreate(p, b) \/ RemoveBookmark(p, b)
        \/ AddMovedBookmark(p)
        \/ \E l \in Lists : \E r \in Rows[l] : AddRow(p, l, r) \/ DropRow(p, l, r)
        \/ Save(p, TRUE) \/ Save(p, FALSE) \/ DeleteList(p) \/ InsertRow(p) \/ Commit(p)
        \/ Exit(p)
  BY DEF Next
<1>2. CASE Start(p) \/ Upgrade(p) \/ \E f \in Files : Open(p, f)
  BY <1>2, StartNext, UpgradeNext, OpenNext
<1>3. CASE \/ \E b \in Ids : BookmarkCreate(p, b) \/ RemoveBookmark(p, b)
           \/ AddMovedBookmark(p)
  BY <1>3, AddBookmarkNext, MoveBookmarkNext, RemoveBookmarkNext, AddMovedBookmarkNext
     DEF BookmarkCreate
<1>4. CASE \E l \in Lists : \E r \in Rows[l] : AddRow(p, l, r) \/ DropRow(p, l, r)
  BY <1>4, RowNext
<1>5. CASE Save(p, TRUE) \/ Save(p, FALSE) \/ DeleteList(p) \/ InsertRow(p) \/ Exit(p)
  BY <1>5, SaveNext, DeleteListNext, InsertRowNext, ExitNext
<1>6. CASE Commit(p)
  BY <1>6, CommitNext
<1> QED BY <1>1, <1>2, <1>3, <1>4, <1>5, <1>6

LEMMA StoreStutters ==
    ASSUME StoreInv, UNCHANGED vars
    PROVE  StoreInv'
<1>1. db' = db /\ tx' = tx /\ session' = session /\ faults' = faults
  BY DEF vars
<1>2. \A q : View(q)' = View(q) /\ (Owns(q)' <=> Owns(q)) /\ session'[q] = session[q]
  BY <1>1 DEF View, Owns
<1>3. \A q \in Procs : Undisturbed(q)
  BY <1>1, <1>2, GrowsItself DEF Undisturbed, StoreInv, ProcInv
<1>4. TypeOK' /\ Written(db.layout)'
  BY <1>1 DEF StoreInv, TypeOK
<1> QED BY <1>3, <1>4, OthersStay DEF StoreInv

LEMMA StoreInvariant == Spec => []StoreInv
<1>1. StoreInv /\ [Next]_vars => StoreInv'
  BY StoreNext, StoreStutters
<1> QED BY <1>1, StoreInit, PTL DEF Spec

-----------------------------------------------------------------------------
(***************************************************************************)
(* Theorems.                                                               *)
(***************************************************************************)
\* The bookmarks a process shows are those its connection sees in the table, whatever
\* order they were made, moved and removed in, as long as no statement of its failed and
\* no other process changed them: bookmarks.c and the bookmarks table stay in step.
THEOREM BookmarksInStep == Spec => []BookmarksAgree
<1>1. StoreInv => BookmarksAgree
  BY DEF StoreInv, ProcInv, Reads, BookmarksAgree, Ready, StoredBookmarks
<1> QED BY <1>1, StoreInvariant, PTL

\* Sessions are well typed, and outside the two save functions no connection of any of
\* the processes is in a transaction unless a COMMIT or the rebuilding of fileinfo left
\* it there (sqlite_save_jumplist, sqlite_save_quickmarks: every error rolls back).
THEOREM TransactionsAreOver == Spec => []WellFormed
<1>1. StoreInv => WellFormed
  BY DEF StoreInv, ProcInv, Stands, Saving, WellFormed, TransactionsEnd
<1> QED BY <1>1, StoreInvariant, PTL

\* A database that says it is of the current version has all tables, sha256 and every
\* column that is looked for, except those whose look-up had no answer:
\* sqlite_db_check_layout writes the version last and after no failure, and whoever
\* upgrades at the same time only adds.
THEOREM VersionIsEarned == Spec => []VersionTellsLayout
<1>1. Written(db.layout) => VersionTellsLayout
  BY DEF Written, VersionTellsLayout, DatabaseVersion
<1> QED BY <1>1, StoreInvariant, PTL DEF StoreInv

\* A stored list is replaced as a whole, by the list in the memory of the process that
\* saves it, and by its COMMIT.
THEOREM ListsAreReplaced == Spec => ListsSavedWhole
<1> DEFINE Saved ==
      \A f \in Files, l \in Lists :
         db'.lists[f][l] # db.lists[f][l] =>
            \E p \in Procs : /\ session[p].document = f /\ session[p].saving = l
                             /\ session[p].stage = "commit"
                             /\ db'.lists[f][l] = session[p].lists[l]
<1>1. StoreInv /\ [Next]_vars => [Saved]_vars
  <2> SUFFICES ASSUME StoreInv, Next PROVE Saved
    OBVIOUS
  <2>1. CASE db'.lists = db.lists
    BY <2>1
  <2>2. CASE \E p \in Procs : Commit(p)
    <3>1. PICK p \in Procs : Commit(p)
      BY <2>2
    <3> DEFINE s == session[p]
    <3>2. /\ s.stage = "commit" /\ s.document \in Files /\ s.saving \in Lists
          /\ \/ db' = db
             \/ db' = [db EXCEPT !.lists[s.document][s.saving] = s.lists[s.saving]]
      BY <3>1, CommitNext
    <3>3. db \in Data
      BY DEF StoreInv, TypeOK
    <3> HIDE DEF s
    <3>4. CASE db' = [db EXCEPT !.lists[s.document][s.saving] = s.lists[s.saving]]
      <4> SUFFICES ASSUME NEW f \in Files, NEW l \in Lists,
                          db'.lists[f][l] # db.lists[f][l]
                   PROVE  f = s.document /\ l = s.saving /\ db'.lists[f][l] = s.lists[l]
        BY <3>2 DEF s
      <4> QED BY <3>2, <3>3, <3>4 DEF Data
    <3> QED BY <3>2, <3>4
  <2> QED BY <2>1, <2>2, StoreNext
<1> QED BY <1>1, StoreInvariant, PTL DEF Spec, ListsSavedWhole

==============================================================================
