---------------------------- MODULE Annotations ----------------------------
(***************************************************************************)
(* Highlights and embedded annotations (shortcuts.c, commands.c,           *)
(* callbacks.c).  A highlight lives in the database and in the list of its *)
(* page's widget; an annotation lives in the document the plugin has in    *)
(* memory and, once saved, in the file.  Deleting something that is in the *)
(* document first asks; the question is a flag that the keys y and Escape  *)
(* look at, whatever has happened since.                                   *)
(*                                                                         *)
(* The geometry of a highlight is a number; two geometries match if they   *)
(* are close, and the import is stricter about it than the deletion.       *)
(* Embedded notes appear as far as the same keys delete them, at most one  *)
(* to a page.                                                              *)
(***************************************************************************)
EXTENDS Integers, FiniteSets, FiniteSetsExt, Functions

CONSTANTS
    Pages,          \* page indices of the document
    NotePages,      \* pages that may have an embedded note
    Geos,           \* geometries
    Ids,            \* identifiers a highlight can have (random UUIDs)
    Origins,        \* highlights that somebody ever made, by whom it was
    NumColors,      \* the number of highlight colours
    ImportEps,      \* rects_match: tolerance of import and export
    DeleteEps,      \* highlights_geometry_match: tolerance of deletion
    MaxFaults,      \* bound: how often a call of database or plugin may fail
    None            \* no identifier, no geometry, no question

ASSUME PagesAssumption == Pages \subseteq Nat /\ IsFiniteSet(Pages) /\ NotePages \subseteq Pages
ASSUME GeosAssumption == Geos \subseteq Int /\ None \notin Geos \cup Ids \cup Pages
ASSUME EpsAssumption == ImportEps \in Nat /\ DeleteEps \in Nat /\ ImportEps <= DeleteEps
ASSUME ColorsAssumption == NumColors \in Nat \ {0} /\ MaxFaults \in Nat

VARIABLES
    open,           \* zathura->document # NULL
    rows,           \* the rows of the table highlights for this file
    shown,          \* the page widgets' lists of highlights
    annots,         \* the annotations of the document in memory
    notes,          \* the pages that have an embedded note, in memory
    disk,           \* annotations and notes of the file
    icons,          \* the pages whose widget has a note in embedded_notes.list
    selected,       \* highlights.selected_id of each page
    embSelected,    \* highlights.embedded_selected_rects of each page
    noteSelected,   \* embedded_notes.has_selection of each page
    question,       \* embedded_delete_pending, with its page and rects
    noteQuestion,   \* embedded_note_delete_pending, with its page
    panel,          \* the rows the visible highlights panel has, or None
    faults,         \* how often a call has failed
    asked,          \* ghost: what x has asked about since the last Escape
    failed,         \* ghost: the database failed since the last opening, or then
    revived,        \* ghost: a colour was written for a row no longer there
    doubled         \* ghost: an import did not get to read all the rows

storeVars == <<rows, shown>>
fileVars == <<annots, notes, disk, icons>>
selectVars == <<selected, embSelected, noteSelected>>
askVars == <<question, noteQuestion, asked>>
vars == <<open, storeVars, fileVars, selectVars, askVars, panel, faults,
          failed, revived, doubled>>

Highlight == [id : Ids, page : Pages, geo : Geos, color : 0 .. NumColors - 1, org : Origins]
Annotation == [page : Pages, geo : Geos, org : Origins]
Question == [page : Pages, geo : Geos]

Nothing == [p \in Pages |-> None]
NothingAsked == [annots |-> {}, notes |-> {}]
On(S, p) == {x \in S : x.page = p}
Has(S, p) == On(S, p) # {}

\* rects_match and highlights_geometry_match, with their tolerances.
Match(x, y, eps) == x.page = y.page /\ x.geo - y.geo \in -eps .. eps
MatchedIn(S, x, eps) == \E y \in S : Match(x, y, eps)

Listed == IF panel = None THEN {} ELSE panel

\* Nothing refers to a new identifier, not even a mark that was left behind.
FreshIds == Ids \ ({h.id : h \in rows \cup shown \cup Listed} \cup Range(selected))
FreshOrigins ==
    Origins \ {x.org : x \in rows \cup shown \cup annots \cup disk.annots \cup Listed}

(***************************************************************************)
(* Calls that can fail.                                                    *)
(***************************************************************************)
CanFail == faults < MaxFaults

\* zathura_db_add_highlight (REPLACE INTO) and zathura_db_remove_highlight;
\* `ok' is what they return.
DbAdd(h, ok) == rows' = IF ok THEN {r \in rows : r.id # h.id} \cup {h} ELSE rows
DbRemove(S, ok) == rows' = IF ok THEN rows \ S ELSE rows

Counted(ok) ==
    /\ ok \/ CanFail
    /\ faults' = IF ok THEN faults ELSE faults + 1

DbOutcome(ok) == Counted(ok) /\ failed' = (failed \/ ~ok)

\* What zathura_db_load_highlights may read: all rows, or, if the database fails,
\* NULL or those it has come to.  No caller can tell that from a file without the
\* others.
Readings == {S \in SUBSET rows : S = rows \/ CanFail}

\* REPLACE INTO of a row that is meant to be there inserts it if it is not.
Revives(h, ok) == revived' = (revived \/ (ok /\ \A r \in rows : r.id # h.id))

\* zathura_document_save_as to the document's own path.
Save(ok) ==
    disk' = IF ok THEN [annots |-> annots', notes |-> notes'] ELSE disk

(***************************************************************************)
(* Opening and closing.  document_open loads the lists; document_close     *)
(* hides the panel; neither knows about the questions.                     *)
(***************************************************************************)
Init ==
    /\ open = FALSE
    /\ rows = {} /\ shown = {}
    /\ \E g \in Geos, p \in Pages, o \in Origins, N \in SUBSET NotePages :
          disk \in {[annots |-> {}, notes |-> N],
                    [annots |-> {[page |-> p, geo |-> g, org |-> o]}, notes |-> N]}
    /\ annots = {} /\ notes = {} /\ icons = {}
    /\ selected = Nothing /\ embSelected = Nothing
    /\ noteSelected = [p \in Pages |-> FALSE]
    /\ question = None /\ noteQuestion = None /\ panel = None
    /\ faults = 0 /\ asked = NothingAsked
    /\ failed = FALSE /\ revived = FALSE /\ doubled = FALSE

Open(seen) ==
    /\ ~open
    /\ open' = TRUE
    /\ shown' = seen /\ failed' = (seen # rows) /\ Counted(seen = rows)
    /\ annots' = disk.annots /\ notes' = disk.notes /\ icons' = disk.notes
    /\ UNCHANGED <<rows, disk, selectVars, askVars, panel, revived, doubled>>

Close ==
    /\ open
    /\ open' = FALSE
    /\ shown' = {} /\ annots' = {} /\ notes' = {} /\ icons' = {}
    /\ selected' = Nothing /\ embSelected' = Nothing
    /\ noteSelected' = [p \in Pages |-> FALSE]
    /\ panel' = None
    /\ UNCHANGED <<rows, disk, askVars, faults, failed, revived, doubled>>

(***************************************************************************)
(* Making and marking.                                                     *)
(***************************************************************************)
\* sc_highlight, with text selected on the current page.
MakeHighlight(p, g, c, ok) ==
    /\ open
    /\ \E i \in FreshIds, o \in FreshOrigins :
         LET h == [id |-> i, page |-> p, geo |-> g, color |-> c, org |-> o]
         IN  /\ DbAdd(h, ok)
             /\ shown' = IF ok THEN shown \cup {h} ELSE shown
    /\ DbOutcome(ok)
    /\ UNCHANGED <<open, fileVars, selectVars, askVars, panel, revived, doubled>>

\* A press on a highlight: a second one takes the mark away again.
ClickHighlight(h) ==
    /\ open /\ h \in shown
    /\ selected' = [selected EXCEPT ![h.page] = IF @ = h.id THEN None ELSE h.id]
    /\ UNCHANGED <<open, storeVars, fileVars, embSelected, noteSelected, askVars,
                   panel, faults, failed, revived, doubled>>

\* A press on an annotation that no highlight covers.
ClickAnnotation(a) ==
    /\ open /\ a \in annots
    /\ ~MatchedIn(shown, a, 0)
    /\ selected' = [selected EXCEPT ![a.page] = None]
    /\ embSelected' = [embSelected EXCEPT ![a.page] = a.geo]
    /\ UNCHANGED <<open, storeVars, fileVars, noteSelected, askVars, panel, faults,
                   failed, revived, doubled>>

\* A press on the icon of an embedded note, the popup being dismissed again.
ClickNote(p) ==
    /\ open /\ p \in icons /\ ~noteSelected[p]
    /\ noteSelected' = [noteSelected EXCEPT ![p] = TRUE]
    /\ UNCHANGED <<open, storeVars, fileVars, selected, embSelected, askVars, panel,
                   faults, failed, revived, doubled>>

\* A press beside everything.  The mark of a note stays.
ClickElsewhere(p) ==
    /\ open /\ <<selected[p], embSelected[p]>> # <<None, None>>
    /\ selected' = [selected EXCEPT ![p] = None]
    /\ embSelected' = [embSelected EXCEPT ![p] = None]
    /\ UNCHANGED <<open, storeVars, fileVars, noteSelected, askVars, panel, faults,
                   failed, revived, doubled>>

(***************************************************************************)
(* The key c.                                                              *)
(***************************************************************************)
NextColor(c) == (c + 1) % NumColors

MarkedPages == {p \in Pages : selected[p] # None}

\* Marked highlights that are still in their page's list, by page.
Marked(p) == {h \in On(shown, p) : h.id = selected[p]}

CycleColor(ok) ==
    LET there == {p \in MarkedPages : Marked(p) # {}}
        old == CHOOSE h \in Marked(Min(there)) : TRUE
        new == [old EXCEPT !.color = NextColor(@)]
    IN  /\ open /\ there # {}
        /\ DbAdd(new, ok) /\ DbOutcome(ok)
        /\ Revives(new, ok)
        /\ shown' = (shown \ {old}) \cup {new}
        /\ UNCHANGED <<open, fileVars, selectVars, askVars, panel, doubled>>

(***************************************************************************)
(* The key x, sc_delete_highlight.  A marked highlight on any page comes   *)
(* before everything embedded; among pages the first counts.               *)
(***************************************************************************)
Ask(q) == question' = q /\ asked' = [asked EXCEPT !.annots = @ \cup {q}]

\* The result of the removal from the database is not looked at.
DeleteMarked(ok) ==
    LET p == Min(MarkedPages)
        under == {a \in annots : MatchedIn(Marked(p), a, DeleteEps)}
    IN  /\ open /\ MarkedPages # {}
        /\ DbRemove({r \in rows : r.id = selected[p]}, ok) /\ DbOutcome(ok)
        /\ shown' = shown \ Marked(p)
        /\ selected' = [selected EXCEPT ![p] = None]
        /\ embSelected' = [embSelected EXCEPT ![p] = None]
        /\ IF under = {}
           THEN UNCHANGED askVars
           ELSE \E a \in under : Ask([page |-> p, geo |-> a.geo]) /\ UNCHANGED noteQuestion
        /\ UNCHANGED <<open, fileVars, noteSelected, panel, revived, doubled>>

EmbeddedPages == {p \in Pages : embSelected[p] # None \/ noteSelected[p]}

AskAboutEmbedded ==
    LET p == Min(EmbeddedPages)
    IN  /\ open /\ MarkedPages = {} /\ EmbeddedPages # {}
        /\ IF embSelected[p] # None
           THEN Ask([page |-> p, geo |-> embSelected[p]]) /\ UNCHANGED noteQuestion
           ELSE noteQuestion' = p /\ asked' = [asked EXCEPT !.notes = @ \cup {p}] /\ UNCHANGED question
        /\ UNCHANGED <<open, storeVars, fileVars, selectVars, panel, faults, failed, revived,
                       doubled>>

(***************************************************************************)
(* The key y, sc_confirm_embedded_delete.  The note's question is answered *)
(* first.  There may be no document any more.                              *)
(***************************************************************************)
AnswerNothing ==
    /\ ~open
    /\ IF noteQuestion # None
       THEN noteQuestion' = None /\ UNCHANGED question
       ELSE question # None /\ question' = None /\ UNCHANGED noteQuestion
    /\ UNCHANGED <<open, storeVars, fileVars, selectVars, panel, faults, asked, failed, revived,
                   doubled>>

\* What may come of it: the plugin fails, or the saving, or the database does not
\* remove the rows, or does not give them all.
Outcomes == {"done", "undeleted", "unsaved", "undone in database", "unread"}

Happens(o, found) ==
    /\ found \/ o = "done"
    /\ o = "done" \/ CanFail
    /\ faults' = IF o = "done" THEN faults ELSE faults + 1

ConfirmNote(o) ==
    LET found == noteQuestion \in notes
    IN  /\ open /\ noteQuestion # None
        /\ o \notin {"undone in database", "unread"} /\ Happens(o, found)
        /\ notes' = IF o = "undeleted" THEN notes ELSE notes \ {noteQuestion}
        /\ annots' = annots
        /\ Save(found /\ o = "done")
        /\ noteSelected' = [noteSelected EXCEPT ![noteQuestion] = FALSE]
        /\ noteQuestion' = None /\ asked' = [asked EXCEPT !.notes = @ \ {noteQuestion}]
        /\ UNCHANGED <<open, storeVars, icons, selected, embSelected, question, panel,
                       failed, revived, doubled>>

\* Mutant: only highlights of exactly the annotation's geometry.
TwinsExactly(q) == {r \in rows : Match(r, q, 0)}

\* The highlights in the database that go with a deleted annotation.
Twins(q) == {r \in rows : Match(r, q, DeleteEps)}

ConfirmAnnotation(o, seen) ==
    LET there == {a \in annots : Match(a, question, 0)}
        deleted == there # {} /\ o # "undeleted"
        twins == IF deleted THEN Twins(question) \cap seen ELSE {}
    IN  /\ open /\ noteQuestion = None /\ question # None
        /\ Happens(o, there # {})
        /\ seen = rows \/ o = "unread"
        /\ IF deleted THEN \E a \in there : annots' = annots \ {a} ELSE annots' = annots
        /\ notes' = notes
        /\ Save(deleted /\ o # "unsaved")
        /\ DbRemove(twins, o # "undone in database")
        /\ failed' = (failed \/ o \in {"undone in database", "unread"})
        /\ shown' = {h \in shown : h.page # question.page \/ h.id \notin {r.id : r \in twins}}
        /\ selected' = [selected EXCEPT ![question.page] = None]
        /\ embSelected' = [embSelected EXCEPT ![question.page] = None]
        /\ question' = None /\ asked' = [asked EXCEPT !.annots = @ \ {question}]
        /\ UNCHANGED <<open, icons, noteSelected, noteQuestion, panel, revived, doubled>>

(***************************************************************************)
(* The key Escape, sc_abort.  (sc_cancel_embedded_delete, which looks at   *)
(* both questions, is bound to no key.)                                    *)
(***************************************************************************)
\* Mutant: the rectangles are given up, the flag is not.
CancelForgetsFlag ==
    /\ question # None \/ noteQuestion # None
    /\ asked' = NothingAsked
    /\ UNCHANGED <<open, storeVars, fileVars, selectVars, question, noteQuestion, panel,
                   faults, failed, revived, doubled>>

Cancel ==
    /\ question # None \/ noteQuestion # None
    /\ question' = None
    /\ asked' = NothingAsked
    /\ UNCHANGED <<open, storeVars, fileVars, selectVars, noteQuestion, panel, faults,
                   failed, revived, doubled>>

(***************************************************************************)
(* The highlights panel.  It has the rows of the moment it was shown, and  *)
(* stays while the document is used.                                       *)
(***************************************************************************)
TogglePanel(seen) ==
    /\ open
    /\ \/ panel = None /\ panel' = seen /\ Counted(seen = rows)
       \/ panel # None /\ panel' = None /\ faults' = faults
    /\ UNCHANGED <<open, storeVars, fileVars, selectVars, askVars, failed, revived, doubled>>

\* Mutant: the page is not told.
PanelDeleteSilently(h, ok) ==
    /\ panel # None /\ h \in panel
    /\ DbRemove({r \in rows : r.id = h.id}, ok) /\ ok
    /\ panel' = rows'
    /\ UNCHANGED <<open, shown, fileVars, selectVars, askVars, faults, failed, revived, doubled>>

\* After a row was written or not, the panel is hidden and shown again, or is not.
Relist(ok, refreshed) ==
    /\ \E seen \in SUBSET rows' :
         /\ panel' = IF refreshed THEN seen ELSE panel
         /\ Counted(ok /\ (refreshed => seen = rows'))
    /\ failed' = (failed \/ ~ok)

\* cb_highlights_key_press, d and x.  The mark on the page stays.
PanelDelete(h, ok) ==
    /\ panel # None /\ h \in panel
    /\ DbRemove({r \in rows : r.id = h.id}, ok)
    /\ shown' = IF ok THEN {s \in shown : s.id # h.id} ELSE shown
    /\ Relist(ok, ok)
    /\ UNCHANGED <<open, fileVars, selectVars, askVars, revived, doubled>>

\* cb_highlights_key_press, c: the row is written as the panel knows it.
PanelCycle(h, ok) ==
    LET new == [h EXCEPT !.color = NextColor(@)]
    IN  /\ panel # None /\ h \in panel
        /\ DbAdd(new, ok)
        /\ Revives(new, ok)
        /\ shown' = {IF s.id = h.id THEN [s EXCEPT !.color = new.color] ELSE s : s \in shown}
        /\ Relist(ok, TRUE)
        /\ UNCHANGED <<open, fileVars, selectVars, askVars, doubled>>

(***************************************************************************)
(* Import and export.                                                      *)
(***************************************************************************)
\* Mutant: only highlights of exactly the annotation's geometry are known.
ToImportExactly(seen) == {a \in annots : ~MatchedIn(seen, a, 0)}

\* What the import takes: nothing that is among the rows it has read.
ToImport(seen) == {a \in annots : ~MatchedIn(seen, a, ImportEps)}

\* If the database fails for `lost', the page shows it all the same.  The
\* colour is the plugin's; 0 stands for it.
Import(lost, seen) ==
    LET taken == ToImport(seen)
    IN  /\ open /\ taken # {}
        /\ Cardinality(taken) <= Cardinality(FreshIds)
        /\ lost \subseteq taken /\ \A a, b \in lost : a = b
        /\ \E id \in Injection(taken, FreshIds) :
             LET Imported(S) == {[id |-> id[a], page |-> a.page, geo |-> a.geo,
                                  color |-> 0, org |-> a.org] : a \in S}
             IN  /\ rows' = rows \cup Imported(taken \ lost)
                 /\ shown' = shown \cup Imported(taken)
        /\ Counted(lost = {} /\ seen = rows)
        /\ failed' = (failed \/ lost # {})
        /\ doubled' = (doubled \/ seen # rows)
        /\ UNCHANGED <<open, fileVars, selectVars, askVars, panel, revived>>

\* What the export gives: of what it has read, nothing the document had when it began.
ToExport(seen) == {r \in seen : ~MatchedIn(annots, r, ImportEps)}

\* The plugin rounds a geometry to what rects_match takes for the same.
Rounded(S) == {f \in [S -> Geos] : \A r \in S : f[r] - r.geo \in -ImportEps .. ImportEps}

\* Pages the plugin fails for are left out; `own' is the document's own path.
Export(refused, saved, own, seen) ==
    LET given == {r \in ToExport(seen) : r.page \notin refused}
    IN  /\ open /\ Counted(refused = {} /\ saved /\ seen = rows)
        /\ ToExport(seen) # {}
        /\ given = {} => saved /\ own
        /\ \E geo \in Rounded(given) :
             annots' = annots \cup {[page |-> r.page, geo |-> geo[r], org |-> r.org] : r \in given}
        /\ notes' = notes
        /\ Save(given # {} /\ saved /\ own)
        /\ UNCHANGED <<open, storeVars, icons, selectVars, askVars, panel, failed, revived, doubled>>

(***************************************************************************)
(* The specification.                                                      *)
(***************************************************************************)
Next ==
    \/ Close \/ AskAboutEmbedded \/ AnswerNothing \/ Cancel
    \/ \E o \in Outcomes : ConfirmNote(o)
    \/ \E h \in shown : ClickHighlight(h)
    \/ \E a \in annots : ClickAnnotation(a)
    \/ \E p \in Pages : ClickNote(p) \/ ClickElsewhere(p)
    \/ \E ok \in BOOLEAN :
         \/ \E p \in Pages, g \in Geos, c \in 0 .. NumColors - 1 : MakeHighlight(p, g, c, ok)
         \/ DeleteMarked(ok) \/ CycleColor(ok)
         \/ \E h \in Highlight : PanelDelete(h, ok) \/ PanelCycle(h, ok)
    \/ \E seen \in Readings :
         \/ Open(seen) \/ TogglePanel(seen)
         \/ \E o \in Outcomes : ConfirmAnnotation(o, seen)
         \/ \E lost \in SUBSET annots : Import(lost, seen)
         \/ \E refused \in SUBSET Pages, saved, own \in BOOLEAN : Export(refused, saved, own, seen)

Spec == Init /\ [][Next]_vars

(***************************************************************************)
(* Properties.                                                             *)
(***************************************************************************)
\* Type invariant: what each variable holds.
TypeOK ==
    /\ open \in BOOLEAN
    /\ rows \subseteq Highlight /\ shown \subseteq Highlight
    /\ annots \subseteq Annotation /\ notes \subseteq Pages /\ icons \subseteq Pages
    /\ disk.annots \subseteq Annotation /\ disk.notes \subseteq Pages
    /\ selected \in [Pages -> Ids \cup {None}]
    /\ embSelected \in [Pages -> Geos \cup {None}]
    /\ noteSelected \in [Pages -> BOOLEAN]
    /\ question \in Question \cup {None} /\ noteQuestion \in Pages \cup {None}
    /\ panel = None \/ panel \subseteq Highlight
    /\ faults \in 0 .. MaxFaults /\ asked \in [annots : SUBSET Question, notes : SUBSET Pages]
    /\ failed \in BOOLEAN /\ revived \in BOOLEAN /\ doubled \in BOOLEAN

\* What the pages show is what the database has, colours included, through
\* keys, questions, panel, import and reopening, unless the database failed (to
\* write a row, or to read them all when the document was opened or y was
\* pressed) or a change of colour brought a deleted row back (the panel may
\* still list a highlight that was deleted on the page since).
ListsAgree == open /\ ~failed /\ ~revived => shown = rows

\* The same, with every mark, question and row of the panel well typed.
WellFormed == TypeOK /\ ListsAgree

\* Exporting and importing, in any order and with whatever is deleted, saved
\* or reopened between, never makes two highlights of one: that is what the
\* comparison of geometries in highlight_exists is for.  It fails where an import
\* was not given all the rows: then it takes anew what is stored already.
NoEcho ==
    ~revived /\ ~doubled => \A r, s \in rows : r.org = s.org => r = s

\* The document loses an annotation only by the key y, and only one that x
\* has asked about since Escape was last pressed.
DeletesOnlyAsked ==
    [][open /\ open' =>
         \A a \in annots \ annots' :
           /\ [page |-> a.page, geo |-> a.geo] \in asked.annots
           /\ question # None]_vars

\* When the document loses an annotation, the highlights that match it are
\* gone from the database and the pages with it, unless the database fails to
\* give or to remove them.
DeletedEverywhere ==
    [][open /\ open' =>
         \A a \in annots \ annots' :
           /\ failed' \/ ~MatchedIn(rows', a, DeleteEps)
           /\ failed' \/ revived \/ ~MatchedIn(shown', a, DeleteEps)]_vars
=============================================================================
