----------------------------- MODULE NoteEditor -----------------------------
(***************************************************************************)
(* Sticky notes (shortcuts.c, note-popup.c, page-widget.c, commands.c,     *)
(* callbacks.c): placing, the popup they are edited in, the panel, import  *)
(* and export.                                                             *)
(*                                                                         *)
(* A native note is a row of the database and an entry of its page's list; *)
(* an embedded note is in the document the plugin has in memory, in the    *)
(* file once it is saved, and in a list the page keeps of what the plugin  *)
(* said.  There is one popup: it is filled when it is shown, and saves     *)
(* what is in it when GTK says that it is closed, perhaps some time after. *)
(* One page is modelled; the pages share the popup and nothing else.       *)
(***************************************************************************)
EXTENDS Integers, FiniteSets

CONSTANTS
    Files,      \* the documents
    Places,     \* where notes can be on the page: numbers
    Ids,        \* identifiers of native notes (random UUIDs)
    Texts,      \* what notes may say
    Blank,      \* no text, or white space only
    Eps,        \* note_exists: how close two notes are one
    MaxFaults,  \* bound: how often a call of database or plugin may fail
    None        \* the NULL pointer

ASSUME PlacesAssumption == Places \subseteq Int /\ Places # {} /\ Eps \in Nat
ASSUME TextsAssumption == Blank \notin Texts /\ MaxFaults \in Nat

VARIABLES
    document,   \* the file that is open, or None
    rows,       \* the table notes, by file
    shown,      \* notes.list of the page's widget
    embedded,   \* the document's notes in memory
    disk,       \* and those in each file
    icons,      \* embedded_notes.list of the widget
    retrieved,  \* the widget has asked the plugin for it
    placing,    \* note_placement_mode
    pressed,    \* the note the button was pressed on, until it is released
    popup,      \* what the popup is filled with
    panel,      \* the rows of the visible notes panel, or None
    faults,     \* how often a call has failed
    lost,       \* the database failed for a note that was imported into this document,
                \* or when its notes were read on opening (ghost)
    target      \* the note the popup was filled from and its document, until that is
                \* closed (ghost)

fileVars == <<embedded, disk, icons, retrieved>>
noteVars == <<rows, shown, lost>>
popupVars == <<popup, target>>
vars == <<document, noteVars, fileVars, placing, pressed, popupVars, panel, faults>>

Native == [id : Ids, place : Places, text : Texts]
Embedded == [place : Places, text : Texts]
Contents == Texts \cup {Blank}

ASSUME NoneAssumption == None \notin Files \cup Ids \cup Native \cup Embedded

\* `closing' is a popup that has been told to go and has not said that it has.
Popups == [state : {"hidden", "shown", "closing"}, place : Places, id : Ids \cup {None},
           embedded : BOOLEAN, existing : BOOLEAN, content : Contents, cancelled : BOOLEAN]

TypeOK ==
    /\ document \in Files \cup {None}
    /\ rows \in [Files -> SUBSET Native] /\ shown \subseteq Native
    /\ embedded \subseteq Embedded /\ icons \subseteq Embedded
    /\ disk \in [Files -> SUBSET Embedded]
    /\ retrieved \in BOOLEAN /\ placing \in BOOLEAN
    /\ pressed \in Native \cup Embedded \cup {None}
    /\ popup \in Popups
    /\ panel = None \/ panel \subseteq Native
    /\ faults \in 0 .. MaxFaults /\ lost \in BOOLEAN
    /\ target \in [file : Files \cup {None}, note : Native \cup Embedded \cup {None}]

Near(a, b) == a.place - b.place \in 1 - Eps .. Eps - 1
Exists(S, n) == \E m \in S : Near(m, n)

IsOpen == document # None
FreshIds ==
    Ids \ ({n.id : n \in shown \cup UNION {rows[f] : f \in Files}
                       \cup (IF panel = None THEN {} ELSE panel)} \cup {popup.id})

\* A popup that is hidden; what it was filled with is not read again.
HiddenPopup ==
    [state |-> "hidden", place |-> CHOOSE p \in Places : TRUE, id |-> None,
     embedded |-> FALSE, existing |-> FALSE, content |-> Blank, cancelled |-> TRUE]
NoTarget == [file |-> None, note |-> None]

Init ==
    /\ document = None
    /\ rows = [f \in Files |-> {}] /\ shown = {}
    /\ embedded = {} /\ icons = {} /\ retrieved = FALSE
    /\ disk \in [Files -> {{}} \cup {{e} : e \in Embedded}]
    /\ placing = FALSE /\ pressed = None /\ panel = None
    /\ popup = HiddenPopup /\ target = NoTarget
    /\ faults = 0 /\ lost = FALSE

-----------------------------------------------------------------------------
(***************************************************************************)
(* Calls that can fail.                                                    *)
(***************************************************************************)
Outcome(ok) ==
    /\ ok \/ faults < MaxFaults
    /\ faults' = IF ok THEN faults ELSE faults + 1

\* What zathura_db_load_notes reads.  If the database fails it returns NULL, or the
\* rows it has come to, and no caller can tell that from a file with no other notes:
\* `seen' is what a caller gets.
Stored == IF IsOpen THEN rows[document] ELSE {}

\* zathura_db_add_note is REPLACE INTO.
DbAdd(n) == [rows EXCEPT ![document] = {m \in @ : m.id # n.id} \cup {n}]
DbRemove(id) == [rows EXCEPT ![document] = {m \in @ : m.id # id}]

\* zathura_document_save_as, to the document's own path.
Save(ok) == disk' = IF ok THEN [disk EXCEPT ![document] = embedded'] ELSE disk

-----------------------------------------------------------------------------
(***************************************************************************)
(* Opening, closing, drawing.                                              *)
(***************************************************************************)
Open(f, seen) ==
    /\ ~IsOpen
    /\ document' = f
    /\ shown' = seen /\ lost' = (seen # rows[f])
    /\ Outcome(seen = rows[f])
    /\ embedded' = disk[f]
    /\ UNCHANGED <<rows, disk, icons, retrieved, placing, pressed, popupVars, panel>>

\* Mutant: the popup goes, but saves what is in it.
PopupHiddenSaving == [popup EXCEPT !.state = IF @ = "shown" THEN "closing" ELSE @]

\* zathura_note_popup_hide: what is in it is not saved, even if it is closing
\* because the reader asked for that.
PopupHidden ==
    [popup EXCEPT !.cancelled = TRUE, !.state = IF @ = "shown" THEN "closing" ELSE @]

\* document_close, also in a reload.
Close ==
    /\ IsOpen
    /\ document' = None
    /\ placing' = FALSE
    /\ popup' = PopupHidden
    /\ panel' = None
    /\ shown' = {} /\ embedded' = {} /\ icons' = {} /\ retrieved' = FALSE /\ pressed' = None
    /\ target' = [target EXCEPT !.file = None]
    /\ UNCHANGED <<rows, lost, disk, faults>>

\* The widget asks the plugin the first time it is drawn.
Draw ==
    /\ IsOpen /\ ~retrieved
    /\ retrieved' = TRUE /\ icons' = embedded
    /\ UNCHANGED <<document, noteVars, embedded, disk, placing, pressed, popupVars, panel, faults>>

-----------------------------------------------------------------------------
(***************************************************************************)
(* The mouse.  A popup for a note that exists is shown on release, so that *)
(* the press does not close it again.                                      *)
(***************************************************************************)

\* zathura_note_popup_show.  GTK's animation of the last closing is over.
Show(place, note, isEmbedded) ==
    /\ popup.state = "hidden"
    /\ popup' = [state |-> "shown", place |-> place, embedded |-> isEmbedded,
                 id |-> IF note # None /\ ~isEmbedded THEN note.id ELSE None,
                 existing |-> note # None, cancelled |-> FALSE,
                 content |-> IF note = None THEN Blank ELSE note.text]
    /\ target' = [file |-> document, note |-> note]

\* sc_note_create
CreateNote ==
    /\ IsOpen /\ ~placing
    /\ placing' = TRUE
    /\ UNCHANGED <<document, noteVars, fileVars, pressed, popupVars, panel, faults>>

\* sc_abort
Abort ==
    /\ placing
    /\ placing' = FALSE
    /\ UNCHANGED <<document, noteVars, fileVars, pressed, popupVars, panel, faults>>

PressToPlace(place) ==
    /\ IsOpen /\ placing
    /\ placing' = FALSE
    /\ Show(place, None, FALSE)
    /\ UNCHANGED <<document, noteVars, fileVars, pressed, panel, faults>>

\* Native notes are looked at first.  The popup may still be closing.
Press(note) ==
    /\ IsOpen /\ ~placing /\ pressed = None /\ popup.state # "shown"
    /\ note \in shown \/ (note \in icons /\ ~\E n \in shown : n.place = note.place)
    /\ pressed' = note
    /\ UNCHANGED <<document, noteVars, fileVars, placing, popupVars, panel, faults>>

Release ==
    /\ pressed # None
    /\ Show(pressed.place, pressed, pressed \in Embedded)
    /\ pressed' = None
    /\ UNCHANGED <<document, noteVars, fileVars, placing, panel, faults>>

-----------------------------------------------------------------------------
(***************************************************************************)
(* The popup.                                                              *)
(***************************************************************************)
Type(content) ==
    /\ popup.state = "shown" /\ popup.content # content
    /\ popup' = [popup EXCEPT !.content = content]
    /\ UNCHANGED <<document, noteVars, fileVars, placing, pressed, target, panel, faults>>

\* Escape, or else Control and Enter or a click beside it.
Dismiss(escape) ==
    /\ popup.state = "shown"
    /\ popup' = [popup EXCEPT !.state = "closing", !.cancelled = escape]
    /\ UNCHANGED <<document, noteVars, fileVars, placing, pressed, target, panel, faults>>

\* Mutant: the note is not forgotten.
RefreshKeepsPressed == icons' = embedded' /\ retrieved' = TRUE /\ pressed' = pressed

\* The list of embedded notes is fetched anew; a note of the old one that the
\* button is down on is forgotten.
Refresh ==
    /\ icons' = embedded' /\ retrieved' = TRUE
    /\ pressed' = IF pressed \in Embedded THEN None ELSE pressed

\* note_delete_callback, for an embedded note.  `ok' is the plugin's answer.
DeleteEmbedded(ok, saved) ==
    /\ embedded' = IF ok THEN {e \in embedded : e.place # popup.place} ELSE embedded
    /\ IF ok THEN Save(saved) /\ Refresh ELSE UNCHANGED <<disk, icons, retrieved, pressed>>
    /\ UNCHANGED noteVars

\* note_delete_callback, for a native one.
DeleteNative(ok) ==
    /\ rows' = IF ok THEN DbRemove(popup.id) ELSE rows
    /\ shown' = IF ok THEN {n \in shown : n.id # popup.id} ELSE shown
    /\ lost' = lost
    /\ UNCHANGED <<fileVars, pressed>>

\* The plugin knows a note of that place.
Known == \E e \in embedded : e.place = popup.place

\* cb_delete_button_clicked.  There is no button for a new note.
DeleteButton(ok, saved) ==
    /\ popup.state = "shown" /\ popup.existing
    /\ popup' = [popup EXCEPT !.state = "closing", !.cancelled = TRUE]
    /\ IF popup.embedded THEN DeleteEmbedded(ok /\ Known, saved) ELSE DeleteNative(ok)
    /\ Outcome(ok /\ saved)
    /\ UNCHANGED <<document, placing, target, panel>>

\* note_save_callback, for an embedded note.
SaveEmbedded(ok, saved) ==
    LET updated == {[e EXCEPT !.text = IF e.place = popup.place THEN popup.content ELSE @] :
                        e \in embedded}
    IN  /\ embedded' = IF ok THEN updated ELSE embedded
        /\ IF ok THEN Save(saved) /\ Refresh ELSE UNCHANGED <<disk, icons, retrieved, pressed>>
        /\ UNCHANGED noteVars

\* Mutant: the widget goes on with the note it had, besides.
SaveNativeBesides(ok) ==
    \E id \in IF popup.id # None THEN {popup.id} ELSE FreshIds :
        LET note == [id |-> id, place |-> popup.place, text |-> popup.content]
        IN  /\ rows' = IF ok THEN DbAdd(note) ELSE rows
            /\ shown' = IF ok THEN shown \cup {note} ELSE shown
            /\ lost' = lost
            /\ UNCHANGED <<fileVars, pressed>>

\* The same for a native one: it is a new note, with the old one's identifier.
\* A note of the old one's that the button is down on stays where it was.
SaveNative(ok) ==
    \E id \in IF popup.id # None THEN {popup.id} ELSE FreshIds :
        LET note == [id |-> id, place |-> popup.place, text |-> popup.content]
        IN  /\ rows' = IF ok THEN DbAdd(note) ELSE rows
            /\ shown' = IF ok THEN {n \in shown : n.id # id} \cup {note} ELSE shown
            /\ lost' = lost
            /\ UNCHANGED <<fileVars, pressed>>

\* cb_popup_closed, the signal.  A text that was deleted is not saved, either.
Closed(ok, saved) ==
    /\ popup.state = "closing"
    /\ popup' = HiddenPopup /\ target' = NoTarget
    /\ IF popup.cancelled \/ popup.content = Blank \/ ~IsOpen
       THEN UNCHANGED <<noteVars, fileVars, pressed, faults>>
       ELSE /\ IF popup.embedded THEN SaveEmbedded(ok /\ Known, saved) ELSE SaveNative(ok)
            /\ Outcome(ok /\ saved)
    /\ UNCHANGED <<document, placing, panel>>

-----------------------------------------------------------------------------
(***************************************************************************)
(* The panel, which lists native notes, and the commands.                  *)
(***************************************************************************)
TogglePanel(seen) ==
    /\ IsOpen
    /\ \/ panel = None /\ panel' = seen /\ Outcome(seen = Stored)
       \/ panel # None /\ panel' = None /\ faults' = faults
    /\ UNCHANGED <<document, noteVars, fileVars, placing, pressed, popupVars>>

\* cb_notes_key_press, x.  It also has the plugin delete what is embedded at
\* that place, and leaves the list of embedded notes as it is.  The panel reads
\* the rows anew.
PanelDelete(note, ok, deleted, saved) ==
    /\ panel # None /\ note \in panel /\ popup.state # "shown"
    /\ rows' = IF ok THEN DbRemove(note.id) ELSE rows
    /\ shown' = IF ok THEN {n \in shown : n.id # note.id} ELSE shown
    /\ embedded' = IF ok /\ deleted THEN {e \in embedded : e.place # note.place} ELSE embedded
    /\ Save(ok /\ deleted /\ saved)
    /\ \E seen \in SUBSET rows'[document] :
         /\ panel' = IF ok THEN seen ELSE panel
         /\ Outcome(ok /\ saved /\ seen = rows'[document])
    /\ UNCHANGED <<document, lost, icons, retrieved, placing, pressed, popupVars>>

\* cmd_annot_import takes what is not among the rows it has read when it begins.
ToImport(seen) == {e \in embedded : ~Exists(seen, e)}

\* The page shows what it took, also if the database fails for it.
Import(failing, seen) ==
    LET taken == ToImport(seen)
    IN  /\ IsOpen /\ taken # {} /\ failing \subseteq taken
        /\ \E id \in [taken -> FreshIds] :
             LET note(e) == [id |-> id[e], place |-> e.place, text |-> e.text]
             IN  /\ \A e, f \in taken : id[e] = id[f] => e = f
                 /\ rows' = [rows EXCEPT ![document] = @ \cup {note(e) : e \in taken \ failing}]
                 /\ shown' = shown \cup {note(e) : e \in taken}
        /\ Outcome(failing = {} /\ seen = Stored)
        /\ lost' = (lost \/ failing # {})
        /\ UNCHANGED <<document, fileVars, placing, pressed, popupVars, panel>>

\* cmd_annot_export gives what it has read and the document had not when it began.
ToExport(seen) == {n \in seen : ~Exists(embedded, n)}

Export(ok, saved, seen) ==
    LET given == {[place |-> n.place, text |-> n.text] : n \in ToExport(seen)}
    IN  /\ IsOpen /\ given # {}
        /\ embedded' = IF ok THEN embedded \cup given ELSE embedded
        /\ Save(ok /\ saved)
        /\ Outcome(ok /\ saved /\ seen = Stored)
        /\ UNCHANGED <<document, noteVars, icons, retrieved, placing, pressed, popupVars, panel>>

-----------------------------------------------------------------------------
Next ==
    \/ \E f \in Files : \E seen \in SUBSET rows[f] : Open(f, seen)
    \/ Close \/ Draw \/ CreateNote \/ Abort \/ Release
    \/ \E seen \in SUBSET Stored :
         \/ TogglePanel(seen)
         \/ \E failing \in SUBSET embedded : Import(failing, seen)
         \/ \E ok, saved \in BOOLEAN : Export(ok, saved, seen)
    \/ \E p \in Places : PressToPlace(p)
    \/ \E n \in shown \cup icons : Press(n)
    \/ \E c \in Contents : Type(c)
    \/ \E escape \in BOOLEAN : Dismiss(escape)
    \/ \E ok, saved \in BOOLEAN :
         \/ DeleteButton(ok, saved) \/ Closed(ok, saved)
         \/ \E n \in Native, deleted \in BOOLEAN : PanelDelete(n, ok, deleted, saved)

Spec == Init /\ [][Next]_vars

-----------------------------------------------------------------------------
(***************************************************************************)
(* Properties.                                                             *)
(***************************************************************************)

\* The page shows the notes the database has of the file, with their texts,
\* through popup, panel, import and reopening, unless the database failed for
\* an imported one or when the notes were read on opening.  An import that reads
\* too few rows takes a note twice, into page and database alike.
NotesAgree == IsOpen /\ ~lost => shown = rows[document]

\* The button is never down on an embedded note that was freed: the list is not
\* replaced under it by a popup that says late that it is closed.
PressedIsListed == pressed \in Embedded => pressed \in icons

\* So it stays through every refresh, popup and close.
WellFormed == TypeOK /\ PressedIsListed

\* A text is saved into the document it was typed for, into the note it was
\* typed over, and only once the reader has closed the popup without Escape:
\* the popup does not outlive its document, though the signal may.
SavedWhereTyped ==
    [][ (rows' # rows \/ embedded' # embedded) /\ popup.state = "closing"
            /\ popup'.state = "hidden"
        => /\ document = target.file /\ ~popup.cancelled
           /\ \A n \in rows'[document] \ rows[document] :
                  target.note \in Native => n.id = target.note.id
           /\ \A e \in embedded' \ embedded : e.place = target.note.place ]_vars

=============================================================================
