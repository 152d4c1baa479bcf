-------------------------- MODULE NoteEditorProofs --------------------------
(***************************************************************************)
(* Proofs about NoteEditor, for any documents, notes and failures: the     *)
(* page shows what the database has, no note is freed under the button,    *)
(* and a text goes where it was typed.                                     *)
(***************************************************************************)
EXTENDS NoteEditor, TLAPS

\* What the popup was filled from, as long as it is not hidden.
PopupKnows ==
    popup.state # "hidden" =>
        /\ ~popup.cancelled => target.file = document /\ IsOpen
        /\ popup.state = "shown" => ~popup.cancelled
        /\ popup.embedded => target.note \in Embedded /\ popup.place = target.note.place
        /\ target.note \in Native => popup.id = target.note.id /\ ~popup.embedded

\* There is no list of embedded notes before it is asked for, and neither a page
\* to press on nor a panel without a document.
ListedOnce ==
    /\ ~retrieved => icons = {}
    /\ pressed # None \/ panel # None => IsOpen

NoteInv == TypeOK /\ PressedIsListed /\ NotesAgree /\ PopupKnows /\ ListedOnce

-----------------------------------------------------------------------------

\* A native note has an identifier, an embedded one has not.
LEMMA NativeIsNotEmbedded == \A n \in Native : n \notin Embedded
<1>1. \A n \in Native : "id" \in DOMAIN n
  BY DEF Native
<1>2. \A e \in Embedded : "id" \notin DOMAIN e
  BY DEF Embedded
<1> QED BY <1>1, <1>2

\* NULL is neither.
LEMMA NoneIsNoNote == None \notin Files /\ None \notin Ids /\ None \notin Native /\ None \notin Embedded
  BY NoneAssumption

\* A hidden popup is one.
LEMMA HiddenIsPopup ==
    HiddenPopup \in Popups /\ HiddenPopup.state = "hidden" /\ NoTarget.note = None
<1>1. (CHOOSE p \in Places : TRUE) \in Places
  BY PlacesAssumption
<1> QED BY <1>1 DEF HiddenPopup, Popups, Contents, NoTarget

\* An identifier nobody has is one.
LEMMA FreshIsId == FreshIds \subseteq Ids
  BY DEF FreshIds

\* A counter of faults that is told of one more has room for it.
LEMMA OutcomeProperties ==
    ASSUME TypeOK, NEW ok \in BOOLEAN, Outcome(ok)
    PROVE  faults' \in 0 .. MaxFaults
  BY TextsAssumption DEF Outcome, TypeOK

\* The rows of the open document are those of its file.
LEMMA StoredProperties ==
    ASSUME TypeOK
    PROVE  Stored \subseteq Native /\ (IsOpen => Stored = rows[document])
  BY DEF Stored, TypeOK, IsOpen

\* Saving writes embedded notes to the file, or leaves it.
LEMMA SaveProperties ==
    ASSUME TypeOK, IsOpen, NEW ok, Save(ok), embedded' \subseteq Embedded
    PROVE  disk' \in [Files -> SUBSET Embedded]
  BY DEF TypeOK, Save, IsOpen

\* Nothing is open at first.
LEMMA NoteInit == Init => NoteInv
<1> SUFFICES ASSUME Init
             PROVE  NoteInv
  OBVIOUS
<1>1. TypeOK
  <2>1. faults \in 0 .. MaxFaults
    BY TextsAssumption DEF Init
  <2>2. target \in [file : Files \cup {None}, note : Native \cup Embedded \cup {None}]
    BY DEF Init, NoTarget
  <2>3. disk \in [Files -> SUBSET Embedded] /\ rows \in [Files -> SUBSET Native]
    BY DEF Init
  <2> QED BY <2>1, <2>2, <2>3, HiddenIsPopup DEF Init, TypeOK
<1>2. PressedIsListed /\ NotesAgree /\ PopupKnows /\ ListedOnce
  BY HiddenIsPopup, NoneIsNoNote DEF Init, ListedOnce, PressedIsListed, NotesAgree, PopupKnows, IsOpen
<1> QED BY <1>1, <1>2 DEF NoteInv

-----------------------------------------------------------------------------
(***************************************************************************)
(* The popup.                                                              *)
(***************************************************************************)

\* A popup that is shown is filled from a note of the open document, or from none.
LEMMA ShowProperties ==
    ASSUME TypeOK, NEW place \in Places, NEW note \in Native \cup Embedded \cup {None},
           NEW isEmbedded \in BOOLEAN, isEmbedded <=> note \in Embedded,
           isEmbedded => place = note.place,
           Show(place, note, isEmbedded), IsOpen, document' = document
    PROVE  /\ popup' \in Popups /\ PopupKnows'
           /\ target' \in [file : Files \cup {None}, note : Native \cup Embedded \cup {None}]
<1> DEFINE id == IF note # None /\ ~isEmbedded THEN note.id ELSE None
           content == IF note = None THEN Blank ELSE note.text
<1>1. /\ popup' = [state |-> "shown", place |-> place, embedded |-> isEmbedded, id |-> id,
                   existing |-> note # None, cancelled |-> FALSE, content |-> content]
      /\ target' = [file |-> document, note |-> note]
  BY DEF Show
<1>2. id \in Ids \cup {None} /\ content \in Contents
  BY DEF Native, Embedded, Contents
<1>3. note \in Native => id = note.id /\ ~isEmbedded
  BY NativeIsNotEmbedded, NoneIsNoNote
<1> HIDE DEF id, content
<1>4. popup' \in Popups
  BY <1>1, <1>2 DEF Popups
<1>5. target' \in [file : Files \cup {None}, note : Native \cup Embedded \cup {None}]
  BY <1>1 DEF TypeOK
<1>6. /\ popup'.cancelled = FALSE /\ popup'.embedded = isEmbedded /\ popup'.place = place
      /\ popup'.id = id /\ target'.file = document /\ target'.note = note
  BY <1>1
<1>7. PopupKnows'
  BY <1>3, <1>6 DEF PopupKnows, IsOpen
<1> QED BY <1>4, <1>5, <1>7

\* One that is told to go keeps what it was filled from.
LEMMA PopupChanges ==
    ASSUME PopupKnows, popup.state # "hidden",
           UNCHANGED <<popup.place, popup.id, popup.embedded>>, UNCHANGED target.note,
           ~popup'.cancelled => ~popup.cancelled /\ target'.file = target.file /\ document' = document,
           popup'.state = "shown" => ~popup'.cancelled
    PROVE  PopupKnows'
  BY DEF PopupKnows, IsOpen

-----------------------------------------------------------------------------
(***************************************************************************)
(* Opening, the mouse, the popup.                                          *)
(***************************************************************************)

\* Opening, closing, the mouse and the panel keep the invariant.
LEMMA WindowNext ==
    ASSUME NoteInv,
           \/ \E f \in Files : \E seen \in SUBSET rows[f] : Open(f, seen)
           \/ Close \/ Draw \/ CreateNote \/ Abort \/ Release
           \/ \E seen \in SUBSET Stored : TogglePanel(seen)
           \/ \E p \in Places : PressToPlace(p)
           \/ \E n \in shown \cup icons : Press(n)
    PROVE  NoteInv'
<1> USE NoneIsNoNote DEF NoteInv, ListedOnce, noteVars, fileVars, popupVars
<1>1. ASSUME NEW f \in Files, NEW seen \in SUBSET rows[f], Open(f, seen)
      PROVE  NoteInv'
  <2>4. faults' \in 0 .. MaxFaults
    <3>1. (seen = rows[f]) \in BOOLEAN /\ Outcome(seen = rows[f])
      BY <1>1 DEF Open
    <3> QED BY <3>1, OutcomeProperties
  <2>1. TypeOK'
    BY <1>1, <2>4 DEF Open, TypeOK
  <2>2. PressedIsListed' /\ NotesAgree' /\ ListedOnce'
    BY <1>1 DEF Open, PressedIsListed, NotesAgree, TypeOK, IsOpen
  <2>3. PopupKnows'
    <3>1. popup.state # "hidden" => popup.cancelled
      BY <1>1 DEF Open, PopupKnows
    <3> QED BY <1>1, <3>1 DEF Open, PopupKnows
  <2> QED BY <2>1, <2>2, <2>3
<1>2. CASE Close
  <2>1. /\ popup' \in Popups /\ popup'.cancelled = TRUE
        /\ popup'.state # "shown" /\ (popup'.state = "hidden" <=> popup.state = "hidden")
        /\ popup'.place = popup.place /\ popup'.id = popup.id /\ popup'.embedded = popup.embedded
    BY <1>2 DEF Close, PopupHidden, TypeOK, Popups
  <2>2. /\ target' \in [file : Files \cup {None}, note : Native \cup Embedded \cup {None}]
        /\ target'.note = target.note
    BY <1>2 DEF Close, TypeOK
  <2>3. TypeOK'
    BY <1>2, <2>1, <2>2 DEF Close, TypeOK
  <2>4. PressedIsListed' /\ NotesAgree' /\ ListedOnce'
    BY <1>2 DEF Close, PressedIsListed, NotesAgree, IsOpen
  <2>5. PopupKnows'
    BY <2>1, <2>2 DEF PopupKnows
  <2> QED BY <2>3, <2>4, <2>5
<1>3. CASE Draw
  BY <1>3 DEF Draw, TypeOK, PressedIsListed, NotesAgree, PopupKnows, IsOpen
<1>4. CASE CreateNote \/ Abort
  BY <1>4 DEF CreateNote, Abort, TypeOK, PressedIsListed, NotesAgree, PopupKnows, IsOpen
<1>8. ASSUME NEW seen \in SUBSET Stored, TogglePanel(seen)
      PROVE  NoteInv'
  <2>1. faults' \in 0 .. MaxFaults
    <3>1. (seen = Stored) \in BOOLEAN
      OBVIOUS
    <3>2. Outcome(seen = Stored) \/ faults' = faults
      BY <1>8 DEF TogglePanel
    <3> QED BY <3>1, <3>2, OutcomeProperties DEF TypeOK
  <2>2. panel' = None \/ panel' \subseteq Native
    BY <1>8, StoredProperties DEF TogglePanel
  <2>3. IsOpen /\ UNCHANGED <<document, rows, shown, lost, embedded, disk, icons, retrieved>>
        /\ UNCHANGED <<placing, pressed, popup, target>>
    BY <1>8 DEF TogglePanel
  <2> QED BY <2>1, <2>2, <2>3 DEF TypeOK, PressedIsListed, NotesAgree, PopupKnows, IsOpen
<1>5. CASE Release
  <2>1. /\ pressed \in Native \cup Embedded /\ pressed' = None
        /\ Show(pressed.place, pressed, pressed \in Embedded)
        /\ UNCHANGED <<document, rows, shown, lost, embedded, disk, icons, retrieved, placing, panel, faults>>
    BY <1>5 DEF Release, TypeOK
  <2>2. pressed.place \in Places
    BY <2>1 DEF Native, Embedded
  <2>3. /\ popup' \in Popups /\ PopupKnows'
        /\ target' \in [file : Files \cup {None}, note : Native \cup Embedded \cup {None}]
    <3> DEFINE isEmbedded == pressed \in Embedded
    <3>1. isEmbedded \in BOOLEAN /\ (isEmbedded <=> pressed \in Embedded)
      OBVIOUS
    <3>2. Show(pressed.place, pressed, isEmbedded) /\ IsOpen /\ document' = document
      BY <1>5, <2>1 DEF Release
    <3> HIDE DEF isEmbedded
    <3> QED BY <2>1, <2>2, <3>1, <3>2, ShowProperties
  <2> QED BY <2>1, <2>3 DEF TypeOK, PressedIsListed, NotesAgree, IsOpen
<1>6. ASSUME NEW place \in Places, PressToPlace(place)
      PROVE  NoteInv'
  <2>1. /\ popup' \in Popups /\ PopupKnows'
        /\ target' \in [file : Files \cup {None}, note : Native \cup Embedded \cup {None}]
    BY <1>6, ShowProperties DEF PressToPlace
  <2> QED BY <1>6, <2>1 DEF PressToPlace, TypeOK, PressedIsListed, NotesAgree, IsOpen
<1>7. ASSUME NEW note \in shown \cup icons, Press(note)
      PROVE  NoteInv'
  <2>1. note \in Embedded => note \in icons
    BY NativeIsNotEmbedded DEF TypeOK
  <2> QED BY <1>7, <2>1 DEF Press, TypeOK, PressedIsListed, NotesAgree, PopupKnows, IsOpen
<1> QED BY <1>1, <1>2, <1>3, <1>4, <1>5, <1>6, <1>7, <1>8

-----------------------------------------------------------------------------
(***************************************************************************)
(* What changes notes.                                                     *)
(***************************************************************************)

\* A row with an identifier of its own, and the entry of the list that goes with it.
LEMMA DbProperties ==
    ASSUME TypeOK, IsOpen
    PROVE  /\ \A n \in Native :
                /\ DbAdd(n) \in [Files -> SUBSET Native]
                /\ DbAdd(n)[document] = {m \in rows[document] : m.id # n.id} \cup {n}
           /\ \A id :
                /\ DbRemove(id) \in [Files -> SUBSET Native]
                /\ DbRemove(id)[document] = {m \in rows[document] : m.id # id}
<1>1. document \in Files /\ rows \in [Files -> SUBSET Native] /\ rows[document] \subseteq Native
  BY DEF TypeOK, IsOpen
<1>2. \A n \in Native : {m \in rows[document] : m.id # n.id} \cup {n} \subseteq Native
  BY <1>1
<1>3. \A id : {m \in rows[document] : m.id # id} \subseteq Native
  BY <1>1
<1> QED BY <1>1, <1>2, <1>3 DEF DbAdd, DbRemove

\* The list of embedded notes stays one of notes that the button may be down on.
LEMMA RefreshProperties ==
    ASSUME Refresh
    PROVE  PressedIsListed' /\ (retrieved' = TRUE)
           /\ (pressed' = pressed \/ (pressed' = None /\ pressed # None))
  BY NoneIsNoNote DEF Refresh, PressedIsListed

\* note_delete_callback and note_save_callback, for either kind of note.
NotesStay ==
    /\ rows' \in [Files -> SUBSET Native] /\ shown' \subseteq Native /\ lost' \in BOOLEAN
    /\ embedded' \subseteq Embedded /\ disk' \in [Files -> SUBSET Embedded]
    /\ icons' \subseteq Embedded /\ retrieved' \in BOOLEAN
    /\ pressed' \in {pressed, None}
    /\ PressedIsListed' /\ (~retrieved' => icons' = {})
    /\ NotesAgree'

\* Deleting a note, native or embedded, leaves page and database agreed.
LEMMA DeleteStays ==
    ASSUME NoteInv, IsOpen, document' = document, NEW ok, NEW saved,
           DeleteEmbedded(ok, saved) \/ DeleteNative(ok)
    PROVE  NotesStay
<1> USE NoneIsNoNote DEF NoteInv, ListedOnce
<1>1. CASE DeleteEmbedded(ok, saved)
  <2>1. embedded' \subseteq Embedded /\ UNCHANGED <<rows, shown, lost>>
    BY <1>1 DEF DeleteEmbedded, noteVars, TypeOK
  <2>2. CASE ok
    <3>1. Save(saved) /\ Refresh
      BY <1>1, <2>2 DEF DeleteEmbedded
    <3> QED BY <2>1, <3>1, SaveProperties, RefreshProperties
            DEF NotesStay, TypeOK, NotesAgree, IsOpen, Refresh
  <2>3. CASE ~ok
    BY <1>1, <2>1, <2>3 DEF DeleteEmbedded, NotesStay, TypeOK, NotesAgree, PressedIsListed, IsOpen
  <2> QED BY <2>2, <2>3
<1>2. CASE DeleteNative(ok)
  <2>1. lost' = lost /\ UNCHANGED <<embedded, disk, icons, retrieved, pressed>>
    BY <1>2 DEF DeleteNative, fileVars
  <2>2. CASE ok
    <3>1. rows' = DbRemove(popup.id) /\ shown' = {n \in shown : n.id # popup.id}
      BY <1>2, <2>2 DEF DeleteNative
    <3>2. /\ DbRemove(popup.id) \in [Files -> SUBSET Native]
          /\ DbRemove(popup.id)[document] = {n \in rows[document] : n.id # popup.id}
      BY DbProperties
    <3> QED BY <2>1, <3>1, <3>2 DEF NotesStay, TypeOK, NotesAgree, PressedIsListed, IsOpen
  <2>3. CASE ~ok
    BY <1>2, <2>1, <2>3
       DEF DeleteNative, NotesStay, TypeOK, NotesAgree, PressedIsListed, IsOpen
  <2> QED BY <2>2, <2>3
<1> QED BY <1>1, <1>2

\* So does saving a text over a note or as a new one.
LEMMA SaveStays ==
    ASSUME NoteInv, IsOpen, document' = document, popup.content \in Texts, NEW ok, NEW saved,
           SaveEmbedded(ok, saved) \/ SaveNative(ok)
    PROVE  NotesStay
<1> USE NoneIsNoNote DEF NoteInv, ListedOnce
<1>1. CASE SaveEmbedded(ok, saved)
  <2>1. embedded' \subseteq Embedded /\ UNCHANGED <<rows, shown, lost>>
    <3> DEFINE new(e) == [e EXCEPT !.text = IF e.place = popup.place THEN popup.content ELSE @]
    <3>1. \A e \in Embedded : new(e) \in Embedded
      BY DEF Embedded
    <3>2. embedded' = embedded \/ embedded' = {new(e) : e \in embedded}
      BY <1>1 DEF SaveEmbedded
    <3>3. embedded \subseteq Embedded
      BY DEF TypeOK
    <3> HIDE DEF new
    <3> QED BY <1>1, <3>1, <3>2, <3>3 DEF SaveEmbedded, noteVars
  <2>2. CASE ok
    <3>1. Save(saved) /\ Refresh
      BY <1>1, <2>2 DEF SaveEmbedded
    <3> QED BY <2>1, <3>1, SaveProperties, RefreshProperties
            DEF NotesStay, TypeOK, NotesAgree, IsOpen, Refresh
  <2>3. CASE ~ok
    BY <1>1, <2>1, <2>3 DEF SaveEmbedded, NotesStay, TypeOK, NotesAgree, PressedIsListed, IsOpen
  <2> QED BY <2>2, <2>3
<1>2. CASE SaveNative(ok)
  <2>1. PICK id \in IF popup.id # None THEN {popup.id} ELSE FreshIds :
          LET note == [id |-> id, place |-> popup.place, text |-> popup.content]
          IN  /\ rows' = IF ok THEN DbAdd(note) ELSE rows
              /\ shown' = IF ok THEN {n \in shown : n.id # id} \cup {note} ELSE shown
              /\ lost' = lost
              /\ UNCHANGED <<fileVars, pressed>>
    BY <1>2 DEF SaveNative
  <2> DEFINE note == [id |-> id, place |-> popup.place, text |-> popup.content]
  <2>2. note \in Native /\ note.id = id
    <3>1. popup.id \in Ids \cup {None} /\ popup.place \in Places
      BY DEF TypeOK, Popups
    <3>2. id \in Ids
      BY <3>1, FreshIsId
    <3> QED BY <3>1, <3>2 DEF Native
  <2>3. lost' = lost /\ UNCHANGED <<embedded, disk, icons, retrieved, pressed>>
    BY <2>1 DEF fileVars
  <2>4. /\ rows' = IF ok THEN DbAdd(note) ELSE rows
        /\ shown' = IF ok THEN {n \in shown : n.id # id} \cup {note} ELSE shown
    BY <2>1
  <2> HIDE DEF note
  <2>5. CASE ok
    BY <2>2, <2>3, <2>4, <2>5, DbProperties
       DEF NotesStay, TypeOK, NotesAgree, PressedIsListed, IsOpen
  <2>6. CASE ~ok
    BY <2>2, <2>3, <2>4, <2>6
       DEF NotesStay, TypeOK, NotesAgree, PressedIsListed, IsOpen
  <2> QED BY <2>5, <2>6
<1> QED BY <1>1, <1>2

\* The rest of the state when notes change under a popup.
LEMMA StayProperties ==
    ASSUME NoteInv, IsOpen, NotesStay, document' = document, placing' = placing,
           panel' = None \/ panel' \subseteq Native, popup' \in Popups, PopupKnows',
           target' \in [file : Files \cup {None}, note : Native \cup Embedded \cup {None}],
           faults' \in 0 .. MaxFaults
    PROVE  NoteInv'
  BY DEF NoteInv, NotesStay, TypeOK, ListedOnce, IsOpen

\* Typing into the popup, leaving it and its late "closed" keep the invariant.
LEMMA PopupNext ==
    ASSUME NoteInv,
           \/ \E c \in Contents : Type(c)
           \/ \E escape \in BOOLEAN : Dismiss(escape)
           \/ \E ok, saved \in BOOLEAN : DeleteButton(ok, saved) \/ Closed(ok, saved)
    PROVE  NoteInv'
<1> USE NoneIsNoNote DEF NoteInv
<1>1. ASSUME NEW c \in Contents, Type(c)
      PROVE  NoteInv'
  <2>1. /\ popup' \in Popups /\ popup'.state = "shown" /\ popup'.cancelled = popup.cancelled
        /\ popup'.place = popup.place /\ popup'.id = popup.id /\ popup'.embedded = popup.embedded
    BY <1>1 DEF Type, TypeOK, Popups
  <2>2. PopupKnows'
    BY <1>1, <2>1 DEF Type, PopupKnows, IsOpen
  <2> QED BY <1>1, <2>1, <2>2
          DEF Type, noteVars, fileVars, TypeOK, PressedIsListed, NotesAgree, ListedOnce, IsOpen
<1>2. ASSUME NEW escape \in BOOLEAN, Dismiss(escape)
      PROVE  NoteInv'
  <2>1. /\ popup' \in Popups /\ popup'.state = "closing" /\ popup'.cancelled = escape
        /\ popup'.place = popup.place /\ popup'.id = popup.id /\ popup'.embedded = popup.embedded
    BY <1>2 DEF Dismiss, TypeOK, Popups
  <2>2. PopupKnows'
    BY <1>2, <2>1 DEF Dismiss, PopupKnows, IsOpen
  <2> QED BY <1>2, <2>1, <2>2
          DEF Dismiss, noteVars, fileVars, TypeOK, PressedIsListed, NotesAgree, ListedOnce, IsOpen
<1>3. ASSUME NEW ok \in BOOLEAN, NEW saved \in BOOLEAN, DeleteButton(ok, saved)
      PROVE  NoteInv'
  <2>1. /\ popup' \in Popups /\ popup'.state = "closing" /\ popup'.cancelled = TRUE
        /\ popup'.place = popup.place /\ popup'.id = popup.id /\ popup'.embedded = popup.embedded
        /\ popup.state = "shown"
    BY <1>3 DEF DeleteButton, TypeOK, Popups
  <2>2. target' = target /\ document' = document /\ placing' = placing /\ panel' = panel
    BY <1>3 DEF DeleteButton
  <2>3. PopupKnows' /\ IsOpen
    BY <2>1, <2>2 DEF PopupKnows
  <2>4. NotesStay
    <3>1. CASE popup.embedded
      BY <1>3, <2>2, <2>3, <3>1, DeleteStays DEF DeleteButton
    <3>2. CASE ~popup.embedded
      BY <1>3, <2>2, <2>3, <3>2, DeleteStays DEF DeleteButton
    <3> QED BY <3>1, <3>2
  <2>5. faults' \in 0 .. MaxFaults
    <3>1. (ok /\ saved) \in BOOLEAN /\ Outcome(ok /\ saved)
      BY <1>3 DEF DeleteButton
    <3> QED BY <3>1, OutcomeProperties
  <2> QED BY <2>1, <2>2, <2>3, <2>4, <2>5, StayProperties DEF TypeOK
<1>4. ASSUME NEW ok \in BOOLEAN, NEW saved \in BOOLEAN, Closed(ok, saved)
      PROVE  NoteInv'
  <2>1. /\ popup' = HiddenPopup /\ target' = NoTarget
        /\ document' = document /\ placing' = placing /\ panel' = panel
    BY <1>4 DEF Closed
  <2>2. /\ popup' \in Popups /\ PopupKnows'
        /\ target' \in [file : Files \cup {None}, note : Native \cup Embedded \cup {None}]
    BY <2>1, HiddenIsPopup DEF PopupKnows, NoTarget
  <2>3. CASE popup.cancelled \/ popup.content = Blank \/ ~IsOpen
    <3>1. UNCHANGED <<noteVars, fileVars, pressed, faults>>
      BY <1>4, <2>3 DEF Closed
    <3> QED BY <2>1, <2>2, <3>1
            DEF noteVars, fileVars, TypeOK, PressedIsListed, NotesAgree, ListedOnce, IsOpen
  <2>4. CASE ~(popup.cancelled \/ popup.content = Blank \/ ~IsOpen)
    <3>1. IsOpen /\ popup.content \in Texts
      BY <2>4 DEF TypeOK, Popups, Contents
    <3>2. NotesStay
      <4>1. CASE popup.embedded
        BY <1>4, <2>1, <2>4, <3>1, <4>1, SaveStays DEF Closed
      <4>2. CASE ~popup.embedded
        BY <1>4, <2>1, <2>4, <3>1, <4>2, SaveStays DEF Closed
      <4> QED BY <4>1, <4>2
    <3>3. faults' \in 0 .. MaxFaults
      <4>1. (ok /\ saved) \in BOOLEAN /\ Outcome(ok /\ saved)
        BY <1>4, <2>4 DEF Closed
      <4> QED BY <4>1, OutcomeProperties
    <3> QED BY <2>1, <2>2, <3>1, <3>2, <3>3, StayProperties DEF TypeOK
  <2> QED BY <2>3, <2>4
<1> QED BY <1>1, <1>2, <1>3, <1>4

\* So do export, import and the panel's deletion.
LEMMA PanelNext ==
    ASSUME NoteInv,
           \/ \E ok, saved, deleted \in BOOLEAN, n \in Native : PanelDelete(n, ok, deleted, saved)
           \/ \E seen \in SUBSET Stored :
                \/ \E failing \in SUBSET embedded : Import(failing, seen)
                \/ \E ok, saved \in BOOLEAN : Export(ok, saved, seen)
    PROVE  NoteInv'
<1> USE NoneIsNoNote DEF NoteInv, ListedOnce
<1>1. ASSUME NEW ok \in BOOLEAN, NEW saved \in BOOLEAN, NEW seen \in SUBSET Stored,
             Export(ok, saved, seen)
      PROVE  NoteInv'
  <2>1. embedded' \subseteq Embedded
    <3>1. ToExport(seen) \subseteq Native
      BY <1>1, StoredProperties DEF ToExport
    <3>2. \A n \in Native : [place |-> n.place, text |-> n.text] \in Embedded
      BY DEF Native, Embedded
    <3> QED BY <1>1, <3>1, <3>2 DEF Export, TypeOK
  <2>2. disk' \in [Files -> SUBSET Embedded]
    BY <1>1, <2>1, SaveProperties DEF Export
  <2>3. faults' \in 0 .. MaxFaults
    <3>1. (ok /\ saved /\ seen = Stored) \in BOOLEAN /\ Outcome(ok /\ saved /\ seen = Stored)
      BY <1>1 DEF Export
    <3> QED BY <3>1, OutcomeProperties
  <2>4. UNCHANGED <<document, rows, shown, lost, icons, retrieved, placing, pressed, popup, target, panel>>
    BY <1>1 DEF Export, noteVars, popupVars
  <2> QED BY <2>1, <2>2, <2>3, <2>4
          DEF TypeOK, PressedIsListed, NotesAgree, PopupKnows, IsOpen
<1>2. ASSUME NEW n \in Native, NEW ok \in BOOLEAN, NEW deleted \in BOOLEAN, NEW saved \in BOOLEAN,
             PanelDelete(n, ok, deleted, saved)
      PROVE  NoteInv'
  <2>1. UNCHANGED <<document, lost, icons, retrieved, placing, pressed, popup, target>>
    BY <1>2 DEF PanelDelete, popupVars
  <2>6. PICK seen \in SUBSET rows'[document] :
          panel' = (IF ok THEN seen ELSE panel) /\ Outcome(ok /\ saved /\ seen = rows'[document])
    BY <1>2 DEF PanelDelete
  <2>2. faults' \in 0 .. MaxFaults
    <3>1. (ok /\ saved /\ seen = rows'[document]) \in BOOLEAN
          /\ Outcome(ok /\ saved /\ seen = rows'[document])
      BY <2>6
    <3> QED BY <3>1, OutcomeProperties
  <2>3. embedded' \subseteq Embedded
    BY <1>2 DEF PanelDelete, TypeOK
  <2>5. IsOpen
    BY <1>2 DEF PanelDelete
  <2>11. disk' \in [Files -> SUBSET Embedded]
    BY <1>2, <2>3, <2>5, SaveProperties DEF PanelDelete
  <2>12. CASE ok
    <3>1. /\ rows' = DbRemove(n.id) /\ shown' = {m \in shown : m.id # n.id}
          /\ panel' \subseteq rows'[document]
      BY <1>2, <2>6, <2>12 DEF PanelDelete
    <3>2. /\ DbRemove(n.id) \in [Files -> SUBSET Native]
          /\ DbRemove(n.id)[document] = {m \in rows[document] : m.id # n.id}
      BY <2>5, DbProperties
    <3>3. panel' \subseteq Native
      BY <2>5, <3>1, <3>2 DEF TypeOK, IsOpen
    <3>4. document' = document /\ lost' = lost /\ document \in Files
      BY <2>1, <2>5 DEF TypeOK, IsOpen
    <3>5. shown' \subseteq Native
      BY <3>1 DEF TypeOK
    <3>6. TypeOK'
      BY <2>1, <2>2, <2>3, <2>11, <3>1, <3>2, <3>3, <3>5 DEF TypeOK
    <3>7. NotesAgree'
      BY <2>5, <3>1, <3>2, <3>4 DEF NotesAgree
    <3> QED BY <2>1, <2>5, <3>6, <3>7 DEF PressedIsListed, PopupKnows, IsOpen
  <2>13. CASE ~ok
    BY <1>2, <2>1, <2>2, <2>3, <2>11, <2>13
       DEF PanelDelete, TypeOK, PressedIsListed, NotesAgree, PopupKnows, IsOpen
  <2> QED BY <2>12, <2>13
<1>3. ASSUME NEW failing \in SUBSET embedded, NEW seen \in SUBSET Stored, Import(failing, seen)
      PROVE  NoteInv'
  <2>1. /\ IsOpen /\ UNCHANGED <<document, embedded, disk, icons, retrieved, placing, pressed>>
        /\ UNCHANGED <<popup, target, panel>>
        /\ lost' = (lost \/ failing # {}) /\ Outcome(failing = {} /\ seen = Stored)
    BY <1>3 DEF Import, fileVars, popupVars
  <2>2. faults' \in 0 .. MaxFaults
    <3>1. (failing = {} /\ seen = Stored) \in BOOLEAN
      OBVIOUS
    <3> QED BY <2>1, <3>1, OutcomeProperties
  <2>3. PICK id \in [ToImport(seen) -> FreshIds] :
          LET note(e) == [id |-> id[e], place |-> e.place, text |-> e.text]
          IN  /\ rows' = [rows EXCEPT ![document] = @ \cup {note(e) : e \in ToImport(seen) \ failing}]
              /\ shown' = shown \cup {note(e) : e \in ToImport(seen)}
    BY <1>3 DEF Import
  <2> DEFINE note(e) == [id |-> id[e], place |-> e.place, text |-> e.text]
  <2>4. \A e \in ToImport(seen) : note(e) \in Native
    <3>1. \A e \in ToImport(seen) : e.place \in Places /\ e.text \in Texts
      BY DEF ToImport, TypeOK, Embedded
    <3>2. \A e \in ToImport(seen) : id[e] \in Ids
      BY FreshIsId
    <3> QED BY <3>1, <3>2 DEF Native
  <2>5. /\ rows' = [rows EXCEPT ![document] = @ \cup {note(e) : e \in ToImport(seen) \ failing}]
        /\ shown' = shown \cup {note(e) : e \in ToImport(seen)}
    BY <2>3
  <2> HIDE DEF note
  <2>6. /\ document \in Files /\ rows[document] \subseteq Native
        /\ {note(e) : e \in ToImport(seen) \ failing} \subseteq Native
        /\ {note(e) : e \in ToImport(seen)} \subseteq Native
    BY <2>1, <2>4 DEF TypeOK, IsOpen
  <2>7. rows' \in [Files -> SUBSET Native] /\ shown' \subseteq Native
    BY <2>5, <2>6 DEF TypeOK
  <2>8. NotesAgree'
    <3>1. SUFFICES ASSUME ~lost' PROVE shown' = rows'[document]
      BY <2>1 DEF NotesAgree
    <3>2. failing = {} /\ ~lost
      BY <2>1, <3>1
    <3>3. shown = rows[document]
      BY <2>1, <3>2 DEF NotesAgree
    <3>4. rows'[document] = rows[document] \cup {note(e) : e \in ToImport(seen)}
      BY <2>5, <2>6, <3>2 DEF TypeOK
    <3> QED BY <2>5, <3>3, <3>4
  <2> QED BY <2>1, <2>2, <2>7, <2>8 DEF TypeOK, PressedIsListed, PopupKnows, IsOpen
<1> QED BY <1>1, <1>2, <1>3

-----------------------------------------------------------------------------
(***************************************************************************)
(* Theorems.                                                               *)
(***************************************************************************)

\* The invariant, from the steps.
LEMMA NotesInvariance == Spec => []NoteInv
<1>1. NoteInv /\ [Next]_vars => NoteInv'
  <2>1. CASE UNCHANGED vars
    BY <2>1 DEF vars, noteVars, fileVars, popupVars, NoteInv, TypeOK, PressedIsListed,
                NotesAgree, PopupKnows, ListedOnce, IsOpen
  <2>2. ASSUME NoteInv, Next
        PROVE  NoteInv'
    <3>1. CASE \/ \E f \in Files : \E seen \in SUBSET rows[f] : Open(f, seen)
               \/ Close \/ Draw \/ CreateNote \/ Abort \/ Release
               \/ \E seen \in SUBSET Stored : TogglePanel(seen)
               \/ \E p \in Places : PressToPlace(p)
               \/ \E n \in shown \cup icons : Press(n)
      BY <2>2, <3>1, WindowNext
    <3>2. CASE (\E c \in Contents : Type(c)) \/ \E escape \in BOOLEAN : Dismiss(escape)
      BY <2>2, <3>2, PopupNext
    <3>3. ASSUME NEW ok \in BOOLEAN, NEW saved \in BOOLEAN,
                 DeleteButton(ok, saved) \/ Closed(ok, saved)
          PROVE  NoteInv'
      <4>1. \E o, s \in BOOLEAN : DeleteButton(o, s) \/ Closed(o, s)
        BY <3>3
      <4> QED BY <2>2, <4>1, PopupNext
    <3>4. CASE \E ok, saved \in BOOLEAN, n \in Native, deleted \in BOOLEAN :
                 PanelDelete(n, ok, deleted, saved)
      BY <2>2, <3>4, PanelNext
    <3>5. CASE \E seen \in SUBSET Stored :
                 \/ \E failing \in SUBSET embedded : Import(failing, seen)
                 \/ \E ok, saved \in BOOLEAN : Export(ok, saved, seen)
      BY <2>2, <3>5, PanelNext
    <3> QED BY <2>2, <3>1, <3>2, <3>3, <3>4, <3>5 DEF Next
  <2> QED BY <2>1, <2>2
<1> QED BY <1>1, NoteInit, PTL DEF Spec

\* The page shows what the database has of the file, through popup, panel, import
\* and reopening, unless the database failed for an imported note or when the notes
\* were read on opening.
THEOREM PageShowsRows == Spec => []NotesAgree
<1>1. NoteInv => NotesAgree
  BY DEF NoteInv
<1> QED BY <1>1, NotesInvariance, PTL

\* The note the button is down on is in the list: a late "closed" of a popup does
\* not free it.
THEOREM PressedSurvives == Spec => []WellFormed
<1>1. NoteInv => WellFormed
  BY DEF NoteInv, WellFormed
<1> QED BY <1>1, NotesInvariance, PTL

\* A text goes into the document and over the note it was typed for, and only if
\* the reader did not escape.
THEOREM TextGoesWhereTyped == Spec => SavedWhereTyped
<1> DEFINE Right ==
        (rows' # rows \/ embedded' # embedded) /\ popup.state = "closing"
            /\ popup'.state = "hidden"
        => /\ document = target.file /\ ~popup.cancelled
           /\ \A n \in rows'[document] \ rows[document] :
                  target.note \in Native => n.id = target.note.id
           /\ \A e \in embedded' \ embedded : e.place = target.note.place
<1>1. NoteInv /\ [Next]_vars => [Right]_vars
  <2>1. SUFFICES ASSUME NoteInv, Next, rows' # rows \/ embedded' # embedded,
                        popup.state = "closing", popup'.state = "hidden"
                 PROVE  /\ document = target.file /\ ~popup.cancelled
                        /\ \A n \in rows'[document] \ rows[document] :
                               target.note \in Native => n.id = target.note.id
                        /\ \A e \in embedded' \ embedded : e.place = target.note.place
    BY DEF vars
  <2>2. PICK ok \in BOOLEAN, saved \in BOOLEAN : Closed(ok, saved)
    <3>1. popup' # popup
      BY <2>1
    <3>2. PopupHidden.state # "hidden"
      BY <2>1 DEF PopupHidden, NoteInv, TypeOK, Popups
    <3> QED BY <2>1, <3>1, <3>2
            DEF Next, Open, Close, Draw, CreateNote, Abort, Release, TogglePanel, PressToPlace,
                Press, Type, Dismiss, DeleteButton, PanelDelete, Export, Import, Show, popupVars
  <2>3. ~popup.cancelled /\ popup.content # Blank /\ IsOpen
    BY <2>1, <2>2 DEF Closed, noteVars, fileVars
  <2>4. /\ document = target.file
        /\ popup.embedded => target.note \in Embedded /\ popup.place = target.note.place
        /\ target.note \in Native => popup.id = target.note.id /\ ~popup.embedded
    BY <2>1, <2>3 DEF NoteInv, PopupKnows
  <2>5. CASE popup.embedded
    <3>1. SaveEmbedded(ok /\ Known, saved)
      BY <2>2, <2>3, <2>5 DEF Closed
    <3>2. rows' = rows
      BY <3>1 DEF SaveEmbedded, noteVars
    <3>3. \A e \in embedded' \ embedded : e.place = popup.place
      <4> DEFINE new(e) == [e EXCEPT !.text = IF e.place = popup.place THEN popup.content ELSE @]
      <4>1. embedded' = embedded \/ embedded' = {new(e) : e \in embedded}
        BY <3>1 DEF SaveEmbedded
      <4>2. \A e \in Embedded : new(e).place = e.place /\ (e.place # popup.place => new(e) = e)
        BY DEF Embedded
      <4>3. embedded \subseteq Embedded
        BY <2>1 DEF NoteInv, TypeOK
      <4> HIDE DEF new
      <4> QED BY <4>1, <4>2, <4>3
    <3> QED BY <2>3, <2>4, <2>5, <3>2, <3>3
  <2>6. CASE ~popup.embedded
    <3>1. SaveNative(ok)
      BY <2>2, <2>3, <2>6 DEF Closed
    <3>2. embedded' = embedded
      BY <3>1 DEF SaveNative, fileVars
    <3>3. ASSUME target.note \in Native, NEW n \in rows'[document] \ rows[document]
          PROVE  n.id = target.note.id
      <4>1. popup.id = target.note.id /\ popup.id \in Ids /\ popup.id # None
        BY <2>4, <3>3, NoneIsNoNote DEF Native
      <4> DEFINE note == [id |-> popup.id, place |-> popup.place, text |-> popup.content]
      <4>2. rows' = rows \/ rows' = DbAdd(note)
        BY <3>1, <4>1 DEF SaveNative
      <4>3. note \in Native
        BY <2>1, <2>3, <4>1 DEF Native, NoteInv, TypeOK, Popups, Contents
      <4>4. note.id = popup.id
        OBVIOUS
      <4> HIDE DEF note
      <4>5. DbAdd(note)[document] = {m \in rows[document] : m.id # note.id} \cup {note}
        BY <2>1, <2>3, <4>3, DbProperties DEF NoteInv
      <4> QED BY <3>3, <4>1, <4>2, <4>4, <4>5
    <3> QED BY <2>3, <2>4, <3>2, <3>3
  <2> QED BY <2>5, <2>6
<1> QED BY <1>1, NotesInvariance, PTL DEF Spec, SavedWhereTyped

=============================================================================
