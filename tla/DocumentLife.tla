---------------------------- MODULE DocumentLife ----------------------------
(***************************************************************************)
(* The life of documents in a window: open, close and reload (zathura.c),  *)
(* the file monitor, the password dialog, and the requests that are        *)
(* carried out later, in idle callbacks of the main loop.                  *)
(*                                                                         *)
(* Everything here runs on the main loop, one callback at a time; other    *)
(* processes write the files, the user and D-Bus ask for documents between *)
(* any two callbacks.  What the renderer sees of a close is in RenderJobs. *)
(***************************************************************************)
EXTENDS Integers, Sequences, SequencesExt, FiniteSets

CONSTANTS
    Files,          \* the paths
    Written,        \* the files other processes write
    PageCounts,     \* how many pages a version of a file may have
    Keys,           \* the passwords
    NoKey,          \* not encrypted, or no password given (NULL)
    Garbled,        \* what is read from a password that was freed: no password
    None,           \* the NULL pointer
    OpenFirstPage,  \* the setting "open-first-page"
    FirstPages,     \* the number of pages of each file at first
    FirstKeys,      \* the password of each file at first
    PageArguments,  \* the pages documents are asked for
    MaxWrites,      \* bound: how often other processes write
    MaxIdle         \* bound: idle callbacks when a request is made

ASSUME CountsAssumption ==
    /\ PageCounts \subseteq Nat \ {0}
    /\ \E n \in PageCounts : \A m \in PageCounts : m <= n
    /\ MaxWrites \in Nat
ASSUME KeysAssumption == {NoKey, Garbled} \cap Keys = {} /\ Garbled # NoKey
ASSUME FirstPageAssumption == OpenFirstPage \in BOOLEAN
ASSUME FilesAssumption ==
    /\ Written \subseteq Files
    /\ FirstPages \in [Files -> PageCounts]
    /\ FirstKeys \in [Files -> Keys \cup {NoKey}]
ASSUME ArgumentsAssumption == PageArguments \subseteq Int

VARIABLES
    disk,       \* the files: what other processes wrote last
    zathura,    \* the fields of zathura_t that are about documents
    history,    \* the database: the page each file was left at
    notice,     \* the monitor has an event that is not dispatched yet
    idle,       \* the idle callbacks, in the order they were added
    dialog,     \* the file the inputbar asks a password for
    place,      \* the page each file was last shown at (ghost)
    leftover    \* a reload failed and its monitor is still there: "drawn" if the
                \* document it closed was on screen, else "blank" (ghost)

vars == <<disk, zathura, history, notice, idle, dialog, place, leftover>>

Unspecified == -1000     \* ZATHURA_PAGE_NUMBER_UNSPECIFIED
MaxPages == CHOOSE n \in PageCounts : \A m \in PageCounts : m <= n
PageIds == 0 .. MaxPages

\* `whole' is false while the file is being written: then no plugin opens it.
Versions == [gen : 0 .. MaxWrites, pages : PageCounts, key : Keys \cup {NoKey},
             whole : BOOLEAN]
Documents == [file : Files, gen : 0 .. MaxWrites, pages : PageCounts,
              key : Keys \cup {NoKey}]
Predecessors == [doc : Documents, page : PageIds]

ASSUME NoneAssumption == None \notin Files \cup Documents \cup Predecessors

\* The fields of zathura_t that are about documents.
Windows ==
    [document : Documents \cup {None}, page : PageIds, surface : BOOLEAN,
     predecessor : Predecessors \cup {None}, monitor : Files \cup {None},
     password : Keys \cup {NoKey, Garbled}]

\* An open, a password dialog, or rectangles to highlight that were given for
\* a document of that many pages.
Callbacks ==
    [kind : {"open"}, file : Files, key : Keys \cup {NoKey},
     page : PageArguments \cup {Unspecified}]
    \cup [kind : {"ask"}, file : Files]
    \cup [kind : {"rects"}, pages : PageCounts, page : PageIds]

TypeOK ==
    /\ disk \in [Files -> Versions]
    /\ zathura \in Windows
    /\ history \in [Files -> PageIds]
    /\ notice \in BOOLEAN
    /\ idle \in Seq(Callbacks)
    /\ dialog \in Files \cup {None}
    /\ place \in [Files -> PageIds]
    /\ leftover \in {"no", "drawn", "blank"}

Init ==
    /\ disk = [f \in Files |-> [gen |-> 0, pages |-> FirstPages[f], key |-> FirstKeys[f],
                                whole |-> TRUE]]
    /\ zathura = [document |-> None, page |-> 0, surface |-> FALSE,
                  predecessor |-> None, monitor |-> None, password |-> NoKey]
    /\ history = [f \in Files |-> 0]
    /\ notice = FALSE
    /\ idle = <<>>
    /\ dialog = None
    /\ place = [f \in Files |-> 0]
    /\ leftover = "no"

HasDocument == zathura.document # None
Pages == 0 .. zathura.document.pages - 1

-----------------------------------------------------------------------------
(***************************************************************************)
(* document_close and document_open, from one zathura_t to the next.       *)
(***************************************************************************)

\* Mutants: the monitor stays with the window; the predecessor of a document
\* that is closed for good stays.
CloseKeepsMonitor(z, keep) ==
    LET override == keep /\ z.surface
    IN  IF z.document = None THEN z
        ELSE [z EXCEPT !.document = None, !.page = 0, !.surface = FALSE,
                       !.password = IF keep THEN @ ELSE NoKey,
                       !.predecessor = IF override THEN [doc |-> z.document, page |-> z.page]
                                       ELSE IF keep THEN @ ELSE None]

CloseKeepsPredecessor(z, keep) ==
    LET override == keep /\ z.surface
    IN  IF z.document = None THEN z
        ELSE [z EXCEPT !.document = None, !.page = 0, !.surface = FALSE,
                       !.monitor = IF keep THEN @ ELSE None,
                       !.password = IF keep THEN @ ELSE NoKey,
                       !.predecessor = IF override THEN [doc |-> z.document, page |-> z.page]
                                       ELSE @]

\* A reload keeps the document as predecessor, so as not to flicker, but only
\* when there is something to show; otherwise it keeps the one it has.
DocumentClose(z, keep) ==
    LET override == keep /\ z.surface
    IN  IF z.document = None THEN z
        ELSE [z EXCEPT !.document = None, !.page = 0, !.surface = FALSE,
                       !.monitor = IF keep THEN @ ELSE None,
                       !.password = IF keep THEN @ ELSE NoKey,
                       !.predecessor = IF override THEN [doc |-> z.document, page |-> z.page]
                                       ELSE IF keep THEN @ ELSE None]

\* Mutant: the information is stored for the file of the monitor.
SaveFileinfoOfMonitor(z) ==
    IF z.document = None THEN history ELSE [history EXCEPT ![z.monitor] = z.page]

SaveFileinfo(z) ==
    IF z.document = None THEN history ELSE [history EXCEPT ![z.document.file] = z.page]

\* The page a document is opened at.  The number of pages itself passes.
Landing(number, pages) ==
    LET n == IF number < 0 THEN number + pages ELSE number
    IN  IF n < 0 \/ n > pages THEN 0 ELSE n

\* zathura_document_open: the plugin reads the file.
Reads(file) == disk[file].whole
KeyFits(file, key) == disk[file].key \in {NoKey, key}

Opens(z, file, key) == z.document = None /\ Reads(file) /\ KeyFits(file, key)

\* A monitor is made only if there is none; the password is kept next to it.
Watched(z, file, key) ==
    [z EXCEPT !.monitor = IF @ = None THEN file ELSE @,
              !.password = IF key # NoKey THEN key ELSE @]

\* `known' is the page of the file information: the database's or the one given.
\* With "open-first-page" neither it nor the page asked for matters.
DocumentOpen(z, file, key, number, known) ==
    IF ~Opens(z, file, key) THEN z
    ELSE [Watched(z, file, key) EXCEPT
            !.document = [file |-> file, gen |-> disk[file].gen,
                          pages |-> disk[file].pages, key |-> disk[file].key],
            !.page = IF OpenFirstPage THEN 0
                     ELSE Landing(IF number = Unspecified THEN known ELSE number,
                                  disk[file].pages)]

\* A window just opened with the password it kept itself: document_open frees
\* that string before it copies it, so that the copy is whatever the memory
\* holds, the password still or not.
Recopied(z) ==
    IF z.document = None \/ z.password = NoKey THEN {z}
    ELSE {z, [z EXCEPT !.password = Garbled]}

\* An encrypted file that does not open has the user asked, in a callback.
Asks(z, file, key) ==
    IF z.document = None /\ Reads(file) /\ ~KeyFits(file, key)
    THEN <<[kind |-> "ask", file |-> file]>> ELSE <<>>

\* Events of a monitor that is gone are gone; a new monitor has none yet.
NoticeOf(z) == notice /\ z.monitor # None /\ z.monitor = zathura.monitor

\* What follows for the ghosts from the window's next state.
Settle(z) ==
    /\ zathura' = z
    /\ notice' = NoticeOf(z)
    /\ leftover' = IF z.monitor = None THEN "no" ELSE leftover
    /\ place' = IF z.document = None THEN place
                ELSE [place EXCEPT ![z.document.file] = z.page]
    /\ UNCHANGED disk

-----------------------------------------------------------------------------
(***************************************************************************)
(* Requests.  The page is negative when it counts from the end.            *)
(***************************************************************************)

\* What document_open_idle leaves to be done once the old document is closed.
RequestOpen(file, key, number) ==
    /\ idle' = Append(idle, [kind |-> "open", file |-> file, key |-> key, page |-> number])
    /\ history' = SaveFileinfo(zathura)
    /\ Settle(DocumentClose(zathura, FALSE))
    /\ UNCHANGED dialog

CmdOpen(file, key) == RequestOpen(file, key, Unspecified)

\* OpenDocument of the D-Bus interface; so does the command line, at start.
HandleOpenDocument(file, key, number) == RequestOpen(file, key, number)

\* document_info_open.  A second request finds the first one's document open.
OpenIdle ==
    /\ idle # <<>> /\ Head(idle).kind = "open"
    /\ LET r == Head(idle) IN
       /\ Settle(DocumentOpen(zathura, r.file, r.key, r.page, history[r.file]))
       /\ idle' = Tail(idle) \o Asks(zathura, r.file, r.key)
    /\ UNCHANGED <<history, dialog>>

\* cmd_close, CloseDocument.
Close ==
    /\ HasDocument
    /\ history' = SaveFileinfo(zathura)
    /\ Settle(DocumentClose(zathura, FALSE))
    /\ UNCHANGED <<idle, dialog>>

\* sc_file_chooser asks for page 0, the file picker for the page of a match.
OpenNow(file, number) ==
    LET closed == DocumentClose(zathura, FALSE)
        known  == SaveFileinfo(zathura)[file]
    IN  /\ history' = SaveFileinfo(zathura)
        /\ Settle(DocumentOpen(closed, file, NoKey, number, known))
        /\ idle' = idle \o Asks(closed, file, NoKey)
        /\ UNCHANGED dialog

ChooseFile(file) == OpenNow(file, 0)
PickFile(file) == OpenNow(file, Unspecified)

\* Mutant: the predecessor is not asked for the place.
ReloadPageOfDocument == zathura.page

\* Without a document the place is the predecessor's; without one either, the
\* file information is that of a NULL document.
ReloadPage ==
    IF ~HasDocument /\ zathura.predecessor # None THEN zathura.predecessor.page
    ELSE zathura.page

\* sc_reload, on a key or on an event of the monitor.
Reload ==
    LET closed == DocumentClose(zathura, TRUE)
        opened == DocumentOpen(closed, zathura.monitor, closed.password, ReloadPage, ReloadPage)
    IN  /\ zathura.monitor # None
        /\ zathura' \in Recopied(opened)
        /\ place' = IF opened.document = None THEN place
                    ELSE [place EXCEPT ![opened.document.file] = opened.page]
        /\ leftover' = IF opened.document # None \/ ~HasDocument THEN leftover
                       ELSE IF zathura.surface /\ zathura.document.file = zathura.monitor
                            THEN "drawn" ELSE "blank"
        /\ idle' = idle \o Asks(closed, zathura.monitor, closed.password)
        /\ history' = SaveFileinfo(zathura)
        /\ UNCHANGED <<disk, dialog>>

ReloadKey == Reload /\ UNCHANGED notice

MonitorEvent == notice /\ notice' = FALSE /\ Reload

-----------------------------------------------------------------------------
(***************************************************************************)
(* The password dialog: there is one inputbar, the last question is in it. *)
(***************************************************************************)
ShowDialog ==
    /\ idle # <<>> /\ Head(idle).kind = "ask"
    /\ dialog' = Head(idle).file
    /\ idle' = Tail(idle)
    /\ UNCHANGED <<disk, zathura, history, notice, place, leftover>>

\* cb_password_dialog: when the document does not open it asks again, besides
\* what document_open asks.  NoKey stands for an empty or a wrong input.
AnswerDialog(key) ==
    /\ dialog # None
    /\ dialog' = None
    /\ LET again == <<[kind |-> "ask", file |-> dialog]>> IN
       IF key = NoKey
       THEN idle' = idle \o again /\ UNCHANGED <<disk, zathura, notice, place, leftover>>
       ELSE /\ Settle(DocumentOpen(zathura, dialog, key, Unspecified, history[dialog]))
            /\ idle' = idle \o Asks(zathura, dialog, key)
                            \o (IF Opens(zathura, dialog, key) THEN <<>> ELSE again)
    /\ UNCHANGED history

CancelDialog ==
    /\ dialog # None
    /\ dialog' = None
    /\ UNCHANGED <<disk, zathura, history, notice, idle, place, leftover>>

-----------------------------------------------------------------------------
(***************************************************************************)
(* Reading.                                                                *)
(***************************************************************************)
MovedTo(page, surface, predecessor) ==
    /\ zathura' = [zathura EXCEPT !.page = page, !.surface = surface,
                                  !.predecessor = predecessor]
    /\ place' = [place EXCEPT ![zathura.document.file] = page]
    /\ UNCHANGED <<disk, notice, leftover>>

\* The reader scrolls: cb_view_vadjustment_value_changed.  The widget of the
\* new page may have a surface or not.
Scroll(page, surface) ==
    /\ HasDocument /\ page \in Pages
    /\ MovedTo(page, surface, zathura.predecessor)
    /\ UNCHANGED <<history, idle, dialog>>

\* page_set refreshes the view, and cb_refresh_view drops the predecessor once
\* the current page can be shown.
GotoPage(page, surface) ==
    /\ HasDocument /\ page \in Pages
    /\ MovedTo(page, surface, IF surface THEN None ELSE zathura.predecessor)
    /\ UNCHANGED <<history, idle, dialog>>

\* The surface of the current page arrives.
Drawn ==
    /\ HasDocument /\ ~zathura.surface
    /\ zathura' = [zathura EXCEPT !.surface = TRUE]
    /\ UNCHANGED <<disk, history, notice, idle, dialog, place, leftover>>

\* cb_refresh_view, for any other reason.  There is no page past the last.
RefreshView ==
    /\ HasDocument /\ zathura.page \in Pages /\ zathura.surface
    /\ zathura.predecessor # None
    /\ zathura' = [zathura EXCEPT !.predecessor = None]
    /\ UNCHANGED <<disk, history, notice, idle, dialog, place, leftover>>

\* HighlightRects makes an array of the document's number of pages ...
RequestHighlight(page) ==
    /\ HasDocument /\ page \in Pages
    /\ idle' = Append(idle, [kind |-> "rects", pages |-> zathura.document.pages, page |-> page])
    /\ UNCHANGED <<disk, zathura, history, notice, dialog, place, leftover>>

\* ... and the callback reads it for the pages of the document there is then.
\* A page or an array that does not fit it moves the view anywhere or nowhere.
ShowHighlight ==
    /\ idle # <<>> /\ Head(idle).kind = "rects"
    /\ idle' = Tail(idle)
    /\ LET r == Head(idle) IN
       \/ /\ ~HasDocument
          /\ UNCHANGED <<disk, zathura, notice, place, leftover>>
       \/ /\ HasDocument
          /\ \E page \in IF zathura.document.pages <= r.pages /\ r.page \in Pages
                         THEN {r.page} ELSE Pages \cup {zathura.page},
                surface \in BOOLEAN :
                MovedTo(page, surface, IF surface THEN None ELSE zathura.predecessor)
    /\ UNCHANGED <<history, dialog>>

-----------------------------------------------------------------------------
(***************************************************************************)
(* Other processes write a file: it is truncated or replaced, which glib   *)
(* may report (CREATED), and complete again, which it does report          *)
(* (CHANGES_DONE_HINT).                                                    *)
(***************************************************************************)
Reports(file) == zathura.monitor = file

StartWriting(file) ==
    /\ disk[file].whole /\ disk[file].gen < MaxWrites
    /\ disk' = [disk EXCEPT ![file].whole = FALSE]
    /\ \E created \in BOOLEAN : notice' = (notice \/ (created /\ Reports(file)))
    /\ UNCHANGED <<zathura, history, idle, dialog, place, leftover>>

\* Mutant: the report that the file is complete is lost.
FinishUnreported(file, pages, key) ==
    /\ ~disk[file].whole
    /\ disk' = [disk EXCEPT ![file] = [gen |-> @.gen + 1, pages |-> pages, key |-> key,
                                       whole |-> TRUE]]
    /\ UNCHANGED <<zathura, history, notice, idle, dialog, place, leftover>>

FinishWriting(file, pages, key) ==
    /\ ~disk[file].whole
    /\ disk' = [disk EXCEPT ![file] = [gen |-> @.gen + 1, pages |-> pages, key |-> key,
                                       whole |-> TRUE]]
    /\ notice' = (notice \/ Reports(file))
    /\ UNCHANGED <<zathura, history, idle, dialog, place, leftover>>

External ==
    \E file \in Written :
        \/ StartWriting(file)
        \/ \E pages \in PageCounts, key \in Keys \cup {NoKey} : FinishWriting(file, pages, key)

\* What may add an idle callback: bounded by MaxIdle.
Posting ==
    /\ Len(idle) < MaxIdle
    /\ \/ \E file \in Files, key \in Keys \cup {NoKey} :
              \/ CmdOpen(file, key)
              \/ \E number \in PageArguments : HandleOpenDocument(file, key, number)
       \/ \E file \in Files : ChooseFile(file) \/ PickFile(file)
       \/ ReloadKey
       \/ \E key \in Keys \cup {NoKey} : AnswerDialog(key)
       \/ \E page \in PageIds : RequestHighlight(page)

User ==
    \/ Posting
    \/ Close
    \/ CancelDialog
    \/ \E page \in PageIds, surface \in BOOLEAN : Scroll(page, surface) \/ GotoPage(page, surface)

MainLoop == OpenIdle \/ MonitorEvent \/ ShowDialog \/ ShowHighlight \/ Drawn \/ RefreshView

Next == External \/ User \/ MainLoop

Spec == Init /\ [][Next]_vars

\* The main loop dispatches what is pending.
FairSpec == Spec /\ WF_vars(MonitorEvent) /\ WF_vars(OpenIdle \/ ShowDialog \/ ShowHighlight)

-----------------------------------------------------------------------------
(***************************************************************************)
(* Properties.                                                             *)
(***************************************************************************)

\* The password a document was opened with is kept next to the monitor, for the
\* reload, until a reload has copied it from memory it had just freed.
PasswordKept ==
    zathura.monitor = zathura.document.file /\ zathura.document.key # NoKey
        => zathura.password \in {zathura.document.key, Garbled}

\* Every open document is watched, and by a monitor of its own file, unless a
\* reload failed and left its monitor: document_open makes one only if there
\* is none, and :open closes nothing when no document is open.  Its password is
\* with the monitor, or what the last reload made of it.
WatchesItsFile ==
    HasDocument => /\ zathura.monitor # None
                   /\ zathura.monitor = zathura.document.file \/ leftover # "no"
                   /\ PasswordKept

\* A document kept to be drawn in place of another is one of the file that is
\* watched, and is not kept longer than the watch: document_close frees it when
\* it is for good.
PredecessorIsWatched ==
    zathura.predecessor # None =>
        zathura.monitor # None /\ (zathura.predecessor.doc.file = zathura.monitor \/ leftover # "no")

\* What the database has of a file that is not open is the page it was shown at
\* last, through reloads, failures and everything else that closes it.
HistoryIsLast ==
    \A f \in Files :
        ~(HasDocument /\ zathura.document.file = f) => history[f] = place[f]

\* A reload comes back to the page the file was shown at, however many reloads
\* failed before it, if the document was on screen when the first of them
\* closed it, unless the file no longer has that page; or to the first page if
\* "open-first-page" is set.
PlaceKept ==
    [][ /\ zathura'.document # None
        /\ IF HasDocument THEN zathura.document.file = zathura.monitor ELSE leftover = "drawn"
        /\ place[zathura.monitor] < zathura'.document.pages
        /\ ReloadKey \/ MonitorEvent
        => zathura'.page = IF OpenFirstPage THEN 0 ELSE place[zathura.monitor] ]_vars

\* The watched file can be read, with the password there is, but what is shown
\* is not what is in it.
Behind ==
    LET f == zathura.monitor
    IN  /\ f # None /\ Reads(f) /\ KeyFits(f, zathura.password)
        /\ HasDocument =>
              zathura.document.file = f /\ zathura.document.gen # disk[f].gen

\* The window follows the file: a change is shown, also when the file could not
\* be opened for a while, because the monitor outlives the failed reload.  An
\* encrypted file is followed as long as its password is left intact by the
\* reloads: after that the reader is asked for it.
FollowsFile == Behind ~> ~Behind

=============================================================================
