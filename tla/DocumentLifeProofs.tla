------------------------- MODULE DocumentLifeProofs -------------------------
(***************************************************************************)
(* Proofs about DocumentLife, for any files, passwords and writes: an open *)
(* document is watched and can be reloaded, what is kept of an earlier one *)
(* belongs to the watch, the database has the page each file was left at,  *)
(* and a reload comes back to the page.  That the window comes to follow   *)
(* the file (FollowsFile) is left to TLC: it needs fairness.               *)
(***************************************************************************)
EXTENDS DocumentLife, SequenceTheorems, TLAPS

\* The watch of a window z whose last reload left l.  Without a document it can
\* only be what a failed reload left.
Watching(z, l) ==
    /\ z.document # None =>
         /\ z.monitor # None
         /\ z.monitor = z.document.file \/ l # "no"
         /\ z.document.key # NoKey => z.password \in {z.document.key, Garbled}
    /\ z.predecessor # None =>
         z.monitor # None /\ (z.predecessor.doc.file = z.monitor \/ l # "no")
    /\ z.document = None /\ z.monitor # None => l # "no"

\* The page of a document is where its file was shown last.
PlaceIsPage == HasDocument => place[zathura.document.file] = zathura.page

LifeInv == TypeOK /\ Watching(zathura, leftover) /\ PlaceIsPage /\ HistoryIsLast

-----------------------------------------------------------------------------
(***************************************************************************)
(* document_close and document_open.                                       *)
(***************************************************************************)

\* Pages and page counts are small numbers.
LEMMA PagesFit ==
    /\ MaxPages \in PageCounts /\ MaxPages \in Nat
    /\ \A n \in PageCounts : n \in Nat /\ n > 0 /\ n <= MaxPages /\ 0 .. n \subseteq PageIds
    /\ 0 \in PageIds /\ PageIds \subseteq Int
<1>1. MaxPages \in PageCounts /\ \A m \in PageCounts : m <= MaxPages
  BY CountsAssumption DEF MaxPages
<1>2. \A n \in PageCounts : n \in Nat /\ n > 0
  <2>1. PageCounts \subseteq Nat \ {0}
    BY CountsAssumption
  <2> QED BY <2>1
<1> QED BY <1>1, <1>2 DEF PageIds

\* NULL is no document and no predecessor.
LEMMA NoneIsNoRecord == \A d \in Documents \cup Predecessors \cup Files : d # None
  BY NoneAssumption

\* document_close leaves a window without a document.
LEMMA CloseIsWindow ==
    ASSUME NEW z \in Windows, NEW keep \in BOOLEAN
    PROVE  /\ DocumentClose(z, keep) \in Windows
           /\ DocumentClose(z, keep).document = None
<1>1. CASE z.document = None
  BY <1>1 DEF DocumentClose
<1>2. CASE z.document # None
  <2>1. z.document \in Documents /\ z.page \in PageIds /\ 0 \in PageIds
    BY <1>2, PagesFit DEF Windows
  <2>2. [doc |-> z.document, page |-> z.page] \in Predecessors
    BY <2>1 DEF Predecessors
  <2> QED BY <1>2, <2>1, <2>2 DEF DocumentClose, Windows
<1> QED BY <1>1, <1>2

\* A watch as Settle leaves it.
StaysWatched(z, l) == z \in Windows /\ Watching(z, IF z.monitor = None THEN "no" ELSE l)

\* A close for good takes the watch with it.
LEMMA CloseKeepsWatch ==
    ASSUME NEW z \in Windows, NEW l, Watching(z, l)
    PROVE  StaysWatched(DocumentClose(z, FALSE), l)
<1> USE CloseIsWindow DEF StaysWatched
<1>1. CASE z.document = None
  BY <1>1 DEF DocumentClose, Watching
<1>2. CASE z.document # None
  <2>1. /\ DocumentClose(z, FALSE).document = None /\ DocumentClose(z, FALSE).monitor = None
        /\ DocumentClose(z, FALSE).predecessor = None
    BY <1>2 DEF DocumentClose, Windows
  <2> QED BY <2>1 DEF Watching
<1> QED BY <1>1, <1>2

\* Whatever page is asked for, the document opens at one it may have.
LEMMA LandingIsAPage ==
    ASSUME NEW number \in Int, NEW pages \in PageCounts
    PROVE  Landing(number, pages) \in PageIds
<1>1. pages \in Nat /\ 0 .. pages \subseteq PageIds /\ 0 \in PageIds
  BY PagesFit
<1>2. Landing(number, pages) \in 0 .. pages
  BY <1>1 DEF Landing
<1> QED BY <1>1, <1>2

\* What becomes of the window z when the file opens.
Opened(o, z, file) ==
    /\ o \in Windows /\ o.document \in Documents /\ o.document.file = file
    /\ o.monitor = IF z.monitor = None THEN file ELSE z.monitor
    /\ o.document.key # NoKey => o.password = o.document.key
    /\ o.predecessor = z.predecessor

\* document_open, when the file can be read and the password fits.
LEMMA OpenProperties ==
    ASSUME TypeOK, NEW z \in Windows, z.document = None, NEW file \in Files,
           NEW key \in Keys \cup {NoKey, Garbled}, NEW number \in Int, NEW known \in PageIds,
           Opens(z, file, key)
    PROVE  LET o == DocumentOpen(z, file, key, number, known)
           IN  /\ Opened(o, z, file)
               /\ o.page = IF OpenFirstPage THEN 0
                           ELSE Landing(IF number = Unspecified THEN known ELSE number,
                                        o.document.pages)
<1> DEFINE d  == disk[file]
           doc == [file |-> file, gen |-> d.gen, pages |-> d.pages, key |-> d.key]
           w  == Watched(z, file, key)
           pg == IF OpenFirstPage THEN 0
                 ELSE Landing(IF number = Unspecified THEN known ELSE number, d.pages)
<1>1. d \in Versions
  BY DEF TypeOK
<1>2. d.gen \in 0 .. MaxWrites /\ d.pages \in PageCounts /\ d.key \in Keys \cup {NoKey}
  BY <1>1 DEF Versions
<1>3. doc \in Documents
  BY <1>2 DEF Documents
<1>4. pg \in PageIds
  BY <1>2, PagesFit, LandingIsAPage
<1>5. d.key = NoKey \/ d.key = key
  BY DEF Opens, KeyFits
<1>6. /\ w = [document |-> z.document, page |-> z.page, surface |-> z.surface,
              predecessor |-> z.predecessor,
              monitor |-> IF z.monitor = None THEN file ELSE z.monitor,
              password |-> IF key # NoKey THEN key ELSE z.password]
  <2>1. z = [document |-> z.document, page |-> z.page, surface |-> z.surface,
             predecessor |-> z.predecessor, monitor |-> z.monitor, password |-> z.password]
    BY DEF Windows
  <2> DEFINE m == IF z.monitor = None THEN file ELSE z.monitor
             k == IF key # NoKey THEN key ELSE z.password
  <2>2. w = [z EXCEPT !.monitor = m, !.password = k]
    BY DEF Watched
  <2> HIDE DEF m, k, w
  <2>3. w = [document |-> z.document, page |-> z.page, surface |-> z.surface,
             predecessor |-> z.predecessor, monitor |-> m, password |-> k]
    BY <2>1, <2>2
  <2> QED BY <2>3 DEF m, k
<1> HIDE DEF d, w, pg
<1>7. DocumentOpen(z, file, key, number, known) = [w EXCEPT !.document = doc, !.page = pg]
  BY DEF DocumentOpen, d, w, pg
<1>8. DocumentOpen(z, file, key, number, known) =
        [document |-> doc, page |-> pg, surface |-> z.surface,
         predecessor |-> z.predecessor,
         monitor |-> IF z.monitor = None THEN file ELSE z.monitor,
         password |-> IF key # NoKey THEN key ELSE z.password]
  BY <1>6, <1>7
<1>9. doc.key = d.key /\ doc.file = file /\ doc.pages = d.pages
  OBVIOUS
<1> HIDE DEF doc
<1>10. pg = IF OpenFirstPage THEN 0
            ELSE Landing(IF number = Unspecified THEN known ELSE number, doc.pages)
  BY <1>9 DEF pg
<1> DEFINE o == DocumentOpen(z, file, key, number, known)
<1>11. Opened(o, z, file)
  BY <1>3, <1>4, <1>5, <1>8, <1>9 DEF Windows, Opened
<1>12. o.page = pg /\ o.document = doc
  BY <1>8
<1> QED BY <1>10, <1>11, <1>12

\* An open leaves the window watched, whether it succeeds or not.
LEMMA OpenKeepsWatch ==
    ASSUME TypeOK, NEW z, NEW l, StaysWatched(z, l), NEW file \in Files,
           NEW key \in Keys \cup {NoKey, Garbled}, NEW number \in Int, NEW known \in PageIds
    PROVE  StaysWatched(DocumentOpen(z, file, key, number, known), l)
<1> DEFINE o == DocumentOpen(z, file, key, number, known)
<1>0. z \in Windows
  BY DEF StaysWatched
<1>1. CASE ~Opens(z, file, key)
  BY <1>1 DEF DocumentOpen
<1>2. CASE Opens(z, file, key)
  <2>0. z.document = None
    BY <1>2 DEF Opens
  <2>1. Opened(o, z, file)
    BY <1>0, <1>2, <2>0, OpenProperties
  <2> HIDE DEF o
  <2>2. o.monitor # None /\ o.document # None
    BY <2>1, NoneIsNoRecord DEF Opened
  <2>3. Watching(o, l)
    BY <2>0, <2>1, <2>2 DEF Opened, Watching, StaysWatched
  <2> QED BY <2>1, <2>2, <2>3 DEF o, Opened, StaysWatched
<1> QED BY <1>1, <1>2

\* Copying the password after it was freed changes nothing but the password.
LEMMA RecopiedProperties ==
    ASSUME NEW z \in Windows, NEW o \in Recopied(z)
    PROVE  /\ o \in Windows /\ o.document = z.document /\ o.page = z.page
           /\ o.monitor = z.monitor /\ o.predecessor = z.predecessor
           /\ o.password \in {z.password, Garbled}
           /\ z.document = None => o = z
<1>1. CASE o = z
  BY <1>1
<1>2. CASE o # z
  <2>1. o = [z EXCEPT !.password = Garbled] /\ z.document # None
    BY <1>2 DEF Recopied
  <2> QED BY <2>1 DEF Windows
<1> QED BY <1>1, <1>2

-----------------------------------------------------------------------------
(***************************************************************************)
(* Steps.                                                                  *)
(***************************************************************************)

\* What save_fileinfo_to_db leaves is right for every file once the document is
\* closed, and for every other file while it is open.
LEMMA SaveProperties ==
    ASSUME LifeInv
    PROVE  /\ SaveFileinfo(zathura) \in [Files -> PageIds]
           /\ \A f \in Files : SaveFileinfo(zathura)[f] = place[f]
<1> USE DEF LifeInv, TypeOK
<1>1. CASE zathura.document = None
  BY <1>1 DEF SaveFileinfo, HistoryIsLast, HasDocument
<1>2. CASE zathura.document # None
  <2>1. zathura.document \in Documents /\ zathura.page \in PageIds
    BY <1>2 DEF Windows
  <2>2. zathura.document.file \in Files
    BY <2>1 DEF Documents
  <2> QED BY <1>2, <2>1, <2>2 DEF SaveFileinfo, HistoryIsLast, PlaceIsPage, HasDocument
<1> QED BY <1>1, <1>2

\* The window's next state and the pages follow from the watch that it keeps and
\* from what is in the database.
LEMMA SettleProperties ==
    ASSUME LifeInv, NEW z, StaysWatched(z, leftover), Settle(z),
           history' \in [Files -> PageIds],
           \A f \in Files : (z.document = None \/ z.document.file # f) => history'[f] = place[f],
           idle' \in Seq(Callbacks), dialog' \in Files \cup {None}
    PROVE  LifeInv'
<1> USE DEF LifeInv, TypeOK
<1>1. z \in Windows /\ zathura' = z
  BY DEF StaysWatched, Settle
<1>2. CASE z.document = None
  <2>1. place' = place
    BY <1>2 DEF Settle
  <2> QED BY <1>1, <1>2, <2>1 DEF Settle, NoticeOf, StaysWatched, HistoryIsLast, PlaceIsPage, HasDocument
<1>3. CASE z.document # None
  <2>1. z.document \in Documents /\ z.page \in PageIds
    BY <1>1, <1>3 DEF Windows
  <2>2. z.document.file \in Files
    BY <2>1 DEF Documents
  <2>3. place' = [place EXCEPT ![z.document.file] = z.page]
    BY <1>3 DEF Settle
  <2>4. place' \in [Files -> PageIds] /\ place'[z.document.file] = z.page
    BY <2>1, <2>2, <2>3
  <2>5. \A f \in Files : f # z.document.file => history'[f] = place'[f]
    BY <2>2, <2>3
  <2> QED BY <1>1, <1>3, <2>4, <2>5
          DEF Settle, NoticeOf, StaysWatched, HistoryIsLast, PlaceIsPage, HasDocument
<1> QED BY <1>2, <1>3

\* A question that an open leaves behind.
LEMMA AsksProperties ==
    ASSUME NEW z, NEW file \in Files, NEW key
    PROVE  Asks(z, file, key) \in Seq(Callbacks)
<1>1. [kind |-> "ask", file |-> file] \in Callbacks
  BY DEF Callbacks
<1>2. \A c \in Callbacks : <<c>> \in Seq(Callbacks)
  OBVIOUS
<1>3. <<>> \in Seq(Callbacks)
  OBVIOUS
<1> QED BY <1>1, <1>2, <1>3 DEF Asks

\* The first callback is one of its kind.
LEMMA HeadProperties ==
    ASSUME LifeInv, idle # <<>>
    PROVE  /\ Tail(idle) \in Seq(Callbacks)
           /\ Head(idle).kind = "open" =>
                /\ Head(idle).file \in Files /\ Head(idle).key \in Keys \cup {NoKey}
                /\ Head(idle).page \in Int
           /\ Head(idle).kind = "ask" => Head(idle).file \in Files
           /\ Head(idle).kind = "rects" => Head(idle).page \in PageIds
<1>1. idle \in Seq(Callbacks)
  BY DEF LifeInv, TypeOK
<1>2. Head(idle) \in Callbacks /\ Tail(idle) \in Seq(Callbacks)
  BY <1>1
<1>3. \A c \in Callbacks :
        /\ c.kind = "open" =>
             /\ c.file \in Files /\ c.key \in Keys \cup {NoKey}
             /\ c.page \in PageArguments \cup {Unspecified}
        /\ c.kind = "ask" => c.file \in Files
        /\ c.kind = "rects" => c.page \in PageIds
  BY DEF Callbacks
<1>4. PageArguments \cup {Unspecified} \subseteq Int
  BY ArgumentsAssumption DEF Unspecified
<1> QED BY <1>2, <1>3, <1>4

\* document_close, by any means that is for good.
LEMMA CloseNext ==
    ASSUME LifeInv, Settle(DocumentClose(zathura, FALSE)), history' = SaveFileinfo(zathura),
           idle' \in Seq(Callbacks), dialog' = dialog
    PROVE  LifeInv'
<1>1. StaysWatched(DocumentClose(zathura, FALSE), leftover)
  BY CloseKeepsWatch DEF LifeInv, TypeOK
<1>2. dialog' \in Files \cup {None}
  BY DEF LifeInv, TypeOK
<1> QED BY <1>1, <1>2, SaveProperties, SettleProperties

\* document_open in a window whose document, if it had one, has just been closed.
LEMMA OpenNext ==
    ASSUME LifeInv, NEW z, StaysWatched(z, leftover), NEW file \in Files,
           NEW key \in Keys \cup {NoKey}, NEW number \in Int, NEW known \in PageIds,
           Settle(DocumentOpen(z, file, key, number, known)),
           history' \in [Files -> PageIds],
           \A f \in Files : (z.document = None \/ z.document.file # f) => history'[f] = place[f],
           idle' \in Seq(Callbacks), dialog' \in Files \cup {None}
    PROVE  LifeInv'
<1> DEFINE o == DocumentOpen(z, file, key, number, known)
<1>1. StaysWatched(o, leftover)
  BY OpenKeepsWatch DEF LifeInv
<1>2. \A f \in Files : (o.document = None \/ o.document.file # f) => history'[f] = place[f]
  <2>1. CASE Opens(z, file, key)
    BY <2>1 DEF Opens
  <2>2. CASE ~Opens(z, file, key)
    BY <2>2 DEF DocumentOpen
  <2> QED BY <2>1, <2>2
<1> HIDE DEF o
<1>3. Settle(o)
  BY DEF o
<1> QED BY <1>1, <1>2, <1>3, SettleProperties

\* A reload, on a key or an event, whether the file opens again or not.
LEMMA ReloadNext ==
    ASSUME LifeInv, Reload, notice' \in BOOLEAN
    PROVE  LifeInv'
<1> DEFINE closed == DocumentClose(zathura, TRUE)
           file   == zathura.monitor
           opened == DocumentOpen(closed, file, closed.password, ReloadPage, ReloadPage)
<1>1. zathura \in Windows /\ file \in Files /\ file # None /\ zathura' \in Recopied(opened)
  BY DEF LifeInv, TypeOK, Windows, Reload
<1>2. closed \in Windows /\ closed.document = None
  BY <1>1, CloseIsWindow
<1>3. /\ closed.monitor = file
      /\ closed.predecessor # None =>
           closed.predecessor.doc.file = file \/ leftover # "no"
      /\ closed.password \in Keys \cup {NoKey, Garbled}
  <2>1. closed.password \in Keys \cup {NoKey, Garbled}
    BY <1>2 DEF Windows
  <2>2. CASE zathura.document = None
    BY <2>1, <2>2 DEF DocumentClose, LifeInv, Watching
  <2>3. CASE zathura.document # None
    <3>1. closed.monitor = file
      BY <1>1, <2>3 DEF DocumentClose, Windows
    <3>2. CASE zathura.surface
      <4>1. closed.predecessor = [doc |-> zathura.document, page |-> zathura.page]
        BY <1>1, <2>3, <3>2 DEF DocumentClose, Windows
      <4> HIDE DEF closed
      <4> QED BY <2>1, <2>3, <3>1, <4>1 DEF LifeInv, Watching
    <3>3. CASE ~zathura.surface
      <4>1. closed.predecessor = zathura.predecessor
        BY <1>1, <2>3, <3>3 DEF DocumentClose, Windows
      <4> HIDE DEF closed
      <4> QED BY <2>1, <2>3, <3>1, <4>1 DEF LifeInv, Watching
    <3> QED BY <3>2, <3>3
  <2> QED BY <2>2, <2>3
<1>4. ReloadPage \in PageIds /\ ReloadPage \in Int
  <2>1. zathura.predecessor \in Predecessors \cup {None} /\ zathura.page \in PageIds
    BY <1>1 DEF Windows
  <2>2. \A d \in Predecessors : d.page \in PageIds
    BY DEF Predecessors
  <2> QED BY <2>1, <2>2, PagesFit DEF ReloadPage
<1>5. /\ history' = SaveFileinfo(zathura) /\ UNCHANGED <<disk, dialog>>
      /\ idle' = idle \o Asks(closed, file, closed.password)
      /\ place' = IF opened.document = None THEN place
                  ELSE [place EXCEPT ![opened.document.file] = opened.page]
      /\ leftover' = IF opened.document # None \/ ~HasDocument THEN leftover
                     ELSE IF zathura.surface /\ zathura.document.file = zathura.monitor
                          THEN "drawn" ELSE "blank"
  BY DEF Reload
<1>6. idle' \in Seq(Callbacks)
  <2> HIDE DEF closed, file
  <2>1. idle \in Seq(Callbacks) /\ Asks(closed, file, closed.password) \in Seq(Callbacks)
    BY <1>1, AsksProperties DEF LifeInv, TypeOK
  <2> QED BY <1>5, <2>1, ConcatProperties
<1> HIDE DEF closed, file
<1>7. CASE Opens(closed, file, closed.password)
  <2>1. Opened(opened, closed, file)
    BY <1>1, <1>2, <1>3, <1>4, <1>7, OpenProperties DEF LifeInv
  <2> HIDE DEF opened
  <2>2. /\ opened \in Windows /\ opened.document \in Documents /\ opened.document # None
        /\ opened.document.file = file /\ opened.monitor = file
    BY <1>1, <1>3, <2>1, NoneIsNoRecord DEF Opened
  <2>3. leftover' = leftover
    BY <1>5, <2>2
  <2>7. /\ zathura' \in Windows /\ zathura'.document = opened.document
        /\ zathura'.page = opened.page /\ zathura'.monitor = opened.monitor
        /\ zathura'.predecessor = opened.predecessor
        /\ zathura'.password \in {opened.password, Garbled}
    BY <1>1, <2>2, RecopiedProperties
  <2>4. Watching(zathura', leftover')
    BY <1>1, <1>3, <2>1, <2>2, <2>3, <2>7 DEF Opened, Watching
  <2>5. place' = [place EXCEPT ![file] = opened.page] /\ opened.page \in PageIds
    BY <1>5, <2>2 DEF Windows
  <2>6. place' \in [Files -> PageIds] /\ PlaceIsPage' /\ HistoryIsLast'
    BY <1>1, <1>5, <2>2, <2>5, <2>7, SaveProperties
       DEF LifeInv, TypeOK, PlaceIsPage, HistoryIsLast, HasDocument
  <2> QED BY <1>1, <1>5, <1>6, <2>2, <2>3, <2>4, <2>6, <2>7, SaveProperties DEF LifeInv, TypeOK
<1>8. CASE ~Opens(closed, file, closed.password)
  <2>1. opened = closed
    BY <1>8 DEF DocumentOpen
  <2> HIDE DEF opened
  <2>2. place' = place /\ zathura' = closed
    BY <1>1, <1>2, <1>5, <2>1, RecopiedProperties
  <2>3. leftover' # "no" /\ leftover' \in {"no", "drawn", "blank"}
    <3>1. CASE HasDocument
      BY <1>2, <1>5, <2>1, <3>1
    <3>2. CASE ~HasDocument
      BY <1>1, <1>5, <3>2 DEF HasDocument, LifeInv, TypeOK, Watching, file
    <3> QED BY <3>1, <3>2
  <2>4. Watching(zathura', leftover')
    BY <1>1, <1>2, <1>3, <2>2, <2>3 DEF Watching
  <2>5. PlaceIsPage' /\ HistoryIsLast'
    BY <1>2, <1>5, <2>2, SaveProperties DEF PlaceIsPage, HistoryIsLast, HasDocument
  <2> QED BY <1>2, <1>5, <1>6, <2>2, <2>3, <2>4, <2>5, SaveProperties DEF LifeInv, TypeOK
<1> QED BY <1>7, <1>8

\* The reader moves; the predecessor may go.
LEMMA MoveNext ==
    ASSUME LifeInv, HasDocument, NEW page \in PageIds, NEW surface \in BOOLEAN,
           NEW kept \in {None, zathura.predecessor}, MovedTo(page, surface, kept),
           history' = history, idle' \in Seq(Callbacks), dialog' = dialog
    PROVE  LifeInv'
<1>1. zathura \in Windows /\ zathura.document \in Documents
  BY DEF LifeInv, TypeOK, Windows, HasDocument
<1>2. zathura.document.file \in Files
  BY <1>1 DEF Documents
<1>3. /\ zathura' \in Windows /\ zathura'.document = zathura.document
      /\ zathura'.page = page /\ zathura'.predecessor = kept
      /\ zathura'.monitor = zathura.monitor /\ zathura'.password = zathura.password
  BY <1>1 DEF MovedTo, Windows
<1>4. Watching(zathura', leftover')
  BY <1>3 DEF LifeInv, Watching, MovedTo
<1>5. place' = [place EXCEPT ![zathura.document.file] = page] /\ UNCHANGED <<disk, notice, leftover>>
  BY DEF MovedTo
<1> QED BY <1>1, <1>2, <1>3, <1>4, <1>5
        DEF LifeInv, TypeOK, PlaceIsPage, HistoryIsLast, HasDocument

-----------------------------------------------------------------------------
(***************************************************************************)
(* The invariant.                                                          *)
(***************************************************************************)

\* A file that is being written has not been written as often as it may be.
Writing == \A f \in Files : ~disk[f].whole => disk[f].gen < MaxWrites

Inv == LifeInv /\ Writing

\* The bookkeeping of other processes' writes.
LEMMA WritingNext ==
    ASSUME Inv, External
    PROVE  /\ disk' \in [Files -> Versions] /\ Writing'
           /\ notice' \in BOOLEAN
           /\ UNCHANGED <<zathura, history, idle, dialog, place, leftover>>
<1>1. disk \in [Files -> Versions] /\ notice \in BOOLEAN /\ Writing
  BY DEF Inv, LifeInv, TypeOK
<1>2. PICK file \in Written :
        \/ StartWriting(file)
        \/ \E pages \in PageCounts, key \in Keys \cup {NoKey} : FinishWriting(file, pages, key)
  BY DEF External
<1>3. file \in Files /\ disk[file] \in Versions
  BY <1>1, <1>2, FilesAssumption
<1>4. MaxWrites \in Nat
  BY CountsAssumption
<1>5. CASE StartWriting(file)
  <2> DEFINE v == [disk[file] EXCEPT !.whole = FALSE]
  <2>1. v \in Versions /\ v.gen = disk[file].gen /\ v.gen < MaxWrites
    BY <1>3, <1>5 DEF Versions, StartWriting
  <2>2. disk' = [disk EXCEPT ![file] = v]
    BY <1>3, <1>5 DEF StartWriting
  <2>3. notice' \in BOOLEAN /\ UNCHANGED <<zathura, history, idle, dialog, place, leftover>>
    BY <1>1, <1>5 DEF StartWriting, Reports
  <2> HIDE DEF v
  <2> QED BY <1>1, <1>3, <2>1, <2>2, <2>3 DEF Writing
<1>6. ASSUME NEW pages \in PageCounts, NEW key \in Keys \cup {NoKey},
             FinishWriting(file, pages, key)
      PROVE  /\ disk' \in [Files -> Versions] /\ Writing'
             /\ notice' \in BOOLEAN
             /\ UNCHANGED <<zathura, history, idle, dialog, place, leftover>>
  <2> DEFINE v == [gen |-> disk[file].gen + 1, pages |-> pages, key |-> key, whole |-> TRUE]
  <2>1. disk[file].gen + 1 \in 0 .. MaxWrites
    BY <1>1, <1>3, <1>4, <1>6 DEF Writing, FinishWriting, Versions
  <2>2. v \in Versions /\ v.whole
    BY <2>1 DEF Versions
  <2>3. disk' = [disk EXCEPT ![file] = v]
    BY <1>3, <1>6 DEF FinishWriting
  <2>4. notice' \in BOOLEAN /\ UNCHANGED <<zathura, history, idle, dialog, place, leftover>>
    BY <1>1, <1>6 DEF FinishWriting, Reports
  <2> HIDE DEF v
  <2> QED BY <1>1, <1>3, <2>2, <2>3, <2>4 DEF Writing
<1> QED BY <1>2, <1>5, <1>6

\* There is no document at first.
LEMMA InvInit == Init => Inv
<1> SUFFICES ASSUME Init
             PROVE  Inv
  OBVIOUS
<1>1. 0 \in PageIds /\ 0 \in 0 .. MaxWrites
  BY PagesFit, CountsAssumption
<1>2. disk \in [Files -> Versions] /\ \A f \in Files : disk[f].whole
  BY <1>1, FilesAssumption DEF Init, Versions
<1>3. zathura \in Windows /\ zathura.document = None /\ zathura.monitor = None
  BY <1>1 DEF Init, Windows
<1>4. zathura.predecessor = None
  BY DEF Init
<1>5. idle \in Seq(Callbacks)
  BY DEF Init
<1>6. TypeOK
  BY <1>1, <1>2, <1>3, <1>5 DEF Init, TypeOK
<1>7. HistoryIsLast /\ PlaceIsPage
  BY <1>3 DEF Init, HistoryIsLast, PlaceIsPage, HasDocument
<1> QED BY <1>2, <1>3, <1>4, <1>6, <1>7 DEF Inv, LifeInv, Writing, Watching

\* Every callback, request and write keeps it.
LEMMA InvNext == Inv /\ [Next]_vars => Inv'
<1> SUFFICES ASSUME Inv, [Next]_vars
             PROVE  Inv'
  OBVIOUS
<1>0. /\ LifeInv /\ Writing /\ idle \in Seq(Callbacks) /\ dialog \in Files \cup {None}
      /\ zathura \in Windows /\ Watching(zathura, leftover)
      /\ history \in [Files -> PageIds] /\ notice \in BOOLEAN
      /\ \A f \in Files : history[f] \in PageIds
  BY DEF Inv, LifeInv, TypeOK
<1>1. StaysWatched(zathura, leftover) /\ StaysWatched(DocumentClose(zathura, FALSE), leftover)
  BY <1>0, CloseKeepsWatch DEF StaysWatched, Watching
<1>2. /\ SaveFileinfo(zathura) \in [Files -> PageIds]
      /\ \A f \in Files : SaveFileinfo(zathura)[f] = place[f]
      /\ \A f \in Files : SaveFileinfo(zathura)[f] \in PageIds
  BY <1>0, SaveProperties
<1>3. \A f \in Files : (zathura.document = None \/ zathura.document.file # f) => history[f] = place[f]
  BY <1>0 DEF LifeInv, HistoryIsLast, HasDocument
<1>4. Unspecified \in Int /\ 0 \in Int /\ NoKey \in Keys \cup {NoKey}
  BY DEF Unspecified
<1>5. ASSUME LifeInv', disk' = disk
      PROVE  Inv'
  BY <1>0, <1>5 DEF Inv, Writing
<1>6. \A c \in Callbacks : Append(idle, c) \in Seq(Callbacks)
  BY <1>0, AppendProperties
<1>7. CASE External
  <2>1. /\ disk' \in [Files -> Versions] /\ Writing' /\ notice' \in BOOLEAN
        /\ UNCHANGED <<zathura, history, idle, dialog, place, leftover>>
    BY <1>7, WritingNext
  <2> QED BY <2>1 DEF Inv, LifeInv, TypeOK, PlaceIsPage, HistoryIsLast, HasDocument
<1>8. ASSUME NEW file \in Files, NEW key \in Keys \cup {NoKey},
             NEW number \in PageArguments \cup {Unspecified}, RequestOpen(file, key, number)
      PROVE  Inv'
  <2>1. LifeInv'
    <3>1. [kind |-> "open", file |-> file, key |-> key, page |-> number] \in Callbacks
      BY DEF Callbacks
    <3>2. idle' \in Seq(Callbacks)
      BY <1>6, <1>8, <3>1 DEF RequestOpen
    <3> QED BY <1>0, <1>8, <3>2, CloseNext DEF RequestOpen
  <2> QED BY <1>5, <1>8, <2>1 DEF RequestOpen, Settle
<1>9. CASE OpenIdle
  <2> DEFINE r == Head(idle)
  <2>1. /\ idle # <<>> /\ r.kind = "open"
        /\ Settle(DocumentOpen(zathura, r.file, r.key, r.page, history[r.file]))
        /\ idle' = Tail(idle) \o Asks(zathura, r.file, r.key)
        /\ UNCHANGED <<history, dialog>>
    BY <1>9 DEF OpenIdle
  <2>2. /\ Tail(idle) \in Seq(Callbacks) /\ r.file \in Files
        /\ r.key \in Keys \cup {NoKey} /\ r.page \in Int
    BY <1>0, <2>1, HeadProperties
  <2> HIDE DEF r
  <2>3. idle' \in Seq(Callbacks)
    BY <2>1, <2>2, AsksProperties, ConcatProperties
  <2>4. history[r.file] \in PageIds
    BY <1>0, <2>2
  <2>5. LifeInv'
    BY <1>0, <1>1, <1>3, <2>1, <2>2, <2>3, <2>4, OpenNext
  <2> QED BY <1>5, <2>1, <2>5 DEF Settle
<1>10. CASE Close
  BY <1>0, <1>5, <1>10, CloseNext DEF Close, Settle
<1>11. ASSUME NEW file \in Files, NEW number \in {0, Unspecified}, OpenNow(file, number)
       PROVE  Inv'
  <2> DEFINE closed == DocumentClose(zathura, FALSE)
  <2>1. /\ Settle(DocumentOpen(closed, file, NoKey, number, SaveFileinfo(zathura)[file]))
        /\ history' = SaveFileinfo(zathura) /\ dialog' = dialog
        /\ idle' = idle \o Asks(closed, file, NoKey)
    BY <1>11 DEF OpenNow
  <2> HIDE DEF closed
  <2>2. idle' \in Seq(Callbacks)
    BY <1>0, <2>1, AsksProperties, ConcatProperties
  <2>3. StaysWatched(closed, leftover)
    BY <1>1 DEF closed
  <2>4. number \in Int /\ SaveFileinfo(zathura)[file] \in PageIds
    BY <1>2, <1>4
  <2>5. LifeInv'
    BY <1>0, <1>2, <1>4, <2>1, <2>2, <2>3, <2>4, OpenNext
  <2> QED BY <1>5, <2>1, <2>5 DEF Settle
<1>12. CASE ReloadKey
  BY <1>0, <1>5, <1>12, ReloadNext DEF ReloadKey, Reload
<1>13. CASE MonitorEvent
  BY <1>0, <1>5, <1>13, ReloadNext DEF MonitorEvent, Reload
<1>14. CASE ShowDialog
  <2>1. Head(idle).file \in Files /\ Tail(idle) \in Seq(Callbacks)
    BY <1>0, <1>14, HeadProperties DEF ShowDialog
  <2> QED BY <1>5, <1>14, <2>1
          DEF ShowDialog, Inv, LifeInv, TypeOK, PlaceIsPage, HistoryIsLast, HasDocument
<1>15. ASSUME NEW key \in Keys \cup {NoKey}, AnswerDialog(key)
       PROVE  Inv'
  <2> DEFINE again == <<[kind |-> "ask", file |-> dialog]>>
  <2>0. dialog \in Files /\ dialog' = None /\ history' = history
    BY <1>0, <1>15 DEF AnswerDialog
  <2>1. [kind |-> "ask", file |-> dialog] \in Callbacks
    BY <2>0 DEF Callbacks
  <2>2. again \in Seq(Callbacks) /\ <<>> \in Seq(Callbacks)
    BY <2>1
  <2> HIDE DEF again
  <2>3. CASE key = NoKey
    <3>1. idle' = idle \o again /\ UNCHANGED <<disk, zathura, notice, place, leftover>>
      BY <1>15, <2>3 DEF AnswerDialog, again
    <3>2. idle' \in Seq(Callbacks)
      BY <1>0, <2>2, <3>1, ConcatProperties
    <3> QED BY <1>5, <2>0, <3>1, <3>2
            DEF Inv, LifeInv, TypeOK, PlaceIsPage, HistoryIsLast, HasDocument
  <2>4. CASE key # NoKey
    <3> DEFINE tail == IF Opens(zathura, dialog, key) THEN <<>> ELSE again
    <3>1. /\ Settle(DocumentOpen(zathura, dialog, key, Unspecified, history[dialog]))
          /\ idle' = idle \o Asks(zathura, dialog, key) \o tail
      BY <1>15, <2>4 DEF AnswerDialog, again
    <3>2. tail \in Seq(Callbacks)
      BY <2>2
    <3> HIDE DEF tail
    <3>3. idle \o Asks(zathura, dialog, key) \in Seq(Callbacks)
      BY <1>0, <2>0, AsksProperties, ConcatProperties
    <3>4. idle' \in Seq(Callbacks)
      BY <3>1, <3>2, <3>3, ConcatProperties
    <3>5. history[dialog] \in PageIds /\ dialog' \in Files \cup {None}
      BY <1>0, <2>0
    <3>6. LifeInv'
      BY <1>0, <1>1, <1>3, <1>4, <2>0, <3>1, <3>4, <3>5, OpenNext
    <3> QED BY <1>5, <3>1, <3>6 DEF Settle
  <2> QED BY <2>3, <2>4
<1>16. CASE CancelDialog
  BY <1>5, <1>16
     DEF CancelDialog, Inv, LifeInv, TypeOK, PlaceIsPage, HistoryIsLast, HasDocument
<1>17. ASSUME NEW page \in PageIds, NEW surface \in BOOLEAN,
              Scroll(page, surface) \/ GotoPage(page, surface)
       PROVE  Inv'
  <2>1. /\ HasDocument /\ UNCHANGED <<history, idle, dialog>>
        /\ \E p \in {None, zathura.predecessor} : MovedTo(page, surface, p)
    BY <1>17 DEF Scroll, GotoPage
  <2>2. LifeInv' /\ disk' = disk
    BY <1>0, <2>1, MoveNext DEF MovedTo
  <2> QED BY <1>5, <2>2
<1>18. CASE Drawn \/ RefreshView
  <2>1. zathura.document # None /\ UNCHANGED <<disk, history, notice, idle, dialog, place, leftover>>
    BY <1>18 DEF Drawn, RefreshView, HasDocument
  <2>2. \/ zathura' = [zathura EXCEPT !.surface = TRUE]
        \/ zathura' = [zathura EXCEPT !.predecessor = None]
    BY <1>18 DEF Drawn, RefreshView
  <2>3. /\ zathura' \in Windows /\ zathura'.document = zathura.document
        /\ zathura'.page = zathura.page /\ zathura'.monitor = zathura.monitor
        /\ zathura'.password = zathura.password
        /\ zathura'.predecessor \in {None, zathura.predecessor}
    BY <1>0, <2>2 DEF Windows
  <2>4. Watching(zathura', leftover')
    BY <1>0, <2>1, <2>3 DEF Watching
  <2> QED BY <1>5, <2>1, <2>3, <2>4
          DEF Inv, LifeInv, TypeOK, PlaceIsPage, HistoryIsLast, HasDocument
<1>19. ASSUME NEW page \in PageIds, RequestHighlight(page)
       PROVE  Inv'
  <2>1. zathura.document.pages \in PageCounts
    BY <1>0, <1>19 DEF RequestHighlight, HasDocument, Windows, Documents
  <2>2. [kind |-> "rects", pages |-> zathura.document.pages, page |-> page] \in Callbacks
    BY <2>1 DEF Callbacks
  <2>3. idle' \in Seq(Callbacks)
    BY <1>6, <1>19, <2>2 DEF RequestHighlight
  <2> QED BY <1>5, <1>19, <2>3
          DEF RequestHighlight, Inv, LifeInv, TypeOK, PlaceIsPage, HistoryIsLast, HasDocument
<1>20. CASE ShowHighlight
  <2> DEFINE r == Head(idle)
  <2>1. idle # <<>> /\ r.kind = "rects" /\ idle' = Tail(idle) /\ UNCHANGED <<history, dialog>>
    BY <1>20 DEF ShowHighlight
  <2>2. idle' \in Seq(Callbacks) /\ r.page \in PageIds
    BY <1>0, <2>1, HeadProperties
  <2>3. CASE ~HasDocument /\ UNCHANGED <<disk, zathura, notice, place, leftover>>
    BY <1>5, <2>1, <2>2, <2>3
       DEF Inv, LifeInv, TypeOK, PlaceIsPage, HistoryIsLast, HasDocument
  <2>4. ASSUME HasDocument,
               NEW page \in IF zathura.document.pages <= r.pages /\ r.page \in Pages
                            THEN {r.page} ELSE Pages \cup {zathura.page},
               NEW surface \in BOOLEAN,
               MovedTo(page, surface, IF surface THEN None ELSE zathura.predecessor)
        PROVE  Inv'
    <3>1. Pages \subseteq PageIds /\ zathura.page \in PageIds
      <4>1. zathura.document.pages \in PageCounts /\ zathura.page \in PageIds
        BY <1>0, <2>4 DEF HasDocument, Windows, Documents
      <4>2. 0 .. zathura.document.pages \subseteq PageIds /\ zathura.document.pages \in Nat
        BY <4>1, PagesFit
      <4> QED BY <4>1, <4>2 DEF Pages
    <3> HIDE DEF r
    <3>2. page \in PageIds
      BY <2>2, <2>4, <3>1
    <3>3. (IF surface THEN None ELSE zathura.predecessor) \in {None, zathura.predecessor}
      OBVIOUS
    <3>4. LifeInv' /\ disk' = disk
      BY <1>0, <2>1, <2>2, <2>4, <3>2, <3>3, MoveNext DEF MovedTo
    <3> QED BY <1>5, <3>4
  <2> QED BY <1>20, <2>3, <2>4 DEF ShowHighlight
<1>21. CASE UNCHANGED vars
  BY <1>21
     DEF vars, Inv, LifeInv, Writing, TypeOK, PlaceIsPage, HistoryIsLast, HasDocument
<1>22. CASE Posting
  BY <1>8, <1>11, <1>12, <1>15, <1>19, <1>22
     DEF Posting, CmdOpen, HandleOpenDocument, ChooseFile, PickFile
<1> QED BY <1>7, <1>9, <1>10, <1>13, <1>14, <1>16, <1>17, <1>18, <1>20, <1>21, <1>22
        DEF Next, User, MainLoop

-----------------------------------------------------------------------------
(***************************************************************************)
(* The place in the file, over reloads that fail.                          *)
(***************************************************************************)

\* While a document that was on screen cannot be opened again, its predecessor
\* knows the place.
DrawnKept ==
    zathura.document = None /\ leftover = "drawn" =>
        zathura.predecessor # None /\ zathura.predecessor.page = place[zathura.monitor]

\* What Settle makes of a window with a document, without a watch, or as it was.
LEMMA DrawnSettled ==
    ASSUME DrawnKept, NEW z, Settle(z), z.document # None \/ z.monitor = None \/ z = zathura
    PROVE  DrawnKept'
  BY DEF DrawnKept, Settle

\* document_open gives the window a document or leaves it as it is.
LEMMA OpensOrNot ==
    ASSUME TypeOK, NEW z \in Windows, NEW file \in Files,
           NEW key \in Keys \cup {NoKey, Garbled}, NEW number \in Int, NEW known \in PageIds
    PROVE  LET o == DocumentOpen(z, file, key, number, known)
           IN  o = z \/ o.document # None
<1>1. CASE ~Opens(z, file, key)
  BY <1>1 DEF DocumentOpen
<1>2. CASE Opens(z, file, key)
  <2>1. z.document = None
    BY <1>2 DEF Opens
  <2>2. Opened(DocumentOpen(z, file, key, number, known), z, file)
    BY <1>2, <2>1, OpenProperties
  <2> QED BY <2>2, NoneIsNoRecord DEF Opened
<1> QED BY <1>1, <1>2

\* document_close for good takes the watch, if there is anything to close.
LEMMA CloseOrNot ==
    ASSUME NEW z \in Windows
    PROVE  DocumentClose(z, FALSE) = z \/ DocumentClose(z, FALSE).monitor = None
  BY DEF DocumentClose, Windows

\* The page a reload asks for is the place of the watched file.
LEMMA ReloadsAtPlace ==
    ASSUME Inv, DrawnKept, zathura.monitor # None,
           IF HasDocument THEN zathura.document.file = zathura.monitor ELSE leftover = "drawn"
    PROVE  ReloadPage = place[zathura.monitor]
  BY DEF Inv, LifeInv, PlaceIsPage, DrawnKept, ReloadPage, HasDocument

LEMMA LandingIsExact ==
    ASSUME NEW number \in Nat, NEW pages \in Nat, number < pages
    PROVE  Landing(number, pages) = number
  BY DEF Landing

\* A reload that succeeds comes back to the place, one that fails keeps it.
LEMMA ReloadKeepsPlace ==
    ASSUME Inv, DrawnKept, Reload
    PROVE  /\ DrawnKept'
           /\ /\ zathura'.document # None
              /\ IF HasDocument THEN zathura.document.file = zathura.monitor ELSE leftover = "drawn"
              /\ place[zathura.monitor] < zathura'.document.pages
              => zathura'.page = IF OpenFirstPage THEN 0 ELSE place[zathura.monitor]
<1> DEFINE closed == DocumentClose(zathura, TRUE)
           file   == zathura.monitor
           opened == DocumentOpen(closed, file, closed.password, ReloadPage, ReloadPage)
<1>1. /\ zathura \in Windows /\ file \in Files /\ file # None /\ TypeOK
      /\ zathura' \in Recopied(opened)
      /\ place' = IF opened.document = None THEN place
                  ELSE [place EXCEPT ![opened.document.file] = opened.page]
      /\ leftover' = IF opened.document # None \/ ~HasDocument THEN leftover
                     ELSE IF zathura.surface /\ zathura.document.file = zathura.monitor
                          THEN "drawn" ELSE "blank"
  BY DEF Inv, LifeInv, TypeOK, Windows, Reload
<1>2. closed \in Windows /\ closed.document = None
  BY <1>1, CloseIsWindow
<1>3. closed.password \in Keys \cup {NoKey, Garbled}
  BY <1>2 DEF Windows
<1>4. ReloadPage \in PageIds
  <2>1. zathura.predecessor \in Predecessors \cup {None} /\ zathura.page \in PageIds
    BY <1>1 DEF Windows
  <2>2. \A d \in Predecessors : d.page \in PageIds
    BY DEF Predecessors
  <2> QED BY <2>1, <2>2 DEF ReloadPage
<1>5. ReloadPage \in Nat /\ ReloadPage # Unspecified /\ ReloadPage \in Int
  BY <1>4 DEF PageIds, Unspecified
<1>6. CASE ~Opens(closed, file, closed.password)
  <2>1. opened = closed
    BY <1>6 DEF DocumentOpen
  <2>2. zathura' = closed /\ place' = place /\ zathura'.document = None
    BY <1>1, <1>2, <2>1, RecopiedProperties
  <2>3. DrawnKept'
    <3>1. CASE zathura.document = None
      <4>1. closed = zathura
        BY <3>1 DEF DocumentClose
      <4>2. leftover' = leftover
        BY <1>1, <3>1 DEF HasDocument
      <4> QED BY <2>2, <4>1, <4>2 DEF DrawnKept
    <3>2. CASE zathura.document # None
      <4> SUFFICES ASSUME leftover' = "drawn"
                   PROVE  zathura'.predecessor # None
                          /\ zathura'.predecessor.page = place'[zathura'.monitor]
        BY DEF DrawnKept
      <4>1. zathura.surface /\ zathura.document.file = file
        BY <1>1, <1>2, <2>1, <3>2 DEF HasDocument
      <4>2. /\ closed.predecessor = [doc |-> zathura.document, page |-> zathura.page]
            /\ closed.monitor = file
        BY <1>1, <3>2, <4>1 DEF DocumentClose, Windows
      <4>3. closed.predecessor \in Predecessors
        <5>1. zathura.document \in Documents /\ zathura.page \in PageIds
          BY <1>1, <3>2 DEF Windows
        <5> HIDE DEF closed
        <5> QED BY <4>2, <5>1 DEF Predecessors
      <4>4. zathura.page = place[file]
        BY <3>2, <4>1 DEF Inv, LifeInv, PlaceIsPage, HasDocument
      <4> HIDE DEF closed, file
      <4> QED BY <2>2, <4>2, <4>3, <4>4, NoneIsNoRecord
    <3> QED BY <3>1, <3>2
  <2> QED BY <2>2, <2>3
<1>7. CASE Opens(closed, file, closed.password)
  <2>1. /\ Opened(opened, closed, file)
        /\ opened.page = IF OpenFirstPage THEN 0
                         ELSE Landing(ReloadPage, opened.document.pages)
    <3> HIDE DEF closed, file
    <3> QED BY <1>1, <1>2, <1>3, <1>4, <1>5, <1>7, OpenProperties
  <2> HIDE DEF closed, file, opened
  <2>2. opened.document # None /\ opened.document.pages \in Nat /\ opened \in Windows
    <3>1. opened.document \in Documents /\ opened \in Windows
      BY <2>1 DEF Opened
    <3>2. opened.document.pages \in PageCounts
      BY <3>1 DEF Documents
    <3> QED BY <3>1, <3>2, NoneIsNoRecord, PagesFit
  <2>5. zathura'.document = opened.document /\ zathura'.page = opened.page
    BY <1>1, <2>2, RecopiedProperties
  <2>3. DrawnKept'
    BY <2>2, <2>5 DEF DrawnKept
  <2>4. ASSUME IF HasDocument THEN zathura.document.file = zathura.monitor ELSE leftover = "drawn",
               place[zathura.monitor] < opened.document.pages
        PROVE  opened.page = IF OpenFirstPage THEN 0 ELSE place[zathura.monitor]
    <3>1. ReloadPage = place[zathura.monitor]
      BY <1>1, <2>4, ReloadsAtPlace DEF file
    <3> QED BY <1>5, <2>1, <2>2, <2>4, <3>1, LandingIsExact
  <2> QED BY <1>1, <2>3, <2>4, <2>5
<1> QED BY <1>6, <1>7

LEMMA DrawnKeptNext ==
    ASSUME Inv, DrawnKept, [Next]_vars
    PROVE  DrawnKept'
<1>1. /\ TypeOK /\ zathura \in Windows /\ idle \in Seq(Callbacks) /\ dialog \in Files \cup {None}
      /\ \A f \in Files : history[f] \in PageIds
  BY DEF Inv, LifeInv, TypeOK
<1>2. \A f \in Files : SaveFileinfo(zathura)[f] \in PageIds
  BY SaveProperties DEF Inv
<1>3. DocumentClose(zathura, FALSE) \in Windows
  BY <1>1, CloseIsWindow
<1>4. CASE UNCHANGED <<zathura, place, leftover>>
  BY <1>4 DEF DrawnKept
<1>5. CASE Settle(DocumentClose(zathura, FALSE))
  BY <1>1, <1>5, CloseOrNot, DrawnSettled
<1>6. ASSUME NEW z \in {zathura, DocumentClose(zathura, FALSE)}, NEW file \in Files,
             NEW key \in Keys \cup {NoKey}, NEW number \in Int, NEW known \in PageIds,
             Settle(DocumentOpen(z, file, key, number, known))
      PROVE  DrawnKept'
  <2>1. z \in Windows
    BY <1>1, <1>3
  <2>2. z = zathura \/ z.monitor = None
    BY <1>1, CloseOrNot
  <2> DEFINE o == DocumentOpen(z, file, key, number, known)
  <2>3. o = z \/ o.document # None
    BY <1>1, <2>1, OpensOrNot
  <2>4. Settle(o)
    BY <1>6
  <2> HIDE DEF o
  <2> QED BY <2>2, <2>3, <2>4, DrawnSettled
<1>7. CASE /\ HasDocument
           /\ \/ \E page \in PageIds, surface \in BOOLEAN : \E p : MovedTo(page, surface, p)
              \/ Drawn \/ RefreshView
  <2>1. zathura'.document = zathura.document
    BY <1>1, <1>7 DEF MovedTo, Drawn, RefreshView, Windows
  <2> QED BY <1>7, <2>1 DEF DrawnKept, HasDocument
<1>8. CASE OpenIdle
  <2> DEFINE r == Head(idle)
  <2>1. /\ idle # <<>> /\ r.kind = "open"
        /\ Settle(DocumentOpen(zathura, r.file, r.key, r.page, history[r.file]))
    BY <1>8 DEF OpenIdle
  <2>2. r.file \in Files /\ r.key \in Keys \cup {NoKey} /\ r.page \in Int
    BY <2>1, HeadProperties DEF Inv
  <2> HIDE DEF r
  <2> QED BY <1>1, <1>6, <2>1, <2>2
<1>9. ASSUME NEW file \in Files, NEW number \in {0, Unspecified}, OpenNow(file, number)
      PROVE  DrawnKept'
  <2>1. Settle(DocumentOpen(DocumentClose(zathura, FALSE), file, NoKey, number,
                            SaveFileinfo(zathura)[file]))
    BY <1>9 DEF OpenNow
  <2>2. number \in Int
    BY DEF Unspecified
  <2> QED BY <1>2, <1>6, <2>1, <2>2
<1>10. ASSUME NEW key \in Keys \cup {NoKey}, AnswerDialog(key)
       PROVE  DrawnKept'
  <2>1. CASE key = NoKey
    <3>1. UNCHANGED <<zathura, place, leftover>>
      BY <1>10, <2>1 DEF AnswerDialog
    <3> QED BY <1>4, <3>1
  <2>2. CASE key # NoKey
    <3>1. dialog \in Files /\ Settle(DocumentOpen(zathura, dialog, key, Unspecified, history[dialog]))
      BY <1>1, <1>10, <2>2 DEF AnswerDialog
    <3>2. Unspecified \in Int
      BY DEF Unspecified
    <3> QED BY <1>1, <1>6, <3>1, <3>2
  <2> QED BY <2>1, <2>2
<1>11. CASE ReloadKey \/ MonitorEvent
  BY <1>11, ReloadKeepsPlace DEF ReloadKey, MonitorEvent
<1>12. CASE External \/ ShowDialog \/ CancelDialog \/ UNCHANGED vars
            \/ \E page \in PageIds : RequestHighlight(page)
  <2>1. UNCHANGED <<zathura, place, leftover>>
    BY <1>12 DEF External, StartWriting, FinishWriting, ShowDialog, CancelDialog,
                 RequestHighlight, vars
  <2> QED BY <1>4, <2>1
<1>13. CASE \/ Close
            \/ \E file \in Files, key \in Keys \cup {NoKey} :
                 \/ CmdOpen(file, key)
                 \/ \E number \in PageArguments : HandleOpenDocument(file, key, number)
  <2>1. Settle(DocumentClose(zathura, FALSE))
    BY <1>13, Zenon DEF Close, CmdOpen, HandleOpenDocument, RequestOpen
  <2> QED BY <1>5, <2>1
<1>14. CASE \E page \in PageIds, surface \in BOOLEAN : Scroll(page, surface) \/ GotoPage(page, surface)
  <2>1. HasDocument /\ \E page \in PageIds, surface \in BOOLEAN : \E p : MovedTo(page, surface, p)
    BY <1>14, Zenon DEF Scroll, GotoPage
  <2> QED BY <1>7, <2>1
<1>15. CASE ShowHighlight
  <2>1. \/ UNCHANGED <<zathura, place, leftover>>
        \/ HasDocument /\ zathura'.document = zathura.document
    BY <1>1, <1>15 DEF ShowHighlight, MovedTo, Windows
  <2> QED BY <1>4, <2>1 DEF DrawnKept, HasDocument
<1>16. CASE Drawn \/ RefreshView
  BY <1>7, <1>16 DEF Drawn, RefreshView
<1>17. CASE \/ \E file \in Files : ChooseFile(file) \/ PickFile(file)
            \/ \E key \in Keys \cup {NoKey} : AnswerDialog(key)
  BY <1>9, <1>10, <1>17 DEF ChooseFile, PickFile
<1> QED BY <1>8, <1>11, <1>12, <1>13, <1>14, <1>15, <1>16, <1>17
        DEF Next, User, MainLoop, Posting

-----------------------------------------------------------------------------
(***************************************************************************)
(* Theorems.                                                               *)
(***************************************************************************)

\* The invariant, from the steps.
LEMMA Invariance == Spec => []Inv
BY InvInit, InvNext, PTL DEF Spec

\* Whatever is opened, closed, reloaded or written, in any order of the
\* callbacks that do it, the window's fields stay what their types say.
THEOREM WindowTyped == Spec => []TypeOK
<1>1. Inv => TypeOK
  BY DEF Inv, LifeInv
<1> QED BY <1>1, Invariance, PTL

\* An open document is watched, by a monitor of its own unless a reload failed
\* and left one, and its password is with it, or the copy that a reload made of
\* that after freeing it.
THEOREM DocumentIsWatched == Spec => []WatchesItsFile
<1>1. Inv => WatchesItsFile
  BY DEF Inv, LifeInv, Watching, WatchesItsFile, PasswordKept, HasDocument
<1> QED BY <1>1, Invariance, PTL

\* What a reload keeps on screen is of the watched file and goes with the watch.
THEOREM PredecessorGoesWithWatch == Spec => []PredecessorIsWatched
<1>1. Inv => PredecessorIsWatched
  BY DEF Inv, LifeInv, Watching, PredecessorIsWatched
<1> QED BY <1>1, Invariance, PTL

\* The database has the last page of every file that is not open, whichever way
\* it was closed: save_fileinfo_to_db is never skipped and never late.
THEOREM HistoryIsExact == Spec => []HistoryIsLast
<1>1. Inv => HistoryIsLast
  BY DEF Inv, LifeInv
<1> QED BY <1>1, Invariance, PTL

\* A reload comes back to the page the file was shown at, also after others that
\* failed, if the document was on screen when the first of them closed it: it is
\* kept as predecessor, and sc_reload asks that for the page.  "open-first-page"
\* has the last word.
THEOREM ReloadsInPlace == Spec => PlaceKept
<1>1. Init => DrawnKept
  BY DEF Init, DrawnKept
<1>2. Inv /\ DrawnKept /\ [Next]_vars => DrawnKept'
  BY DrawnKeptNext
<1>3. Inv /\ DrawnKept /\ [Next]_vars =>
        [ /\ ReloadKey \/ MonitorEvent
          /\ zathura'.document # None
          /\ IF HasDocument THEN zathura.document.file = zathura.monitor ELSE leftover = "drawn"
          /\ place[zathura.monitor] < zathura'.document.pages
          => zathura'.page = IF OpenFirstPage THEN 0 ELSE place[zathura.monitor] ]_vars
  <2>1. ReloadKey \/ MonitorEvent => Reload
    BY DEF ReloadKey, MonitorEvent
  <2> QED BY <2>1, ReloadKeepsPlace
<1> QED BY <1>1, <1>2, <1>3, Invariance, PTL DEF Spec, PlaceKept

=============================================================================
