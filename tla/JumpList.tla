------------------------------ MODULE JumpList ------------------------------
(***************************************************************************)
(* The jump list of a window (jumplist.c): the places the reader left, a   *)
(* cursor into them, the shortcuts that walk it, and the bisection         *)
(* shortcut, which narrows a range of pages around the last jump.          *)
(*                                                                         *)
(* A position in the document is abstracted to its page.  The list is kept *)
(* in the database between sessions; `stored' is what is there.            *)
(***************************************************************************)
EXTENDS Document, Sequences, SequencesExt

CONSTANTS
    Sizes,          \* the values "jumplist-size" may be given
    Counts,         \* the numeric prefixes sc_bisect may be called with
    Continuous,     \* the setting "continuous-hist-save"
    UIntRange       \* the number of values of an unsigned int

ASSUME SizesAssumption == Sizes \subseteq Nat /\ Sizes # {}
ASSUME PrefixAssumption == Counts \subseteq Nat
ASSUME SaveAssumption == Continuous \in BOOLEAN
ASSUME UIntAssumption == UIntRange \in Nat /\ NumPages < UIntRange

VARIABLES
    list,       \* zathura->jumplist.list, each jump the page it is on
    cur,        \* zathura->jumplist.cur: an index of list, 0 for NULL
    maxSize,    \* zathura->jumplist.max_size
    open,       \* zathura->document # NULL
    page,       \* the current page (and position) of the document
    bisect,     \* zathura->bisect
    stored      \* the rows of the table jumplist for this file

vars == <<list, cur, maxSize, open, page, bisect, stored>>

UInt == 0 .. UIntRange - 1
Directions == {"forward", "backward"}

(***************************************************************************)
(* The list.  The operators take and return both fields of the structure,  *)
(* because every one of them may move the cursor.                          *)
(***************************************************************************)
JumpList == [list |-> list, cur |-> cur]

ResetCurrent(j) == IF j.cur = 0 THEN j ELSE [j EXCEPT !.cur = Len(j.list)]

\* Mutant: a cursor that loses its entry stays NULL.
TrimLosesCursor(j, max) ==
    LET gone == IF Len(j.list) > max THEN Len(j.list) - max ELSE 0
    IN  [list |-> SubSeq(j.list, gone + 1, Len(j.list)),
         cur  |-> IF j.cur <= gone THEN 0 ELSE j.cur - gone]

\* Entries go from the front.  The cursor's own entry may be among them.
Trim(j, max) ==
    LET gone == IF Len(j.list) > max THEN Len(j.list) - max ELSE 0
        kept == SubSeq(j.list, gone + 1, Len(j.list))
    IN  [list |-> kept,
         cur  |-> IF kept = <<>> THEN 0
                  ELSE IF j.cur <= gone THEN 1
                  ELSE j.cur - gone]

\* The new jump is all zeroes until it is saved.
AppendJump(j, max) ==
    Trim([list |-> Append(j.list, 0),
          cur  |-> IF j.list = <<>> THEN 1 ELSE j.cur], max)

SaveJump(j, p) == IF j.cur = 0 THEN j ELSE [j EXCEPT !.list[j.cur] = p]

AddJump(j, p, max) ==
    LET end == ResetCurrent(j)
    IN  IF end.cur # 0 /\ end.list[end.cur] = p
        THEN end
        ELSE SaveJump(ResetCurrent(AppendJump(end, max)), p)

Forward(j, n) ==
    [j EXCEPT !.cur = IF @ + n > Len(j.list) THEN Len(j.list) ELSE @ + n]
Backward(j, n) ==
    [j EXCEPT !.cur = IF @ - n < 1 THEN 1 ELSE @ - n]

SetJumpList(j) == list' = j.list /\ cur' = j.cur

(***************************************************************************)
(* page_set: nothing happens for a page the document does not have.  With  *)
(* "continuous-hist-save" the list is written out, as it is at that point. *)
(***************************************************************************)
PageSetTo(t, l) ==
    /\ page' = IF t \in Pages THEN t ELSE page
    /\ stored' = IF t \in Pages /\ Continuous THEN l ELSE stored

\* Mutants: the place left is not added, or too late to be saved.
JumpWithoutLeaving(t) ==
    /\ PageSetTo(t, list)
    /\ SetJumpList(AddJump(JumpList, page', maxSize))

JumpThenAdd(t) ==
    /\ PageSetTo(t, list)
    /\ SetJumpList(AddJump(AddJump(JumpList, page, maxSize), page', maxSize))

\* A jump through page_set: remember where it starts and where it ends.
JumpFromTo(t) ==
    LET left == AddJump(JumpList, page, maxSize)
    IN  /\ PageSetTo(t, left.list)
        /\ SetJumpList(AddJump(left, page', maxSize))

(***************************************************************************)
(* sc_bisect.  A numeric prefix sets the range, and the direction is       *)
(* overridden; without one the range is taken up again if the last jump is *)
(* still where the document is, and is the last two jumps if not.          *)
(***************************************************************************)
Spanning(p, q, last) == [start |-> IF p < q THEN p ELSE q,
                         end   |-> IF p < q THEN q ELSE p,
                         last  |-> last]

PreviousJump(d) ==
    IF cur > 1 THEN list[cur - 1]
    ELSE IF d = "forward" THEN NumPages - 1 ELSE 0

\* Mutant: any jump at the page will do, not only the bisection's last.
BisectIsAnyJump == cur # 0 /\ list[cur] = page

BisectIsCurrent == cur # 0 /\ list[cur] = page /\ page = bisect.last

\* The range sc_bisect works on, with last_jump as the set-up leaves it.
BisectRange(d, t) ==
    CASE t \in 1 .. NumPages /\ t - 1 = page -> bisect
      [] t \in 1 .. NumPages /\ t - 1 # page ->
           Spanning(page, t - 1, bisect.last)
      [] t \notin 1 .. NumPages /\ cur = 0 ->
           Spanning(0, NumPages - 1, bisect.last)
      [] t \notin 1 .. NumPages /\ BisectIsCurrent -> bisect
      [] OTHER -> Spanning(PreviousJump(d), page, page)

BisectDirection(d, t) ==
    IF t \in 1 .. NumPages
    THEN IF t - 1 > page THEN "backward" ELSE "forward"
    ELSE d

\* The page halfway; one page on where that is the page itself.
Halfway(d, r) ==
    CASE d = "forward" /\ page # r.end ->
           LET h == (page + r.end) \div 2 IN IF h = page THEN h + 1 ELSE h
      [] d = "backward" /\ page # r.start ->
           LET h == (page + r.start) \div 2
           IN  IF h = page THEN (h - 1) % UIntRange ELSE h
      [] OTHER -> page

(***************************************************************************)
(* Actions.                                                                *)
(***************************************************************************)
Init ==
    /\ list = <<>> /\ cur = 0 /\ maxSize \in Sizes
    /\ open = FALSE /\ page = 0 /\ stored = <<>>
    /\ bisect = [start |-> 0, end |-> 0, last |-> 0]

\* document_open: the page comes from the database or the command line.
Open(p) ==
    /\ ~open
    /\ open' = TRUE /\ page' = p
    /\ bisect' = [start |-> 0, end |-> NumPages - 1, last |-> p]
    /\ SetJumpList(Trim([list |-> stored, cur |-> Len(stored)], maxSize))
    /\ UNCHANGED <<maxSize, stored>>

\* document_close: save_fileinfo_to_db, then zathura_jumplist_clear.
Close ==
    /\ open
    /\ open' = FALSE
    /\ stored' = list
    /\ list' = <<>> /\ cur' = 0
    /\ UNCHANGED <<maxSize, page, bisect>>

\* The process ends without document_close.
Crash ==
    /\ open
    /\ open' = FALSE
    /\ list' = <<>> /\ cur' = 0
    /\ maxSize' \in Sizes
    /\ UNCHANGED <<page, bisect, stored>>

\* The reader scrolls: no entry is made.
Scroll(p) ==
    /\ open /\ p # page
    /\ page' = p
    /\ UNCHANGED <<list, cur, maxSize, open, bisect, stored>>

\* page_set and no entry: sc_navigate, the panels, D-Bus, the page mode.
TurnTo(p) ==
    /\ open
    /\ PageSetTo(p, list)
    /\ UNCHANGED <<list, cur, maxSize, open, bisect>>

\* sc_goto, a number at the prompt, marks and bookmarks.
JumpTo(t) ==
    /\ open
    /\ JumpFromTo(t)
    /\ UNCHANGED <<maxSize, open, bisect>>

\* Links, the rows of the index, searches, SyncTeX, and sc_scroll to an end of
\* the document: the same two entries around a position_set, which does not
\* write.  A link to a page that does not exist has returned before the first.
FollowTo(p) ==
    /\ open
    /\ page' = p
    /\ SetJumpList(AddJump(AddJump(JumpList, page, maxSize), p, maxSize))
    /\ UNCHANGED <<maxSize, open, bisect, stored>>

\* sc_toggle_index adds the place it is called at, and does not move.
RememberPlace ==
    /\ open
    /\ SetJumpList(AddJump(JumpList, page, maxSize))
    /\ UNCHANGED <<maxSize, open, page, bisect, stored>>

\* sc_jumplist: the document follows the cursor if the cursor moved.
Walk(d, n) ==
    /\ open /\ list # <<>>
    /\ LET j == IF d = "forward" THEN Forward(JumpList, n)
                                 ELSE Backward(JumpList, n)
       IN  /\ SetJumpList(j)
           /\ IF j.cur = cur THEN UNCHANGED <<page, stored>>
                             ELSE PageSetTo(j.list[j.cur], j.list)
    /\ UNCHANGED <<maxSize, open, bisect>>

Bisect(d, t) ==
    LET r == BisectRange(d, t)
        way == BisectDirection(d, t)
        next == IF t - 1 = page THEN page ELSE Halfway(way, r)
    IN  /\ open
        /\ IF r.start = r.end \/ next = page
           THEN /\ bisect' = r
                /\ UNCHANGED <<list, cur, page, stored>>
           ELSE /\ bisect' = [start |-> IF way = "forward" THEN page ELSE r.start,
                              end   |-> IF way = "backward" THEN page ELSE r.end,
                              last  |-> next]
                /\ JumpFromTo(next)
        /\ UNCHANGED <<maxSize, open>>

\* :set jumplist-size; cb_jumplist_change runs with or without a document.
SetMaxSize(m) ==
    /\ m # maxSize
    /\ maxSize' = m
    /\ SetJumpList(IF list = <<>> THEN JumpList ELSE Trim(JumpList, m))
    /\ UNCHANGED <<open, page, bisect, stored>>

Next ==
    \/ \E p \in Pages : Open(p) \/ Scroll(p) \/ TurnTo(p) \/ FollowTo(p)
    \/ \E t \in 0 .. NumPages : JumpTo(t)
    \/ \E d \in Directions, n \in 1 .. 2 : Walk(d, n)
    \/ \E d \in Directions, t \in Counts : Bisect(d, t)
    \/ \E m \in Sizes : SetMaxSize(m)
    \/ RememberPlace \/ Close \/ Crash

Spec == Init /\ [][Next]_vars

(***************************************************************************)
(* Properties.                                                             *)
(***************************************************************************)
\* Type invariant: jumps and pages are pages of the document, the list is
\* never longer than the setting allows, and last_jump is an unsigned int.
TypeOK ==
    /\ list \in Seq(Pages) /\ Len(list) <= maxSize
    /\ cur \in 0 .. Len(list)
    /\ maxSize \in Sizes /\ open \in BOOLEAN /\ page \in Pages
    /\ bisect \in [start : UInt, end : UInt, last : UInt]
    /\ stored \in Seq(Pages)

\* The cursor is an entry whenever there is one.  sc_jumplist dereferences
\* the current jump without a check once the list is not empty (trim frees
\* the cursor when it removes the entry it is on, and has to set it again).
CursorValid == (cur = 0) <=> (list = <<>>)

\* No place is remembered twice running, in the list or in the database:
\* a step of sc_jumplist always moves the document.
NoRepeats ==
    \A l \in {list, stored} : \A i \in 1 .. Len(l) - 1 : l[i] # l[i + 1]

\* Both, and no list longer than its size, through every trim: by an append, a
\* walk, a load and a smaller size, wherever the cursor is.
WellFormed == TypeOK /\ CursorValid /\ NoRepeats

\* A jump leaves a way back: one step backward in the list is the place it
\* left, and one more forward the place it went to, whatever the cursor, the
\* length and the size limit were before (as long as two entries fit).
LeavesAWayBack ==
    [][\A t \in Pages :
         (JumpTo(t) \/ FollowTo(t)) /\ t # page /\ maxSize >= 2
           => /\ cur' = Len(list') /\ cur' >= 2
              /\ list'[cur' - 1] = page /\ list'[cur'] = t]_vars

\* With "continuous-hist-save" the place left by a jump that sets the page is
\* in the database as soon as the jump is over, so that a crash after it does
\* not lose it.  Links, searches and the index do not promise that.
DepartureSaved ==
    [][\A t \in Pages, d \in Directions, c \in Counts :
         (JumpTo(t) \/ Bisect(d, c)) /\ Continuous /\ page' # page /\ maxSize > 0
           => stored' # <<>> /\ stored'[Len(stored')] = page]_vars

\* The comment inside sc_bisect: the page is within the range being bisected.
BisectBounds ==
    open => \A d \in Directions, t \in Counts :
              LET r == BisectRange(d, t)
              IN  t - 1 # page => r.start <= page /\ page <= r.end

=============================================================================
