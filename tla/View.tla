-------------------------------- MODULE View --------------------------------
(***************************************************************************)
(* What the window shows of a document, from the layout to the adjustment  *)
(* of the scrolled window (zathura.c, callbacks.c, shortcuts.c, links.c).  *)
(*                                                                         *)
(* Everything happens on the main loop, but in two halves: a handler sets  *)
(* the zoom, the pages of the grid and the value of the adjustment at      *)
(* once, while the adjustment's upper and page size stay those of the last *)
(* allocation until GTK lays the window out again.  Then "changed" comes   *)
(* first and "value-changed" after it, if GTK had to clamp the value.      *)
(***************************************************************************)
EXTENDS Layout

CONSTANTS
    Cells,          \* heights of a cell, at the zooms there are
    FitCell,        \* at the zoom that fits a row of 1 or 2 pages to the window's width
    MinChange,      \* min_change of adjust_view
    Windows,        \* heights the window leaves to the view
    Step,           \* "scroll-step", in pixels
    Stored,         \* pages and positions of jumps, bookmarks and marks
    Targets,        \* where on a page links and search results are
    Settings,       \* of the settings that are switches, those that are on
    MaxMoves,       \* how often the reader acts
    None            \* no page was asked for, no zoom, or no position is given

ASSUME ViewAssumption ==
    /\ Cells \subseteq Nat \ {0} /\ Windows \subseteq Nat \ {0}
    /\ FitCell \in [1 .. 2 -> Cells] /\ Step \in Nat /\ MinChange \in Nat
    /\ None \notin Pages /\ None \notin Int \X Nat /\ MaxMoves \in Nat
    /\ \A cell \in Cells : cell >= 2 * Padding
    /\ \A ncol \in 1 .. 2, height \in Windows : Min({FitCell[ncol], height}) \in Cells
    /\ \A s \in Stored : s[1] \in Pages /\ Reduced(s[2])
    /\ \A target \in Targets :
          Reduced(target) /\ AtMost(<<0, 1>>, target) /\ Less(target, <<1, 1>>)
    /\ Settings \subseteq SUBSET {"vertical-center", "zoom-center", "scroll-wrap",
                                 "scroll-page-aware"}

\* Half of a surface holds what is around a position, and the rows of any zoom
\* that it holds fill the window at any other.
SurfaceIsHigh ==
    \A cell, other \in Cells, height \in Windows :
        LET rows == SurfaceRows(cell)
        IN  /\ 2 * (((rows - 1) \div 2) * (cell + Padding)) >= height + cell
            /\ rows * (other + Padding) >= height + Padding

VARIABLES
    view,       \* the document, the document widget and the scrolled window
    window,     \* the height GTK will allocate to the view
    settings,   \* the switches that are on
    presented,  \* what toggle_presentation_mode keeps of the layout
    asked,      \* the page that was asked for last, and nothing since (ghost)
    moves       \* how often the reader has acted (ghost)

viewVars == <<view, window, settings, presented, asked, moves>>

Adjusts == {"none", "width", "bestfit", "inputbar"}
Presentations == [ncol : 1 .. 2, first : 1 .. 2, cell : Cells]

ViewTypeOK ==
    /\ view.doc.x \in Columns /\ view.doc.page \in Pages /\ view.doc.cell \in Cells
    /\ view.doc.ncol \in 1 .. 2 /\ view.doc.first \in 1 .. 2
    /\ view.doc.view \in Windows /\ view.doc.adjust \in Adjusts
    /\ view.grid.start \in 0 .. NumPages /\ view.grid.count \in 1 .. NumPages
    /\ view.grid.stale \in BOOLEAN
    /\ view.adj.size \in Windows /\ view.adj.upper \in Nat
    /\ view.queued \in BOOLEAN /\ view.skipped \in BOOLEAN
    /\ view.mode \in {"normal", "index", "presentation"}
    /\ window \in Windows /\ settings \in Settings /\ presented \in Presentations \cup {None}
    /\ asked \in Pages \cup {None} /\ moves \in 0 .. MaxMoves

-----------------------------------------------------------------------------
(***************************************************************************)
(* The functions of the handlers, from one view to the next.  `queued':    *)
(* GTK will lay the window out again.  `skipped' (ghost): the value of the *)
(* adjustment was not set although the view may have changed.              *)
(***************************************************************************)

\* zathura_document_widget_render; another grid moves under the value.
Render(v) ==
    IF v.grid.stale \/ ~Covers(v.grid, v.doc)
    THEN [v EXCEPT !.grid = RenderRange(v.doc), !.queued = TRUE, !.skipped = TRUE]
    ELSE v

\* zathura_document_widget_get_ratio
Ratio(v) ==
    Plus(Scaled(Plus(v.adj.value, Frac(v.adj.size, 2)),
                GridHeight(v.doc, v.grid), v.adj.upper * DocumentHeight(v.doc)),
         GridStart(v.doc, v.grid))

\* cb_view_vadjustment_value_changed
MovedTo(v, pos) ==
    [v EXCEPT !.doc.pos = pos, !.doc.page = PositionToPage(v.doc, v.doc.x, pos), !.skipped = FALSE]

ValueChanged(v) == IF v.mode = "index" THEN v ELSE MovedTo(v, Ratio(v))

\* GTK emits value-changed only if the value is another one.
SetAdjustment(v, value) ==
    IF value = v.adj.value THEN v ELSE ValueChanged([v EXCEPT !.adj.value = value])

Furthest(v) == Greatest(Top, Whole(v.adj.upper - v.adj.size))

\* zathura_adjustment_set_value_from_ratio: a ratio of 0 is not set.
SetValueFromRatio(v, y, ratio) ==
    IF ratio = Top THEN [v EXCEPT !.skipped = TRUE]
    ELSE SetAdjustment([v EXCEPT !.skipped = @ /\ y # v.doc.pos],
                       Clamped(Minus(Scaled(ratio, v.adj.upper, 1), Frac(v.adj.size, 2)),
                               Top, Furthest(v)))

\* Mutant: the grid is taken to begin with the document.
RatioInDocument(v, y) == Scaled(y, DocumentHeight(v.doc), GridHeight(v.doc, v.grid))

RatioInGrid(v, y) ==
    Scaled(Minus(y, GridStart(v.doc, v.grid)), DocumentHeight(v.doc), GridHeight(v.doc, v.grid))

\* zathura_document_widget_set_value_from_ratio
SetRendered(v, y) == SetValueFromRatio(v, y, RatioInGrid(v, y))
SetValue(v, y) == SetRendered(Render(v), y)

\* cb_refresh_view.  Setting the horizontal adjustment renders too.
RefreshView(v) == Render(SetValue(v, v.doc.pos))

\* render_all: the widgets get the size of their pages.
RenderAll(v) == [v EXCEPT !.queued = TRUE]

SetZoom(v, cell) == [v EXCEPT !.doc.cell = cell]

\* adjust_view.  The width that fits is that of the window, the height the one
\* saved with the document.
Fitting(v) ==
    CASE v.doc.adjust = "width" -> FitCell[v.doc.ncol]
      [] v.doc.adjust = "bestfit" -> Min({FitCell[v.doc.ncol], v.doc.view})
      [] OTHER -> v.doc.cell

AdjustView(v) ==
    IF Size(Fitting(v) - v.doc.cell) > MinChange
    THEN RefreshView(RenderAll(SetZoom(v, Fitting(v))))
    ELSE v

SetAdjustMode(v, adjust) == [v EXCEPT !.doc.adjust = adjust]

\* position_set, where "auto" and None stand for -1.  A position that was computed may be
\* negative too, with scroll-wrap in a window twice as high as the document.
Negative(y) == y = None \/ Less(y, Top)

PositionSet(v, x, y) ==
    LET middle == v.doc.adjust \in {"bestfit", "width"} \/ "zoom-center" \in settings
        align  == IF "vertical-center" \in settings THEN Middle ELSE Top
    IN  RefreshView([v EXCEPT
            !.doc.x   = IF x # "auto" THEN x ELSE IF middle THEN "middle"
                        ELSE ColumnOf(v.doc, v.doc.page),
            !.doc.pos = IF Negative(y) THEN PageToPosition(v.doc, v.doc.page, align) ELSE y])

PageSet(v, page) ==
    PositionSet([v EXCEPT !.doc.page = page], "auto", None)

\* cb_page_layout_value_changed: the grid is made anew, the value stays.
SetLayout(v, ncol, first) ==
    Render([v EXCEPT !.doc.ncol = ncol, !.doc.first = first, !.grid.stale = TRUE,
                     !.skipped = TRUE])

-----------------------------------------------------------------------------
(***************************************************************************)
(* Opening.                                                                *)
(***************************************************************************)

\* The rest of document_open, for a document that is opened in an empty view.
EmptyView(height, page, cell, adjust) ==
    [doc  |-> [pos |-> Top, x |-> "left", page |-> page, cell |-> cell, ncol |-> 1,
               first |-> 1, view |-> height, adjust |-> adjust],
     grid |-> [start |-> 0, count |-> 0, stale |-> TRUE],
     adj  |-> [value |-> Top, upper |-> height, size |-> height],
     queued |-> TRUE, mode |-> "normal", skipped |-> FALSE]

Restored(v, y) == IF y = None THEN v ELSE PositionSet(v, "auto", y)

DocumentOpen(height, page, y, cell, ncol, first, adjust) ==
    Restored(PageSet(AdjustView(SetLayout(EmptyView(height, page, cell, adjust), ncol, first)),
                     page), y)

ViewInit ==
    /\ window \in Windows /\ settings \in Settings
    /\ \E s \in Stored \cup {<<0, None>>}, cell \in Cells, ncol \in 1 .. 2,
          adjust \in Adjusts \ {"inputbar"} : \E first \in 1 .. ncol :
            view = DocumentOpen(window, s[1], s[2], cell, ncol, first, adjust)
    /\ presented = None
    /\ asked = None
    /\ moves = 0

-----------------------------------------------------------------------------
(***************************************************************************)
(* GTK.                                                                    *)
(***************************************************************************)

\* cb_view_adjustment_changed.  The inputbar takes its room from the view, and
\* the view is not to move for it.
Changed(v) ==
    IF v.doc.adjust = "inputbar" THEN [v EXCEPT !.skipped = TRUE]
    ELSE SetValue([v EXCEPT !.doc.view = v.adj.size], v.doc.pos)

\* The widget gets the height of its grid, the view that of the window.
Resized(v, upper) ==
    [v EXCEPT !.queued = FALSE,
              !.adj = [value |-> Least(@.value, Greatest(Top, Whole(upper - window))),
                       upper |-> upper, size |-> window]]

ToldOfValue(v, clamped) == IF clamped THEN ValueChanged(v) ELSE v

ToldOfBounds(v, old) ==
    ToldOfValue(IF v.adj.upper = old.upper /\ v.adj.size = old.size THEN v ELSE Changed(v),
                v.adj.value # old.value)

Allocated(v) == ToldOfBounds(Resized(v, Max({GridHeight(v.doc, v.grid), window})), v.adj)

\* The horizontal adjustment may change too, before or after; then the grid is
\* rendered, and nothing else.  cb_view_resized comes last.
Relayout ==
    /\ view.queued /\ view.mode # "index"
    /\ \/ view' = AdjustView(Allocated(view))
       \/ view' = AdjustView(Render(Allocated(view)))
    /\ UNCHANGED <<window, settings, presented, asked>>

\* The window is resized, or the inputbar comes or goes.  The middle of the view
\* stays where it is, and of a lower view a page may not reach there.
Resize(height) ==
    /\ height # window
    /\ window' = height
    /\ view' = [view EXCEPT !.queued = TRUE]
    /\ asked' = None
    /\ UNCHANGED <<settings, presented>>

\* The reader drags a scrollbar.
DragScrollbar(value) ==
    /\ view.mode # "index" /\ AtMost(Whole(value), Furthest(view))
    /\ view' = SetAdjustment(view, Whole(value))
    /\ asked' = None
    /\ UNCHANGED <<window, settings, presented>>

\* cb_view_hadjustment_value_changed
ScrollSideways(x) ==
    /\ view.mode # "index"
    /\ view' = [view EXCEPT !.doc.x = x, !.doc.page = PositionToPage(view.doc, x, view.doc.pos)]
    /\ asked' = None
    /\ UNCHANGED <<window, settings, presented>>

-----------------------------------------------------------------------------
(***************************************************************************)
(* Going somewhere.  With the index shown only D-Bus does.                 *)
(***************************************************************************)
\* Nothing is left for GTK to do, and the inputbar has not kept it from it.
Settled ==
    ~view.queued /\ view.adj.size = window /\ ~view.skipped /\ view.doc.view = view.adj.size

\* The adjustment has the bounds of the grid.
InBounds(v) == v.adj.upper = Max({GridHeight(v.doc, v.grid), v.adj.size})

\* A link into the lower half of the last page asks for a position beyond 1.
InDocument(pos) == AtMost(Top, pos) /\ AtMost(pos, Bottom)

\* The first pixel of the document that is in view.
FirstPixel == Plus(Whole(GridOffset(view.doc, view.grid)), view.adj.value)

InView(page) ==
    LET top == Whole(PageToRow(view.doc, page) * RowStep(view.doc))
    IN  /\ Less(top, Plus(FirstPixel, Whole(view.adj.size)))
        /\ Less(FirstPixel, Plus(top, Whole(view.doc.cell)))

Reading == view.mode # "index"

\* A zoom in the same go is left out: the value is set before GTK knows of it,
\* and within the bounds of the zoom before.
Going(v, page) ==
    /\ view' = v
    /\ asked' = IF Settled /\ InBounds(v) THEN page ELSE None
    /\ UNCHANGED <<window, settings, presented>>

Moving(v) == view' = v /\ asked' = None /\ UNCHANGED <<window, settings, presented>>

\* sc_goto, sc_snap_to_page, the panels, GotoPage.
Goto(page) == Going(PageSet(view, page), page)

\* sc_navigate
Navigate(step) ==
    LET to == IF "scroll-wrap" \in settings THEN (view.doc.page + NumPages + step) % NumPages
              ELSE Max({0, Min({NumPages - 1, view.doc.page + step})})
    IN  Reading /\ Going(PageSet(view, to), to)

\* A jump, a bookmark: the page first, then the position that was stored.
Jump(page, y) ==
    /\ Reading
    /\ Moving(PositionSet(PageSet(view, page), "left", y))

Zoomed(v, cell) == RenderAll(AdjustView(SetZoom(v, cell)))

\* mark_evaluate
MarkEvaluate(page, y, cell) ==
    /\ Reading
    /\ Moving(PositionSet(PageSet(Zoomed(view, cell), page), "left", y))

\* Mutant: the target is taken for a part of the document.
TargetInDocument(d, page, target) ==
    IF target = None THEN None ELSE Plus(PageToPosition(d, page, Top), target)

\* link_goto_dest, with the target's zoom or without; the index has links too.
TargetPosition(d, page, target) ==
    IF target = None THEN None
    ELSE Plus(PageToPosition(d, page, Top), Scaled(target, d.cell, DocumentHeight(d)))

LinkGotoDest(v, page, y) == PositionSet([v EXCEPT !.doc.page = page], "auto", y)

Follow(page, target, cell) ==
    LET v == IF cell = None THEN view ELSE Zoomed(view, cell)
        y == TargetPosition(v.doc, page, target)
        w == LinkGotoDest(v, page, y)
    IN  /\ Reading
        /\ IF y = None \/ InDocument(y) THEN Going(w, page) ELSE Moving(w)

\* sc_search, synctex_highlight_rects: the result in the middle of the view.
ShowResult(page, target) ==
    LET d == view.doc
        y == Plus(PageToPosition(d, page, Middle),
                  Scaled(Minus(target, Middle), d.cell, DocumentHeight(d)))
    IN  Reading /\ Going(PositionSet(view, ColumnOf(d, page), y), page)

\* cb_page_widget_scaled_button_release: the page is in view.
Click(page) ==
    /\ Reading /\ ~view.queued /\ InView(page)
    /\ Moving(RefreshView([view EXCEPT !.doc.page = page]))

-----------------------------------------------------------------------------
(***************************************************************************)
(* sc_scroll                                                               *)
(***************************************************************************)
ScrollTop    == Reading /\ Moving(PositionSet(view, "auto", Top))
ScrollBottom == Reading /\ Moving(PositionSet(view, "auto", Bottom))

ScrollInPage(align) ==
    /\ Reading
    /\ Moving(PositionSet(view, view.doc.x, PageToPosition(view.doc, view.doc.page, align)))

\* Half the view at either end; beyond it the other end or the same one.
Bounded(d, y) ==
    LET end == Frac(d.view, 2 * DocumentHeight(d))
        far == Minus(Bottom, end)
        wrap == "scroll-wrap" \in settings
    IN  IF Less(y, end) THEN (IF wrap THEN far ELSE end)
        ELSE IF Less(far, y) THEN (IF wrap THEN end ELSE far)
        ELSE y

\* "scroll-page-aware": a move to another page ends at its border.
Aware(d, y, down) ==
    LET page == PositionToPage(d, d.x, y)
    IN  IF page = d.page \/ "scroll-page-aware" \notin settings THEN y
        ELSE PageToPosition(d, page, IF down THEN Top ELSE Bottom)

\* Half pixels down.  Widths are open, and with them the column in the middle
\* afterwards.
Scrolled(d, halves) == Bounded(d, Plus(d.pos, Frac(halves, 2 * DocumentHeight(d))))

Signed(n, down) == IF down THEN n ELSE -n

\* A view and its padding, or half of it.
PageScroll(halves, down, x) ==
    LET d == [view.doc EXCEPT !.x = x]
    IN  Reading /\ Moving(PositionSet(view, x, Aware(d, Scrolled(d, Signed(halves, down)), down)))

FullScroll(down, x) == PageScroll(2 * (view.doc.view + Padding), down, x)
HalfScroll(down, x) == PageScroll(view.doc.view + Padding, down, x)

StepScroll(down, x) ==
    Reading /\ Moving(PositionSet(view, x, Scrolled(view.doc, Signed(2 * Step, down))))

\* sc_mouse_scroll: dragging the page.
Drag(pixels) ==
    /\ Reading
    /\ Moving(SetValue(view, Minus(Ratio(view), Frac(pixels, DocumentHeight(view.doc)))))

-----------------------------------------------------------------------------
(***************************************************************************)
(* Changing the layout.                                                    *)
(***************************************************************************)

\* sc_zoom; a zoom at its limit changes the mode only.
Zoom(cell) ==
    /\ Reading
    /\ Moving(IF cell = view.doc.cell THEN SetAdjustMode(view, "none")
              ELSE RefreshView(RenderAll(SetZoom(SetAdjustMode(view, "none"), cell))))

AdjustWindow(adjust) ==
    Reading /\ Moving(AdjustView(SetAdjustMode(view, adjust)))

\* sc_rotate: the cells are as high as they were wide.
Rotate(cell) == Reading /\ Going(PageSet(Zoomed(view, cell), view.doc.page), view.doc.page)

\* :set pages-per-row, first-page-column; sc_cycle_first_column.
ChangeLayout(ncol, first) == Moving(SetLayout(view, ncol, first))

\* sc_toggle_page_mode
TogglePageMode ==
    LET page    == view.doc.page
        toggled == SetLayout(view, 3 - view.doc.ncol, view.doc.first)
    IN  Reading /\ Moving(RefreshView(RenderAll(PageSet(AdjustView(toggled), page))))

\* sc_toggle_presentation
StartPresentation ==
    LET single == SetLayout(view, 1, view.doc.first)
        fitted == AdjustView(SetAdjustMode(single, "bestfit"))
    IN  /\ view.mode = "normal"
        /\ presented' = [ncol |-> view.doc.ncol, first |-> view.doc.first, cell |-> view.doc.cell]
        /\ view' = [RefreshView(fitted) EXCEPT !.mode = "presentation"]
        /\ asked' = None
        /\ UNCHANGED <<window, settings>>

EndPresentation ==
    LET laid == SetLayout(SetLayout(view, presented.ncol, view.doc.first),
                          presented.ncol, presented.first)
    IN  /\ view.mode = "presentation"
        /\ view' = [RefreshView(RenderAll(SetZoom(laid, presented.cell))) EXCEPT !.mode = "normal"]
        /\ presented' = None
        /\ asked' = None
        /\ UNCHANGED <<window, settings>>

\* sc_focus_inputbar, and the shortcuts that ask for a link's number.
FocusInputbar == Moving(SetAdjustMode(view, "inputbar"))

\* sc_toggle_index: the view is not in the window meanwhile.
ToggleIndex ==
    /\ view' = IF view.mode = "index"
               THEN RefreshView([view EXCEPT !.mode = "normal", !.queued = TRUE])
               ELSE [view EXCEPT !.mode = "index",
                                 !.doc.adjust = IF @ = "inputbar" THEN "none" ELSE @]
    /\ presented' = None
    /\ asked' = None
    /\ UNCHANGED <<window, settings>>

-----------------------------------------------------------------------------
Goings ==
    \/ \E page \in Pages :
        \/ Goto(page) \/ Click(page)
        \/ \E target \in Targets \cup {None}, cell \in Cells \cup {None} :
              Follow(page, target, cell)
        \/ \E target \in Targets : ShowResult(page, target)
    \/ \E s \in Stored :
        Jump(s[1], s[2]) \/ \E cell \in Cells : MarkEvaluate(s[1], s[2], cell)
    \/ \E step \in {-1, 1} : Navigate(step)

Scrolls ==
    \/ ScrollTop \/ ScrollBottom
    \/ \E align \in {Top, Bottom} : ScrollInPage(align)
    \/ \E down \in BOOLEAN, x \in {view.doc.x, "middle"} :
        StepScroll(down, x) \/ FullScroll(down, x) \/ HalfScroll(down, x)
    \/ \E pixels \in {-Step, Step} : Drag(pixels)
    \/ \E value \in {0, Step, view.adj.upper - view.adj.size} : DragScrollbar(value)
    \/ \E x \in Columns : ScrollSideways(x)

Layouts ==
    \/ \E cell \in Cells : Zoom(cell) \/ Rotate(cell)
    \/ \E adjust \in Adjusts \ {"inputbar"} : AdjustWindow(adjust)
    \/ \E ncol, first \in 1 .. 2 : ChangeLayout(ncol, first)
    \/ TogglePageMode \/ StartPresentation \/ EndPresentation
    \/ FocusInputbar \/ ToggleIndex

Act ==
    /\ moves < MaxMoves /\ moves' = moves + 1
    /\ Goings \/ Scrolls \/ Layouts \/ \E height \in Windows : Resize(height)

ViewNext == Act \/ (Relayout /\ UNCHANGED moves)

ViewSpec == ViewInit /\ [][ViewNext]_viewVars

-----------------------------------------------------------------------------
(***************************************************************************)
(* Properties.                                                             *)
(***************************************************************************)

LastFirstPixel == Max({0, DocumentHeight(view.doc) - view.adj.size})

AtRest == Settled /\ view.mode # "index"

\* At rest the window shows the position the document has, which is what is
\* stored, jumped from and zoomed around: only the ends of the document keep
\* it from the middle, never the ends of the grid, wherever the grid was made.
ShowsPosition ==
    /\ ViewTypeOK
    /\ AtRest /\ InDocument(view.doc.pos) =>
        FirstPixel = Clamped(Minus(Scaled(view.doc.pos, DocumentHeight(view.doc), 1),
                                   Frac(view.adj.size, 2)),
                             Top, Whole(LastFirstPixel))

\* A page that was asked for, by number, by a link or by a search result in it,
\* is in view once GTK has laid the window out, if it had when it was asked.
AskedPageShown == AtRest /\ asked # None => InView(asked)

=============================================================================
