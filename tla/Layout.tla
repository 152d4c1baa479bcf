------------------------------- MODULE Layout -------------------------------
(***************************************************************************)
(* Where the pages of a document are (document.c, adjustment.c) and which  *)
(* of them the document widget holds (document-widget.c).                  *)
(*                                                                         *)
(* The vertical axis is exact: pixels, and positions as fractions of the   *)
(* document's height.  Of the horizontal axis there is only where the      *)
(* middle of the view is: in the left or the right column of two, or       *)
(* "middle", the half that view modes and zoom-center set.                 *)
(*                                                                         *)
(* A document `d' is a record with, among other fields, the height of its  *)
(* cells in pixels (its zoom and rotation), the pages per row, the first   *)
(* page's column of the setting, the saved height of the view and the      *)
(* position.                                                               *)
(***************************************************************************)
EXTENDS Document, Integers, Fractions, FiniteSetsExt

CONSTANTS
    Padding,        \* "page-v-padding"
    MaxSize         \* cairo_max_size

ASSUME LayoutAssumption ==
    Padding \in Nat \ {0} /\ MaxSize \in Nat \ {0}

Columns == {"left", "middle", "right"}

-----------------------------------------------------------------------------
(***************************************************************************)
(* The document.                                                           *)
(***************************************************************************)

\* zathura_document_set_page_layout brings the column into the row.
FirstColumn(d) == IF d.first > d.ncol THEN ((d.first - 1) % d.ncol) + 1 ELSE d.first

RowStep(d) == d.cell + Padding

Rows(d) == (NumPages + FirstColumn(d) - 1 + d.ncol - 1) \div d.ncol

\* The height of some rows: of the document, of the widget's grid.
Height(d, rows) == rows * d.cell + (rows - 1) * Padding

DocumentHeight(d) == Height(d, Rows(d))

PageToRow(d, page) == (page + FirstColumn(d) - 1) \div d.ncol

RowFirstPage(d, row) == IF row = 0 THEN 0 ELSE row * d.ncol - (FirstColumn(d) - 1)

\* The column the middle of the view is in: "middle" is left of the middle of
\* the padding.
ColumnAt(d, x) == IF d.ncol = 2 /\ x = "right" THEN 1 ELSE 0

ColumnOf(d, page) ==
    IF d.ncol = 1 THEN "middle"
    ELSE IF (page + FirstColumn(d) - 1) % d.ncol = 0 THEN "left" ELSE "right"

\* With a first column there is one more row to wrap at than the document has.
WrapRows(d) ==
    IF FirstColumn(d) = 1 THEN (NumPages + d.ncol - 1) \div d.ncol
    ELSE 1 + (NumPages - (d.ncol - FirstColumn(d) - 1) + d.ncol - 1) \div d.ncol

\* The cells before the first page are the first page's, too.
PageInCell(d, n) == Max({0, Min({n - (FirstColumn(d) - 1), NumPages - 1})})

PositionToPage(d, x, y) ==
    PageInCell(d, d.ncol * (Floor(Scaled(y, DocumentHeight(d), RowStep(d))) % WrapRows(d))
                  + ColumnAt(d, x))

\* Where the middle of the view is when the page is aligned to its top (0), its
\* middle or its bottom (1).  A page that fits into the view is in its middle.
Excess(d) == IF d.cell > d.view THEN d.cell - d.view ELSE 0

PageToPosition(d, page, yalign) ==
    Over(Plus(Frac(2 * PageToRow(d, page) * RowStep(d) + d.cell, 2),
              Scaled(Minus(yalign, <<1, 2>>), Excess(d), 1)),
         DocumentHeight(d))

Top == <<0, 1>>
Middle == <<1, 2>>
Bottom == <<1, 1>>

-----------------------------------------------------------------------------
(***************************************************************************)
(* The grid of the document widget: as many rows as fit into a surface.    *)
(***************************************************************************)

\* Half of a view and a cell, as a part of the document.
Reach(d) == Frac(d.view + d.cell, 2 * DocumentHeight(d))

RowAt(d, y) == PageToRow(d, PositionToPage(d, d.x, Clamped(y, Top, Bottom)))

Covers(grid, d) ==
    /\ grid.start <= RowAt(d, Minus(d.pos, Reach(d)))
    /\ RowAt(d, Plus(d.pos, Reach(d))) < grid.start + grid.count

RenderRows(d) == PageToRow(d, NumPages + d.ncol - 1)
SurfaceRows(cell) == MaxSize \div (cell + 2 * Padding)
RenderCount(d) == Min({RenderRows(d), SurfaceRows(d.cell)})

\* Around the row of the position; only near the ends it is not in the middle.
RenderStart(rows, count, current) ==
    IF rows <= current + count \div 2 THEN rows - count
    ELSE IF current < count \div 2 THEN 0
    ELSE current - count \div 2

RenderRange(d) ==
    [start |-> RenderStart(RenderRows(d), RenderCount(d),
                           PageToRow(d, PositionToPage(d, d.x, d.pos))),
     count |-> RenderCount(d), stale |-> FALSE]

\* Where the grid begins, in pixels of the document and as a part of it.
GridOffset(d, grid) == grid.start * RowStep(d)
GridStart(d, grid) ==
    Minus(PageToPosition(d, RowFirstPage(d, grid.start), Top), PageToPosition(d, 0, Top))

GridHeight(d, grid) == Height(d, grid.count)
=============================================================================
