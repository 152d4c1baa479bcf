# A TLA+ model of zathura

zathura is a document viewer: a GTK main loop, one thread that renders pages,
plugins that know the document formats, and an SQLite database of what it
remembers about each file.  These modules model the parts of it in which order
matters, check them with TLC on small instances, and prove what matters most
for every instance with TLAPS.

Run `tlc -config X.cfg MCModule.tla` for a run of PROJECT.json and
`tlapm <Module>Proofs.tla` for the proofs about a module.

## 1. The system and its parts

Everything but rendering runs on the main thread, as callbacks of the GTK main
loop: key and mouse shortcuts (`shortcuts.c`), commands (`commands.c`), signals
of widgets and adjustments (`callbacks.c`), file monitors, D-Bus calls, idle
and timeout callbacks.  The other thread is the one thread of a GThreadPool in
the renderer.  Further concurrency comes from the operating system: the
document and the database are files that other processes write.

The parts in bold are modelled, some of them in part (section 6).

| part | state it keeps | operations | correct when |
|---|---|---|---|
| **render jobs** (`render.c`, `page-widget.c`, `zathura.c`) | requests with their lists of jobs, reference counts, `aborted` and `about_to_close` flags | request, abort, render, post the result, answer, stop, free | one live job per request; every ask is settled; nothing is freed while in use, everything in the end |
| **render queue** (`render.c`) | the pool's queue, view times | sorted push, pop, renewal of view times | visible pages are not starved |
| **page cache and visibility** (`render.c`, `page-widget.c`, `callbacks.c`) | cache cells, visibility flags, `cached` flags, surfaces, thumbnails | update visible pages, add and evict, draw, resize | what is on screen gets shown; what is kept is what the cache lists; memory is bounded |
| **jump list and bisection** (`jumplist.c`, `shortcuts.c`) | list, cursor, maximum size, range being bisected | add, walk, trim, save, load, bisect | the cursor is valid; a jump can be undone; a bisection stays within its range |
| **document life cycle** (`zathura.c`, `file-monitor*.c`, `callbacks.c`) | document, predecessor, monitor, password | open, password retry, reload, close | no state of a closed document is used; a reload shows the new file |
| **layout and scrolling** (`adjustment.c`, `document.c`, `document-widget.c`, `shortcuts.c`) | cell size, columns, first page column, position, attached rows | page to position and back, visible pages, zoom, rotate | page and position agree; the attached rows hold what is visible |
| **highlights** (`shortcuts.c`, `commands.c`, `callbacks.c`, `page-widget.c`) | lists per page, database rows, embedded annotations, marks, pending questions, the panel's rows | make, mark, recolour, delete with a question, panel, import, export | pages and database agree; only what was asked about is deleted from the document; nothing is imported twice |
| **notes** (`note-popup.c`, `shortcuts.c`, `page-widget.c`) | popup with its callbacks and pending icon, placement mode | place, edit, save, delete, import, export | the popup saves to the note and the document it was opened for |
| **database** (`database-sqlite.c`, `database-null.c`) | tables per file | load, save, upsert, remove | a failed or interrupted write leaves the old rows |
| **bookmarks and quickmarks** (`bookmarks.c`, `marks.c`) | lists in memory | add, remove, jump | lists and tables agree |
| **file picker** and completion (`callbacks.c`, `completion.c`) | query, running search, debounce timer | type, start, cancel, result | the results shown are those of the last query |
| search, links, index (`callbacks.c`, `links.c`, `shortcuts.c`) | results per page, current result, link hints, mode | search, next, follow | the current result is one of the results |
| **D-Bus** and SyncTeX (`dbus-interface.c`, `synctex.c`) | deferred highlights, scanner | goto, highlight, forward and backward search | a deferred request meets the document it was meant for |
| plugins (`plugin.c`) | registry by content type | load, register, look up | the first plugin for a type is used |
| printing, Readwise, content types, sandbox, start | | | straight-line code |

How they interact: a scroll changes a GTK adjustment; its value-changed
callback updates the pages' visibility, which adds pages to the cache, evicts
others and aborts their jobs; GTK draws the page widgets, and drawing one
without a surface asks the renderer; the worker posts the surface to the main
loop, whose callback emits `completed`; the widget keeps the surface and queues
another draw.  Zooming queues resizes, which abort and discard.  Closing stops
the renderer, lets go of it, and drops the pages, while the worker may be
anywhere; a reload keeps the old pages as predecessor until the new ones have
surfaces.  Jumps of all kinds add to the jump list, which is saved on close.

What is hard: the two threads and who drops the last reference; flags read
without the lock; sorted insertion into a queue whose keys change; state that a
callback reads before the callback that updates it; pending operations that
outlive what they were about; writes to the database in the middle of an
operation; unsigned and rounding edges in layout and bisection.  PROJECT.json
lists them one by one under "hazards", each with its line.

## 2. The modules at a glance

| part | module | proofs | run |
|---|---|---|---|
| render jobs | `RenderService` (what the renderer promises), `RenderJobs` (the two threads, which implement it) | `RenderJobsProofs` | `RenderJobs`, `RenderJobsFreed` |
| render queue | `PoolQueue`, from which the fairness of `RenderJobs` follows | `RenderJobsProofs` | `PoolQueue` |
| page cache, visibility | `PageCache`, which sees the renderer as `RenderService` does | `PageCacheProofs` | `PageCache`, `PageCacheLive` |
| layout, scrolling, links, search | `View`, on `Layout` and `Fractions` | `NavigationProofs` | `View` |
| document life cycle, D-Bus | `DocumentLife` | `DocumentLifeProofs` | `DocumentLife` |
| jump list, bisection | `JumpList` | `NavigationProofs` | `JumpList` |
| highlights | `Annotations` | `AnnotationsProofs` | `Annotations` |
| notes | `NoteEditor` | `NoteEditorProofs` | `NoteEditor` |
| database, bookmarks, marks | `Store` | `StoreProofs` | `Store` |
| file picker | `FilePicker` | `FilePickerProofs` | `FilePicker` |

`Document` has the number of pages, which `JumpList` and `Layout` share.  An `MC`
module gives a module its constants for TLC.  No module extends
another's state: parts meet at their interfaces.  The close in `DocumentLife` is
one step there, and in `RenderJobs` the steps that race with the worker; a
page that comes into view in `View` is one that `PageCache` sweeps; `JumpTo` in
`JumpList` is the position that `View` is given; the lists `JumpList` saves are
those whose transaction is in `Store`.

What would come next: the composition of `View` with `PageCache`, which are
about the same `update_visible_pages` from two sides; completing the failure
paths of `document_open`; several embedded notes on a page in `Annotations`; and
the horizontal axis in `View`.

## 3. The modules

### RenderService

Pages ask for surfaces; an ask is answered at most once or dropped; after
`Close` nothing is answered.  `completed` flips at each answer, so that an
answer can be told from a drop.

### RenderJobs

One behaviour is one document's life.  Jobs are the structures `render_job_t`;
`stage` says who has one: the pool's queue, the worker, or the main context's
queue of posted callbacks.  `active` is a request's `active_jobs`, `refs` and
`rendererRefs` are GObject reference counts, `registered` is the renderer's
list of requests.  `phase` is the point main has reached in `document_open` or
`document_close`; these are callbacks, so nothing is dispatched between their
steps, but the worker runs on.

| code | actions |
|---|---|
| `setup_renderer`, `document_open` | `OpenIcon`, `OpenPage`, `Opened` |
| `zathura_render_request`, `..._abort` | `RequestRender`, `Abort` |
| `render_job`, `render`, `invoke_completed_signal` | `Take`, `BackOut`, `StartRender`, `RenderFails`, `RenderIsCutShort`, `Recolor`, `Post`, `PostFails` |
| `remove_job_and_free` on the worker | `Remove`, `Unref` (two steps: the lock is released between them) |
| `emit_completed_signal` on main | `Dispatch` |
| `document_close`, `document_predecessor_free` | `Stop`, `ClearIcon`, `ReleaseRenderer`, `KeepAsPredecessor`, `StartDropping`, `DropPage`, `FreeDocument` |

Sections under `jobs_mutex` are single steps.  `about_to_close` and `aborted`
are atomic and read without the lock: the worker reads them at `BackOut` or
`StartRender` and again after rendering.  If `Unref` drops the renderer's last
reference, `renderer_finalize` runs on the worker: `pc = "selfwait"`.  `Take`
may take any queued job; `PoolQueue` has the order.

Left out: failed allocations, the error paths of `document_open`, the pixels,
and the end of the main loop with callbacks still posted.  The renderer's list of
requests (`registered`) is changed and searched without the lock
(`render.c:157`-`167`), on the worker when that drops a request's last reference:
here each of these is one step, so that a torn list is not among the states.

### PoolQueue

`queue` is the pool's queue.  `g_async_queue_push_sorted` walks from the end
past the elements the new one sorts before; `RenderThreadSort` is the
comparison.  View times are relative to the clock, which makes the state
finite: 0 is now, up to `MaxAhead` is later (drawing from a thumbnail asks for
a time as far ahead as the page has pixels), `Past` is all that has passed.

### PageCache

`scroll` is the GTK adjustment, `position` what the document last recorded:
they differ while `update_visible_pages` runs.  `sweep` is that loop's page, so
that each page is one step.  `cache`, `num` are the renderer's, `cached`,
`surface`, `thumbnail` the widgets'.  View times are kept as the order of the
pages by time, `past` and `future`.  A surface or an ask is "old" if it is from
before the last `RenderAll`.  The renderer is its abstract service: `job[p]`
is answered by `Completed` or dropped by `RenderFails`.  `HasIcon` adds the
icon's request, which `find_request_by_page_index` finds for page 0; `Wheel`
lets GTK scroll without zathura, where `PositionSet` records the position first.

Left out: several columns, horizontal scrolling, pages not attached to the
grid, the predecessor.

### JumpList

`list` and `cur` are the girara list and the iterator into it (0 for NULL);
the operators from `ResetCurrent` to `AddJump` are the functions of
`jumplist.c`, one each.  A position is its page.  Jumps come in two
kinds.  `JumpTo` (a number, marks, bookmarks) and `Bisect` are `JumpFromTo`,
"add, `page_set`, add", and `page_set` writes the list to the database if
`Continuous`.  `FollowTo` (links, rows of the index, searches, SyncTeX, `scroll top`
and `bottom`) makes the same two entries around a `position_set`, which writes
nothing.  `TurnTo` (next and previous page, panels, D-Bus) is `page_set` alone,
`Scroll` neither.  `Bisect` is `sc_bisect`: `BisectRange`
sets up the range, `Halfway` finds the page; `--next_page` wraps around at
`UIntRange`.  `Crash` ends the process without `Close`.

Left out: failing saves (`Store` has them), positions within a page, a file that has become shorter since its list was stored.

### Annotations

`rows` is the database table, `shown` the lists of all page widgets; `annots`
and `notes` are in the document as the plugin has it in memory, `disk` is the
file.  Each handler is one step, since all run on the main loop.

| code | actions |
|---|---|
| `sc_highlight`, `sc_cycle_highlight_color` | `MakeHighlight`, `CycleColor` |
| the page widget's button handler | `ClickHighlight`, `ClickAnnotation`, `ClickNote`, `ClickElsewhere` |
| `sc_delete_highlight` (x) | `DeleteMarked` for its first loop, `AskAboutEmbedded` for its second |
| `sc_confirm_embedded_delete` (y) | `ConfirmNote`, `ConfirmAnnotation`, and `AnswerNothing` when there is no document |
| `sc_abort` (Escape) | `Cancel` |
| `sc_toggle_highlights`, `cb_highlights_key_press` | `TogglePanel`, `PanelDelete`, `PanelCycle` |
| `cmd_highlights_import`, `cmd_highlights_export` (`cmd_annot_*` do the same with notes besides) | `Import`, `Export` |
| `document_open`, `document_close` | `Open`, `Close` |

`question` and `noteQuestion` are `embedded_delete_pending` and
`embedded_note_delete_pending` with what goes with them; `asked` remembers, for
the properties only, what x asked about since the last Escape.  A geometry is a
number, and `Match` is the comparison of rectangles with its tolerance: 0.5 in
`rects_match`, 1.0 in `highlights_geometry_match` (`EpsAssumption` has their
order, on which `NoEcho` rests: what the import takes for one the deletion does,
too).  `Origins` tells which
highlight a row or an annotation goes back to, through export and import.
Failures of database, plugin and saving are choices, at most `MaxFaults` of
them.  So is what a read gives: `zathura_db_load_highlights` returns NULL or the
rows it has come to when the database fails, and no caller tells that from a file
with no other highlights.  `seen`, any subset of the rows (`Readings`), is what
`document_open`, the panel, import, export and y go by.  The ghosts `failed` and
`revived` mark the two ways in which pages and database do part: a call of the
database that failed (the code goes on and often does not look), and a colour
written from a stale row of the panel, which brings a deleted highlight back.
`doubled` marks an import that was not given all the rows.

Left out: the text of a highlight and how it is selected; native notes and the
popup, of which `ClickNote` is the part that leaves a mark (`NoteEditor` has them); several embedded
notes on a page; whether the import finds the same highlight in two annotations;
filtering in the panel; a different document.

### DocumentLife

`zathura` has the fields of `zathura_t` that are about documents: the document
with the version of the file it was read from, the page it is at, whether it has
been on screen (`surface`), the predecessor, the file monitored, and the password
kept for the reload.  `disk` is the files, `history` the page of each in the
database, `idle` the main context's queue of idle callbacks, `notice` an event of
the file monitor that is not dispatched yet, `dialog` the password dialog.
Handlers are functions from one record of `zathura` to the next
(`DocumentClose`, `DocumentOpen`), since they call each other.

| code | actions |
|---|---|
| `document_open_idle` and who calls it: `cmd_open`, D-Bus `OpenDocument` | `CmdOpen`, `HandleOpenDocument`, both `RequestOpen`; `OpenIdle` is `document_info_open` |
| `cmd_close`, D-Bus `CloseDocument` | `Close` |
| `sc_file_chooser`, `file_picker_deferred_open` | `ChooseFile`, `PickFile`, both `OpenNow` |
| `sc_reload`, and `cb_file_monitor` on a change | `ReloadKey`, `MonitorEvent`, both `Reload` |
| `document_open_password_dialog`, `cb_password_dialog`, its cancellation | `ShowDialog`, `AnswerDialog`, `CancelDialog` |
| `cb_view_vadjustment_value_changed`, `handle_goto_page` | `Scroll`, `GotoPage` |
| `zathura_page_widget_update_surface` and `cb_refresh_view`, which let go of the predecessor | `Drawn`, `RefreshView` |
| `handle_highlight_rects` and its idle callback | `RequestHighlight`, `ShowHighlight` |
| other programs writing the file (external) | `StartWriting`, `FinishWriting` |

`sc_reload` hands `document_open` the very string `file_monitor.password`, which is
freed there before it is copied (`zathura.c:1113`).  `Recopied` has both outcomes of
that: the password is what it was, or `Garbled`, which opens nothing.
`OpenFirstPage` is the setting "open-first-page", which overrides every place.

The ghost `place` is the page each file was last shown at, whatever the database
says; `leftover` records that a reload failed and left its monitor.

Left out: what the renderer sees of a close (`RenderJobs` has it), file
information other than the page, documents read from standard input, the failure
paths after the plugin has opened the file.

### Fractions, Layout, View

`Fractions` is exact arithmetic on pairs, for positions, which are doubles in
the code.  `Layout` is `document.c`, `adjustment.c` and the geometry of
`document-widget.c`: pages to rows and positions and back, and the range of rows
(`grid`) that are attached when a document is too tall for one surface
(`cairo_max_size`, the constant `MaxSize`).

`View` is what the window shows.  A handler is a function from view to view
(`PageSet`, `PositionSet`, `SetZoom`, `RefreshView`, `ValueChanged`, ...), because
the code's handlers are such compositions, in one order or another.  It works in
two halves: zoom, grid and the adjustment's value are set at once, while upper
and page size stay those of the last allocation until GTK lays the window out
again (`Relayout`): then "changed" comes first and "value-changed" after it.
This order, and that GTK clamps the value in between, is the module's assumption
about GTK.  `Act` is what the reader and D-Bus may do, `Goings` to a page
(goto, next, marks, links, search, click), `Scrolls`, `Layouts` (zoom, fit,
rotate, columns, index, presentation), and `Resize` of the window; `MaxMoves`
bounds how many in one behaviour, with any number of relayouts between.

The ghosts: `asked` is the page gone to and not left; `skipped`, part of
`view`, is set where the code forgoes an update of the value (a layout change, a
focused inputbar, a grid remade under an unchanged value) until the next that is
made: what follows from forgoing one is listed in section 4.

A negative position asks `position_set` for the page's own, and that includes one
that was computed (`Negative`): with scroll-wrap, in a window twice as high as the
document.

`AskedPageShown` leaves out four ways of going to a page, since the page need not
come into view.  A zoom or a change of columns in the same handler may leave the
adjustment with the bounds of the grid before, to which the value is clamped
(`document-widget.c:348`): `Going` asks for `InBounds`.  After the inputbar
has resized the view, the height that pages are aligned by is the one before.  A
link to the lower half of the last page asks for a position beyond the document.
And a window made lower keeps its middle, so that a page at its edge leaves it.

### FilePicker

`panel`, `rows` and `visible` are the widgets; `content`, `fuzzy`, `text` and
`timer` are the search field's text and the data attached to it.  `timers` and
`searches` belong to the main loop and to other processes: they outlive the panel,
which an opening or closing document destroys, and find the next one.

| code | actions |
|---|---|
| `sc_toggle_file_picker`, Escape, `document_close` | `Show`, `Hide`, `CloseDocument` |
| `cb_file_picker_search_changed` | `Type` |
| `cb_file_picker_search_key_press` | `ToggleContent`, `ToggleFuzzy`, `EnterInField` |
| `file_picker_content_search_timer_cb` | `TimerFires` |
| `file_picker_rga_callback` | `Complete`: searches end in any order, or fail |
| `cb_file_picker_row_activated`, `file_picker_deferred_open` | `EnterInList`, `DeferredOpen` |

The ghosts: `asked` is the text of the last timer that fired; `disturbed` says
that the list was refilled in content mode, or that one of the searches since
the last pause failed or was overtaken.

### NoteEditor

A native note is a row of the database (`rows`) and an entry of its page's list
(`shown`); an embedded one is in the plugin's memory (`embedded`), in the file
(`disk`), and in a list that the page's widget asked for once (`icons`,
`retrieved`).  `popup` is the only popup: `Closed` is the signal with which it
saves, reported some time after `Dismiss`, when the document may be another.

| code | actions |
|---|---|
| `document_open`, `document_close`, drawing of a page | `Open`, `Close`, `Draw` |
| `sc_note_create`, `sc_abort` | `CreateNote`, `Abort` |
| the page widget's button handlers | `PressToPlace`, `Press`, `Release` |
| the popup (`note-popup.c`) and its callbacks `note_save_callback`, `note_delete_callback` | `Type`, `Dismiss`, `DeleteButton`, `Closed` |
| `sc_toggle_notes`, `cb_notes_key_press` | `TogglePanel`, `PanelDelete` |
| `cmd_annot_import`, `cmd_annot_export` | `Import`, `Export` |

A read of the notes that fails gives NULL or the rows it has come to, as that of
the highlights does: `seen`, a subset of what is stored (`Stored`).

Ghosts: `lost` (the database failed for an imported note, or when the notes were
read on opening), `faults`, and `target`, the note the popup was filled from.

### Store

`db` is what is committed, `tx` the transaction that writes, `session` the
processes: each has a stage, what it holds in memory, and whether its connection
is inside a transaction.  A stage is the statement that comes next, so that a
process can be killed (`Exit`) or another can step in between any two.

| code | actions |
|---|---|
| `sqlite_db_init` | `Start` |
| `sqlite_db_check_layout` | `Upgrade`: `CreateTable`, `TablesDone`, `CheckColumn`, `AddColumn`, `Retype`, `AddHash`, `SetVersion` |
| `zathura_bookmarks_load` and the lists, in `document_open` | `Open` |
| `bookmarks.c`, `cmd_bookmark_create`, with two statements for a move | `BookmarkCreate`, `AddMovedBookmark`, `RemoveBookmark` |
| jumps and marks made in memory | `AddRow`, `DropRow` |
| `save_fileinfo_to_db`, on a close or by `page_set`: `sqlite_save_jumplist`, `sqlite_save_quickmarks` | `Save`, `DeleteList`, `InsertRow`, `Commit` |

`Statement` executes one statement; SQLite's locks are external: a write fails with `SQLITE_BUSY` while another
process's transaction writes, a `COMMIT` that finds a reader fails and leaves the
transaction open.  Any statement may fail, and any process may be killed,
`MaxFaults` times in all.

The upgrade is statement by statement: each `CREATE` that makes a table, each
look-up of a column and each `ADD COLUMN` is a step.  `Alterations` has the columns
in the groups of the `ALTER` texts: the first of a group is what `check_column` looks
for.  A look-up has three results (`LookUp`): no answer, when nothing could be
prepared, and then the code skips the `ALTER` as if the column were there; not
found, which is also what a statement that fails to execute says; and found.  The
ghost `skipped` has the columns that were passed over so, in the session and, once
the version is set, in the layout.  Other ghosts: `stuck` says that a connection got into a
transaction for good (a `COMMIT` or the rebuilding of `fileinfo` failed, whose
results the code does not look at), `drift` that the bookmarks in memory need not
be the table's (a statement failed, or another process wrote).

## 4. The runs

Passing, with their bounds:

* `RenderJobs`: 1 page, an icon, 3 jobs: safety, refinement and liveness.  Two
  requests are what it takes for one to be dropped while the other has jobs;
  three jobs let a request have an aborted, a posted and a live one at once;
  more repeat the same, and section 5 has safety and refinement for any number.
* `PageCache` (1,002,073 states): 3 pages, 2 cells, zathura scrolls.  A page
  enters a full cache with a choice of what to evict, and an evicted page may
  come back.
* `PageCacheLive` (6,385): 2 pages, 1 cell, GTK scrolls too, with an icon.
  Every page that becomes visible evicts the other; what stays on screen is shown.
* `PoolQueue`: 3 jobs, penalties up to 2: enough for a job to be passed by one
  that is then passed itself.
* `JumpList` (352,640): 4 pages, sizes 0 to 3.  Four pages make a bisection of
  two steps; sizes 0, 1, 2, 3 are the empty list, the list too short for a jump,
  just long enough, and longer.
* `Annotations` (2,935,499): 1 page, 2 identifiers, 1 origin, geometries 0, 1
  and 3, one colour, one failing call or read.  With the tolerances 1 and 2, geometries 0
  and 1 are one to both comparisons, 1 and 3 to the deletion only, 0 and 3 to
  none.  Two highlights are one that is deleted and one that must not be.
* `DocumentLife` (449,129): 2 files, one of them encrypted and written once by
  another program, 2 idle callbacks at a time.  The second file is what makes a
  left monitor the wrong one; two callbacks make a second request wait behind a
  first.  `FollowsFile` is checked under fairness.  `OpenFirstPage` is off: on, every
  page is 0 and `PlaceKept` says little; the proof has both.
* `View` (106,690): 5 pages of heights 2 and 4, a grid of at most 20 pixels (so
  that some zooms attach two rows, others all), two heights of the window, targets
  in both halves of a page, no switch or all four, any two actions.  Two actions are
  one that leaves something unfinished and one that comes before GTK has finished
  it.  Windows of 2 and 12 pixels with grids of up to 60 and three actions (no
  switch, and no jumps to stored positions) are 244,648 states, and the properties
  hold too; section 5 has them for any document, and `MCView` assumes what is
  assumed there (`SurfaceIsHigh`).
* `FilePicker` (431,760): 6 files whose names tell the three kinds of match
  apart, 3 texts, 2 timers and 2 searches at once (an overtaking needs two).
* `NoteEditor` (740,260): 1 document, 1 place, 2 identifiers, 2 texts, one
  failing call or read.  The document may be closed and reopened, which is all it takes for
  a late signal to find another one; two notes at a place make import and export
  compare.
* `Store` (6,305,915): 2 processes, 1 file, 1 bookmark, no jump, 2 marks, 5 layouts
  (no file, one before version 1 that lacks most columns, one whose
  first_page_column has another type, version 1, the current one), 1 failure or
  kill.  Two marks make a list of which half could be written; the jump list is saved
  by the same statements, and is always empty here.  Two processes are an owner and
  one that is locked out.

Violation: `RenderJobsFreed`.  The document is freed while the worker renders one
of its pages; PROJECT.json quotes the comments under "findings".

Other disagreements between the code and its own words, or with itself, met while
modelling.  The models have the code's behaviour; each property is stated so that
it holds beside it, and its comment says what it leaves aside.

*Renderer and cache.*  If the worker drops the renderer's last reference,
`renderer_finalize` waits for the pool's thread on that thread (`render.c:147`).
With GTK scrolling, a surface can be kept outside the cache
(`callbacks.c:125`), and the icon's request takes page 0's place, so that page 0
is evicted although just viewed (`render.c:965`).  `render.c:942` says that
aborted entries are sorted earlier: the comparison sorts them later.  The view
time that `page-cache-size` evicts by is that of becoming visible, so a page in
view all along may go before one out of sight.

*Jump list.*  "continuous-hist-save" is to save "document history at each page
change" (`doc/man/zathurarc.5.rst:629`).  Only `page_set` does: a link, a row of the
index, a search, SyncTeX and `scroll top` change the page and save nothing, and after
a crash both their entries are gone (`FollowTo`; `DepartureSaved` is about the other
jumps).  `jumplist.h:90` says that a maximum of 0 is unbounded (it keeps the
list empty); `jumplist.h:55` that an item goes after the current position (it goes
to the end); `shortcuts.c:862` that the next page is within the range bisected
(a numeric prefix sets the range and may return before it sets `last_jump`, so
that a later call takes up a range without the page: `Counts` leaves prefixes out).

*Highlights and notes.*  A read that fails counts as "nothing is stored".  An import
then takes everything again, highlights and notes alike, under new identifiers; a
document opens without what it has, and no message says so; y deletes the
annotation, but neither the rows nor what the pages show of it.  Escape takes back only one of the two questions
(`shortcuts.c:98`): a later y still deletes the embedded note asked about before.
`page-widget.h:231` says to refresh the embedded notes after deleting one:
`sc_confirm_embedded_delete`, an export and the panel do not, so icons stay.
"Highlight deleted" is also said when the panel had deleted it before.  The popup
does not save a blank text, although its comment says "(or if editing existing
note)"; a text is lost if the document closes while the popup fades.  Deleting a
native note leaves its embedded copy, which the next import brings back.  x in the
panel frees a native note that the button may be held on.

*Document life.*  A reload frees the password and then copies it
(`zathura.c:1113`, `shortcuts.c:536`): what the next reload opens the document with
may be anything, so that an encrypted document may ask for its password again.
The check at `zathura.c:1016` lets a page pass that equals the
number of pages.  A reload that fails keeps its monitor, so that a document
opened next is watched by the monitor of the other file, a change of which closes
it and opens the other at its place; without a surface the place is lost.  Of two
requests queued, the second is lost in silence, though D-Bus answered true.  The
password dialog, answered while another document is open, says "Incorrect
password" each time.  `document_open_synctex` hands over password and URI in each
other's place; `sc_file_chooser` opens at page 0; `cb_password_dialog` forgets the
page asked for.  `HighlightRects` is carried out later, with an array as long as
the document was.  A write by another program during a save of zathura's own goes
unnoticed (the monitor is stopped meanwhile).

*View.*  The top of the document is not reached by `scroll top`, which a test for
a ratio of 0.0 skips.  A link to the lower half of the last page asks for a
position beyond 1 (`links.c:131` says that the target is aligned to the top; it is
centred), which wraps around to row 0; so does 1.0 without padding.  A change of
layout re-centres the grid without setting the value.  A drag by exactly what the
grid then moves leaves the value equal, and the position unset; so does a drag to
the grid's edge when a relayout remakes it.  A zoom and a goto in one handler are
clamped by the bounds of the zoom before, and a document reopened near its end by
those of the window.  After `:` or `/` the "inputbar" mode stays, so that resizes
are ignored until the next zoom.  A cell larger than `cairo_max_size` gives a grid
of no rows and an unsigned underflow; zooming in keeps a grid that is too tall
then.  Zooming out far keeps the few rows of the large zoom as long as they
hold half a window and half a page around the position: near an end of the document
they may be lower than the window, which then is not filled though there are more
pages.  Search stays at the first hit of a page that can never become current.

*File picker.*  Toggling the panel in content mode fills it with files.  Results
of an earlier search replace those of a later one.  A timer with an empty text
that fires after Ctrl+T empties the list of files.  Enter in the list, or a
double click, drops the page of the match.  A timer of an earlier panel clears the
field's timer of the new one.

*Store.*  A list that could not be read (`SQLITE_BUSY`) starts empty, and the
close then deletes the stored one; bookmarks that could not be read stay those of
the document before.  The result of `COMMIT` is not looked at: the transaction
stays open, what is written later is never committed, others are locked out.
Moving a bookmark is two statements, and success is reported in between
(`commands.c:62`).  A look-up of a column that has no answer counts as no failure of
the upgrade (`database-sqlite.c:284`): version 6 is set over a layout without that
column, and nobody looks again.  Of the statements of `SQL_FILEINFO_ALTER` and
`SQL_BOOKMARK_ALTER` only the first one's column is looked for: killed or failing in
between, position_x, position_y or vadj_ratio are lost for good, and with vadj_ratio
every bookmark.  The retyping's `INSERT ... SELECT *` copies the old rows into a
table with a column more (adjust_mode, which is in no `ALTER`, and which no other
statement reads or writes): it fails, and leaves its transaction open.
`ADD sha256` is unconditional: after a crash before the version is set, every
start fails to set it, and so does a second process that finds the file of the first
with tables and no version yet.  A failing `CREATE` closes the connection that is then
used.  Of two processes the last to close overwrites the other's lists; a crash
loses the marks made since the opening.

Deadlock is checked in all runs but these (`CHECK_DEADLOCK FALSE`): `RenderJobs*`,
because a document's life ends; `PageCache*`, because a still document with
everything drawn has nothing to do; `View`, because the reader's actions are
bounded.

Mutants.  Next to a definition stand mutated forms of it, commented as such;
replacing the definition by the mutant makes TLC refute the property that
PROJECT.json names with it.

### Fairness

`RenderJobs`: the worker keeps working and the main loop keeps dispatching
(weak); `document_open` and `document_close` return (weak); a live job is not
passed over for ever (strong, `TakeLive`).  The last is a property of the
queue: `PoolQueue` checks it as `LiveJobsServed`, from weak fairness of the
worker and the clock.  Nothing forces requests, aborts or the close.

`PageCache`: callbacks run to their end (weak); resizes, redraws and answers are
strong, since each is only possible between callbacks, and GTK and the main
context do not forget them.  `ShownEventually` is under the conditions that the
page stays on screen and the layout stops changing, and that the plugin renders.

`DocumentLife`: the main loop dispatches the monitor's event, and the idle
callbacks (weak, each source of its own).  Nothing forces requests, writes or an
answer to the dialog.

The other modules check safety only.

## 5. The proofs

All are for any value of the constants that the named assumptions allow.  Each
proof module has first lemmas about the module's operators, then one lemma per
action or group of actions, then the theorems.

* `RenderJobsProofs`: the four invariants of the run, types, that nothing is
  finalised before it is drained, and the refinement of `RenderService`.  Two
  layers: `JobInv` is about jobs and the worker only: types, a job in use has a
  request, the worker has a job exactly when its `pc` says so, lists are exact,
  one live job per request, nothing is aborted or closed while opening.  Lists
  being exact is what makes "no unfinished job" in `zathura_render_request` mean
  that the request has none.  `RefInv` adds the counting: `refs[r]` is the number
  of jobs pointing at `r` plus one if main owns it, `rendererRefs` the number of
  registered requests plus one until main lets go, and in which phases main owns
  what.  Each action changes one set by one element, so the steps rest on the
  library's cardinality theorems.  The refinement uses `JobInv`: an answered job is
  not aborted, hence its request's only live job, so taking it off settles the ask.
* `PageCacheProofs`: `CacheInv` joins the well-formed cache, the flags, and that
  every cached page has a view time, which the choice of what to evict needs.
  `ViewInv` adds what a sweep has done so far and where surfaces are.  That what
  is invisible is only cached assumes that GTK does not scroll on its own
  (`~Wheel`), that the oldest is evicted that there is no icon (`~HasIcon`): with
  either they are false (section 4).
  `WidgetsUseService` joins the two models of rendering: `PageCache`, with the
  signals added that it leaves out (`completed`), implements `RenderService` as
  `RenderJobs` does: the widgets' side and the threads' side of one interface.
  The module ends with the queue, as the instance `Pool` of `PoolQueue`: its
  types, and `NoneOvertakes`: a push changes the order of none that were there, and
  passes only jobs that it sorts before, found through the place at which the
  backward walk stops.
* `NavigationProofs`, on `JumpList`: the cursor and the list are well formed (by lemmas on the
  list that adding and trimming leave), a jump of either kind can be undone, and what
  one that sets the page left is saved.  `BisectionInRange` is `BisectBounds` as long as no prefix is the number of
  a page of the document (`NoPrefix`), by an invariant about the three numbers that
  `sc_bisect` keeps between two calls: `last_jump` is in the range (`Bisectable`), so
  that the range may be taken up again by whoever is back there, and everybody else
  gets a new one around the page.  The hypothesis is needed: a prefix sets the range
  and may return before it sets `last_jump`; back at the old one, the next call halves
  a range without the page.  TLC finds that with `Counts = {0, 2, 4}` (section 4).
* `NavigationProofs`, on `View`: both of its invariants, for any number of pages,
  heights, windows, switches and positions.  Positions are fractions, so the proof
  begins with them: `GcdSolves` shows that the recursion of `Gcd` has a solution (the
  greatest common divisor, defined otherwise, is one), and from it follow
  `FracEqual` (equal values have equal lowest terms) and what each operator does to
  n / d.  On these rest the three facts about the geometry.  `RatioShows`: the
  position `cb_view_vadjustment_value_changed` reads from a value is one that this
  value shows.  `SetShows`: the value
  `zathura_document_widget_set_value_from_ratio` sets shows the position, if the
  grid covers it and the adjustment has the grid's bounds.  `RenderRangeCovers`: a
  grid made around a position covers it; what `Covers` compares, rows of pages at
  half a view and half a cell, is by `CoversMeans` a distance in pixels.

  The inductive invariant is `Laid`.  `Sound`: the grid is in the document and, at
  whatever zoom it is kept, fills the window; the value is in the bounds of the
  adjustment; these are the grid's and the window's, or GTK will lay the window
  out (`queued`).  `Synced`: the value shows the position, unless it was not set
  (`skipped`) or the bounds are not the grid's.  It has to speak of values under
  bounds that are about to change, since handlers come between, and it must not
  promise more: a value set under old bounds shows nothing in particular, and it is
  "changed" that sets it again.  `Eased`: `adjust_view` has nothing to do, or GTK will
  call it.  `Steady`, of the page asked for: bounds, grid and zoom are as GTK would
  make them, so that a layout in between changes nothing (`SteadyRelaid`), and the
  page is in view, because its position `Aims` at it: half a view around it holds
  some of the page.

  The hypothesis of the three theorems is `SurfaceIsHigh`: a surface holds at least
  the rows half a view and half a cell around a position, so that only the ends of the
  document, never those of a grid, are nearer; and the rows of one zoom fill the
  window at any other, since a zoom keeps the grid until it no longer covers the
  position.  `cairo_max_size` is 32,767 pixels.  The first part holds while three rows
  fit into a surface (pages up to 10,900 pixels high) in windows up to 6,500; with
  fewer rows the ends of the grid come nearer than half a window.  The second part
  ties the zooms together: pages from 100 to 3,000 pixels in a window of 1,000 are
  within it, all that `zoom-min` and `zoom-max` allow by default are not.  It is
  needed: without it TLC finds a grid of the last rows that is kept while zooming
  out and ends up lower than the window (section 4).
* `DocumentLifeProofs`: `LifeInv` is types, what is watched and by whom (with the
  password, or what a reload made of it: `Recopied` changes nothing else), that the
  page on screen is `place`, and that the history is the last place.
  `ReloadsInPlace` adds `DrawnKept`: once a document on screen has been closed by a
  reload, its predecessor stays until a reload succeeds or the watch ends, and the
  page it has is the one the file was shown at.  With "open-first-page" that page is
  not looked at.
* `FilePickerProofs`: `PickerInv` has the field's timer pending, a list of files
  only in filename mode, the filter current, and what runs is what was asked, also
  when what is undisturbed has been waiting (`ResultsComing`): then the last
  search's text is that of the field, hence the results are.  `SeenMatches` says
  what the filter computes, for names and texts of any length: `UsedExists` solves
  the recursion of `file_picker_filter_func` by the least length for which it would
  have no solution; `UsedEmbeds` and `EmbeddedIsUsed` show, again by least
  counterexamples, that taking each letter where it first comes finds an embedding
  if there is one.
* `NoteEditorProofs`: `NoteInv` has the pressed note listed, notes shown and
  stored agreeing unless `lost`, every identifier once, and `PopupKnows`: what the popup was
  filled from is in the document it names, whatever happened since.
* `StoreProofs`: `StoreInv` is types, that the committed layout is one a version
  leaves (`Written`), and for each process: `Known` (what an upgrade may count on
  at each of its stages), `Stands` (when it can be in a transaction), `Reads` (its
  bookmarks are the ones its connection sees) and `Writes` (a transaction that saves
  changes one list, from what the process has in memory, and the rest to be
  inserted).  `Known` says at each stage which columns the connection sees or has
  passed over (`Found`, up to the group the upgrade has come to), as long as nothing
  failed; it survives other processes because nobody takes anything away from a layout
  (`Grows`), and a fresh file gets its version because the tables made by this version
  are whole (`Whole`).  That a current version means a complete layout assumes files
  that an earlier version left (`LayoutsAssumption`), as the code does, and leaves out
  what was `skipped`.
* `AnnotationsProofs`, in two layers.  `ListsInv` joins `WellFormed` and what the
  steps need of it: rows, pages and panel differ about a highlight in its colour
  only (`SameHighlight`: the panel writes a colour from a row that may be stale), an
  identifier has one row, a mark names no highlight of another page, and a pending
  question was asked (`asked`).  Pages and database part only with a failure (`failed`), whatever `seen` was
  read.  From it follow `LosesOnlyAsked` and
  `LosesEverywhere`, each from what y does: only `ConfirmAnnotation` takes an
  annotation away, and it deletes what matches it with the wider tolerance.
  `EchoInv` is `NoEcho` with, as long as no import was short of rows (`doubled`), `Copies`, which is about the two copies of the
  annotations, memory and file: there is one annotation of a highlight at most, the
  import finds a row of the same origin equal to it, and one that is in the file and
  has a row is in memory, too.  The last part is why reopening makes no second
  highlight: an annotation deleted and not saved comes back without rows.

Proving also cleared up the models: in `JumpList`, two `CASE` forms with
overlapping guards became `IF`s, and in `Store` the row written next, a `CHOOSE`
before, became a choice among them all.

`Fractions` has its `Gcd` as a function of functions, which the recursion can be
unfolded from, and `View` records a remade grid (`skipped`) where it is remade.  The
proof of `AskedPageShown` found the limits that section 3 names under `View`.

Only model-checked: the liveness properties (`AsksAreSettled`, `DrainsAfterFree`,
`ShownEventually`, `LiveJobsServed`, `FollowsFile`), which need temporal reasoning
about fairness, and `BisectBounds` with prefixes, for which it is false (section 4).

## 6. Not modelled

Plugins (the registry is filled once, at start; what they do is outside the
repository), printing, Readwise and content types (straight-line code around GTK,
HTTP and libmagic), the sandbox (lists handed to the kernel once), option parsing
and the tables that bind settings, keys and commands to the operations modelled,
the completion of the command line (it keeps no state), running a SyncTeX editor,
pixels and wording, GTK's and girara's own code (modelled where the code depends
on it, and marked external).

Within the modelled parts: section 3 says under each module what it leaves out;
PROJECT.json "components" has it by part.  The horizontal axis other than which
column is in the middle, right-to-left columns, and the device's scale are not in
`View`; the predecessor's drawing in place of a page without a surface is in
`DocumentLife` only as being kept or freed; input history, recent files and the
file information other than the page are not in `Store`.
