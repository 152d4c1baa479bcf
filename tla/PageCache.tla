----------------------------- MODULE PageCache -----------------------------
(***************************************************************************)
(* What is shown and what is kept: the page widgets' surfaces, the pages'  *)
(* visibility flags and the renderer's page cache (page-widget.c, the      *)
(* cache functions of render.c, the adjustment callbacks of callbacks.c).  *)
(*                                                                         *)
(* Everything here runs on the main thread.  The worker is seen through    *)
(* the render service (RenderService): a page has at most one ask, which   *)
(* is answered or dropped.  An ask made before the last change of layout   *)
(* may still be answered with a surface in the old size.                   *)
(*                                                                         *)
(* The document is one column of pages; the viewport at scroll position x  *)
(* shows pages x .. x+Span-1.                                              *)
(***************************************************************************)
EXTENDS Integers, Sequences, SequencesExt

CONSTANTS
  NumPages,    \* zathura_document_get_number_of_pages
  Span,        \* how many pages the viewport shows
  CacheSize,   \* page-cache-size
  HasIcon,     \* window-icon-document: page 0 has a second render request
  Wheel,       \* GTK scrolls the view on its own (wheel, scrollbar, touch)
  Reliable     \* the plugin never fails to render

ASSUME SizesAssumption ==
  /\ NumPages \in Nat \ {0} /\ Span \in 1..NumPages /\ CacheSize \in Nat \ {0}
  /\ HasIcon \in BOOLEAN /\ Wheel \in BOOLEAN /\ Reliable \in BOOLEAN

Pages == 0 .. NumPages - 1
Scrolls == 0 .. NumPages - Span
Cells == 1 .. CacheSize
Empty == -1

OnScreen(x) == x .. x + Span - 1

VARIABLES
  scroll,     \* where the view is: the GTK adjustment
  position,   \* the document's position, as zathura last recorded it
  sweep,      \* update_visible_pages: the next page; NumPages when not running
  visible,    \* the pages flagged visible
  cache,      \* renderer->page_cache.cache
  num,        \* renderer->page_cache.num_cached_pages
  cached,     \* the page widgets with priv->cached set
  past,       \* the requests' view times, as pages in order of time: until now,
  future,     \*   and ahead of now (the penalty of draws from a thumbnail)
  surface,    \* priv->surface of each widget: none, or of which layout
  thumbnail,  \* the widgets with a priv->thumbnail
  job,        \* the live ask of each page: none, or the oldest layout it saw
  resize,     \* the widgets with a resize queued and not yet allocated
  dirty       \* the widgets with a redraw queued

viewVars == <<scroll, position, sweep, visible>>
cacheVars == <<cache, num, cached>>
timeVars == <<past, future>>
widgetVars == <<surface, thumbnail, job, resize, dirty>>
vars == <<scroll, position, sweep, visible, cache, num, cached, past, future,
          surface, thumbnail, job, resize, dirty>>

TypeOK ==
  /\ scroll \in Scrolls /\ position \in Scrolls
  /\ sweep \in 0..NumPages
  /\ visible \subseteq Pages
  /\ cache \in [Cells -> Pages \union {Empty}]
  /\ num \in 0..CacheSize
  /\ cached \subseteq Pages
  /\ past \in Seq(Pages) /\ future \in Seq(Pages)
  /\ surface \in [Pages -> {"none", "old", "current"}]
  /\ thumbnail \subseteq Pages
  /\ job \in [Pages -> {"none", "old", "current"}]
  /\ resize \subseteq Pages /\ dirty \subseteq Pages

\* document_open ends with update_visible_pages at the restored position.
Init ==
  /\ scroll \in Scrolls /\ position = scroll
  /\ sweep = 0
  /\ visible = {}
  /\ cache = [i \in Cells |-> Empty] /\ num = 0 /\ cached = {}
  /\ past = <<>> /\ future = <<>>
  /\ surface = [p \in Pages |-> "none"]
  /\ thumbnail = {}
  /\ job = [p \in Pages |-> "none"]
  /\ resize = Pages /\ dirty = Pages

Idle == sweep = NumPages

-----------------------------------------------------------------------------
(* View times *)

\* last_view_time = now
Touch(p) ==
  /\ past' = Append(RemoveFirst(past, p), p)
  /\ future' = RemoveFirst(future, p)

\* last_view_time = now + penalty, wherever that falls among the later ones
TouchAhead(p) ==
  /\ past' = RemoveFirst(past, p)
  /\ LET rest == RemoveFirst(future, p) IN
     \E k \in 1 .. Len(rest) + 1 : future' = InsertAt(rest, k, p)

\* Time goes by.
Tick ==
  /\ Idle /\ future # <<>>
  /\ past' = Append(past, Head(future)) /\ future' = Tail(future)
  /\ UNCHANGED <<viewVars, cacheVars, widgetVars>>

\* Page p was viewed before page q.
Before(p, q) ==
  LET order == past \o future IN
  \E i, k \in 1..Len(order) : i < k /\ order[i] = p /\ order[k] = q

-----------------------------------------------------------------------------
(* The page cache *)

Cached == {cache[i] : i \in Cells} \ {Empty}

\* find_request_by_page_index finds the icon's request, which has never been
\* viewed and has no page widget listening to it, before that of page 0.
FindsIcon(p) == HasIcon /\ p = 0

\* Mutant: the comparison of the view times is the wrong way round.
MruCell ==
  CHOOSE i \in Cells : \A k \in Cells \ {i} :
    \/ FindsIcon(cache[i])
    \/ ~FindsIcon(cache[k]) /\ Before(cache[k], cache[i])

\* page_cache_lru_invalidate: the cell whose request has the oldest view time
LruCell ==
  CHOOSE i \in Cells : \A k \in Cells \ {i} :
    \/ FindsIcon(cache[i])
    \/ ~FindsIcon(cache[k]) /\ Before(cache[i], cache[k])

\* The widgets whose "cache-added" or "cache-invalidated" handler runs.
Listening(p) == {p} \ (IF HasIcon THEN {0} ELSE {})

\* Mutant: the widget does not listen to "cache-invalidated".
DropNothing(q, flagged) == UNCHANGED <<surface, thumbnail>>

\* The surfaces, thumbnails and flags when "cache-invalidated" is emitted for q.
DropEvicted(q, flagged) ==
  IF Listening(q) # {} /\ q \in cached /\ q \notin flagged /\ surface[q] # "none"
    THEN /\ surface' = [surface EXCEPT ![q] = "none"]
         /\ thumbnail' = thumbnail \ {q}
    ELSE UNCHANGED <<surface, thumbnail>>

\* Mutants: no test for a page that is in it already; no signal to the widget
\* of the page evicted.
CacheAddTwice(p, flagged) ==
  /\ cache' = [cache EXCEPT ![IF num = CacheSize THEN LruCell ELSE num + 1] = p]
  /\ num' = IF num = CacheSize THEN num ELSE num + 1
  /\ cached' = cached \union Listening(p)
  /\ UNCHANGED <<surface, thumbnail>>

CacheAddSilently(p, flagged) ==
  IF p \in Cached THEN UNCHANGED <<cacheVars, surface, thumbnail>>
  ELSE /\ cache' = [cache EXCEPT ![IF num = CacheSize THEN LruCell ELSE num + 1] = p]
       /\ num' = IF num = CacheSize THEN num ELSE num + 1
       /\ cached' = cached \union Listening(p)
       /\ UNCHANGED <<surface, thumbnail>>

\* zathura_renderer_page_cache_add
CacheAdd(p, flagged) ==
  IF p \in Cached THEN UNCHANGED <<cacheVars, surface, thumbnail>>
  ELSE IF num = CacheSize
  THEN LET q == cache[LruCell] IN
       /\ DropEvicted(q, flagged)
       /\ cache' = [cache EXCEPT ![LruCell] = p]
       /\ num' = num
       /\ cached' = (cached \ Listening(q)) \union Listening(p)
  ELSE /\ cache' = [cache EXCEPT ![num + 1] = p]
       /\ num' = num + 1
       /\ cached' = cached \union Listening(p)
       /\ UNCHANGED <<surface, thumbnail>>

-----------------------------------------------------------------------------
(* Scrolling: the adjustment's value-changed runs update_visible_pages with  *)
(* the position it then goes on to replace.                                  *)

\* GTK moves the adjustment.
WheelTo(x) ==
  /\ Wheel /\ Idle /\ x # scroll
  /\ scroll' = x
  /\ sweep' = 0
  /\ dirty' = dirty \union (OnScreen(x) \ OnScreen(scroll))
  /\ UNCHANGED <<position, visible, cacheVars, timeVars, surface, thumbnail, job, resize>>

\* position_set: the document's position first, then the adjustment, whose
\* value-changed is only emitted if it changes.
PositionSet(x) ==
  /\ Idle /\ x # position
  /\ position' = x
  /\ scroll' = x
  /\ sweep' = IF x = scroll THEN NumPages ELSE 0
  /\ dirty' = dirty \union (OnScreen(x) \ OnScreen(scroll))
  /\ UNCHANGED <<visible, cacheVars, timeVars, surface, thumbnail, job, resize>>

\* The last thing the value-changed callbacks do is record the position.
SweepOn(p) ==
  /\ sweep' = p + 1
  /\ position' = IF p + 1 = NumPages THEN scroll ELSE position
  /\ UNCHANGED <<scroll, resize, dirty>>

BecomesVisible(p) ==
  /\ sweep = p /\ p \in OnScreen(position) /\ p \notin visible
  /\ visible' = visible \union {p}
  /\ Touch(p)
  /\ CacheAdd(p, visible')
  /\ UNCHANGED job
  /\ SweepOn(p)

\* zathura_page_widget_abort_render_request
AbortRenderRequest(p) ==
  /\ job' = [job EXCEPT ![p] = "none"]
  /\ IF surface[p] # "none" /\ p \notin cached
       THEN /\ surface' = [surface EXCEPT ![p] = "none"]
            /\ thumbnail' = thumbnail \ {p}
       ELSE UNCHANGED <<surface, thumbnail>>

BecomesInvisible(p) ==
  /\ sweep = p /\ p \notin OnScreen(position) /\ p \in visible
  /\ visible' = visible \ {p}
  /\ AbortRenderRequest(p)
  /\ UNCHANGED <<cacheVars, timeVars>>
  /\ SweepOn(p)

StaysAsItIs(p) ==
  /\ sweep = p /\ (p \in OnScreen(position) <=> p \in visible)
  /\ UNCHANGED <<visible, cacheVars, timeVars, surface, thumbnail, job>>
  /\ SweepOn(p)

-----------------------------------------------------------------------------
(* Drawing, rendering, resizing *)

\* Mutant: a page that has a thumbnail to show does not ask for its surface.
DrawThumbnailOnly(p) ==
  /\ Idle /\ p \in dirty \intersect OnScreen(scroll) /\ p \notin resize
  /\ dirty' = dirty \ {p}
  /\ IF surface[p] = "none" /\ job[p] = "none" /\ p \notin thumbnail
       THEN /\ job' = [job EXCEPT ![p] = "current"]
            /\ Touch(p)
       ELSE UNCHANGED <<job, timeVars>>
  /\ UNCHANGED <<viewVars, cacheVars, surface, thumbnail, resize>>

\* zathura_page_widget_draw; GTK draws what is on screen, and allocates first.
Draw(p) ==
  /\ Idle /\ p \in dirty \intersect OnScreen(scroll) /\ p \notin resize
  /\ dirty' = dirty \ {p}
  /\ IF surface[p] = "none" /\ job[p] = "none"
       THEN /\ job' = [job EXCEPT ![p] = "current"]
            /\ IF p \in thumbnail THEN TouchAhead(p) ELSE Touch(p)
       ELSE UNCHANGED <<job, timeVars>>
  /\ UNCHANGED <<viewVars, cacheVars, surface, thumbnail, resize>>

\* GTK may ask for a redraw of what is on screen at any time.
Expose(p) ==
  /\ Idle /\ p \in OnScreen(scroll) \ dirty
  /\ dirty' = dirty \union {p}
  /\ UNCHANGED <<viewVars, cacheVars, timeVars, surface, thumbnail, job, resize>>

\* "completed": cb_update_surface; the redraw it queues shows the new surface.
Completed(p) ==
  /\ Idle /\ job[p] # "none"
  /\ job' = [job EXCEPT ![p] = "none"]
  /\ \E layout \in {job[p], "current"} : surface' = [surface EXCEPT ![p] = layout]
  /\ thumbnail' = thumbnail \union {p}
  /\ dirty' = dirty \union {p}
  /\ UNCHANGED <<viewVars, cacheVars, timeVars, resize>>

RenderFails(p) ==
  /\ ~Reliable /\ Idle /\ job[p] # "none"
  /\ job' = [job EXCEPT ![p] = "none"]
  /\ UNCHANGED <<viewVars, cacheVars, timeVars, surface, thumbnail, resize, dirty>>

\* render_all, after the zoom, the rotation or the colours have changed.
RenderAll ==
  /\ Idle
  /\ resize' = Pages
  /\ surface' = [p \in Pages |-> IF surface[p] = "none" THEN "none" ELSE "old"]
  /\ job' = [p \in Pages |-> IF job[p] = "none" THEN "none" ELSE "old"]
  /\ UNCHANGED <<viewVars, cacheVars, timeVars, thumbnail, dirty>>

\* Mutant: the surface survives the resize.
SizeAllocateKeepsSurface(p) ==
  /\ Idle /\ p \in resize
  /\ resize' = resize \ {p}
  /\ AbortRenderRequest(p)
  /\ dirty' = dirty \union {p}
  /\ UNCHANGED <<viewVars, cacheVars, timeVars>>

\* zathura_page_widget_size_allocate: abort, then drop the surface for good.
SizeAllocate(p) ==
  /\ Idle /\ p \in resize
  /\ resize' = resize \ {p}
  /\ job' = [job EXCEPT ![p] = "none"]
  /\ surface' = [surface EXCEPT ![p] = "none"]
  /\ thumbnail' = IF surface[p] # "none" /\ p \notin cached THEN thumbnail \ {p} ELSE thumbnail
  /\ dirty' = dirty \union {p}
  /\ UNCHANGED <<viewVars, cacheVars, timeVars>>

-----------------------------------------------------------------------------

Sweep == \E p \in Pages : BecomesVisible(p) \/ BecomesInvisible(p) \/ StaysAsItIs(p)

Next ==
  \/ \E x \in Scrolls : WheelTo(x) \/ PositionSet(x)
  \/ Sweep
  \/ \E p \in Pages : Draw(p) \/ Expose(p) \/ Completed(p) \/ RenderFails(p) \/ SizeAllocate(p)
  \/ RenderAll
  \/ Tick

Spec == Init /\ [][Next]_vars

(* A callback runs to its end; GTK gets round to queued resizes and redraws  *)
(* of what stays on screen (strong, because they wait for callbacks to end); *)
(* and an ask that is not aborted is answered (RenderJobs!AsksAreSettled).   *)
Fairness ==
  /\ WF_vars(Sweep)
  /\ \A p \in Pages : SF_vars(SizeAllocate(p)) /\ SF_vars(Draw(p)) /\ SF_vars(Completed(p))

FairSpec == Spec /\ Fairness

-----------------------------------------------------------------------------
(* What must be true *)

\* The cache holds distinct pages in its first num cells and nothing beyond:
\* what page_cache_is_full and the store at cache[num++] rely on, through any
\* sequence of additions and evictions.
CacheWellFormed ==
  /\ TypeOK
  /\ \A i \in Cells : cache[i] # Empty <=> i <= num
  /\ \A i, k \in 1..num : cache[i] = cache[k] => i = k

\* A widget believes it is cached exactly when it is; the icon's request
\* swallows the signals meant for page 0.
FlagsMatchCache == cached = Cached \ (IF HasIcon THEN {0} ELSE {})

\* A widget with a surface, or an ask, from before the last change of layout
\* is about to be resized, which discards both: no surface of the wrong size
\* is ever drawn, although the worker reads the zoom whenever it gets to it.
OldLayoutIsDiscarded ==
  \A p \in Pages : surface[p] = "old" \/ job[p] = "old" => p \in resize

\* Memory: a page out of sight keeps its surface only if it is in the cache.
InvisibleOnlyCached ==
  Idle => \A p \in Pages : surface[p] # "none" /\ p \notin visible => p \in cached

\* The page evicted from the cache is the one viewed least recently.
EvictsLeastRecent ==
  [][\A p \in Cached \ Cached' : \A q \in Cached \ {p} : Before(p, q)]_vars

\* Whatever scrolling, eviction, aborts and resizes do: a page that stays on
\* screen comes to be shown in the current layout.
ShownEventually ==
  \A p \in Pages :
    <>[](p \in OnScreen(scroll)) /\ <>[][~RenderAll]_vars => []<>(surface[p] = "current")

=============================================================================
