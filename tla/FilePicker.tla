----------------------------- MODULE FilePicker -----------------------------
(***************************************************************************)
(* The file picker (callbacks.c, shortcuts.c): a panel with a search field *)
(* and a list, which holds the files found on disk, filtered by the field, *)
(* or, in content mode, what rga found for the field.                      *)
(*                                                                         *)
(* A content search waits 300 ms for the next key (a timer), then runs in  *)
(* another process, and several may run at once.  Timers and searches do   *)
(* not belong to the panel: they outlive it when a document is opened or   *)
(* closed, which destroys the panel, and find the next one.  Which row of  *)
(* the list is selected is left open: Enter opens any visible row.         *)
(***************************************************************************)
EXTENDS Integers, Sequences, SequencesExt, FiniteSets

CONSTANTS
    Files,      \* the files under the directories that are scanned
    Letters,    \* what names and texts are made of, in lower case
    Name,       \* the name of each file, a sequence of letters
    Depth,      \* how many directories deep each file is
    Hidden,     \* the files whose path has a component that starts with a dot
    Supported,  \* the files whose extension is a document's
    Texts,      \* what is typed into the search field
    Found,      \* what rga finds for each text: files and pages
    MaxTimers,  \* bound: timers at a time
    MaxSearches,\* bound: searches at a time
    MaxOpens    \* bound: files chosen and not yet opened

ASSUME FilesAssumption ==
    /\ Hidden \subseteq Files /\ Supported \subseteq Files
    /\ Name \in [Files -> Seq(Letters)] /\ Depth \in [Files -> Nat]
    /\ <<>> \in Texts /\ Texts \subseteq Seq(Letters)
    /\ \A t \in Texts : Found[t] \subseteq Files \X Nat
    /\ MaxTimers \in Nat

VARIABLES
    panel,      \* "none", "hidden" or "shown"
    content,    \* "content_search_mode" of the search field
    fuzzy,      \* "fuzzy_mode" of the search field
    text,       \* the search field's text
    rows,       \* the list: files and page numbers
    visible,    \* the rows that pass the filter, as of the last refilter
    timer,      \* "content_search_timer" of the search field, 0 when there is none
    timers,     \* the timers that run, in the order they fire: all take 300 ms
    searches,   \* the searches that run, in the order they were started
    opens,      \* the idle callbacks that open a chosen file
    asked,      \* the text of the last timer that fired (ghost)
    disturbed   \* the list was refilled in content mode, or one of the searches since
                \* the last pause failed or was overtaken (ghost)

vars == <<panel, content, fuzzy, text, rows, visible, timer, timers, searches, opens,
          asked, disturbed>>
field == <<content, fuzzy, text>>
list == <<rows, visible>>

Rows == Files \X Nat
Ids == 1 .. MaxTimers + 1
Timer == [id : Ids, query : Texts]

TypeOK ==
    /\ panel \in {"none", "hidden", "shown"}
    /\ content \in BOOLEAN /\ fuzzy \in BOOLEAN /\ text \in Texts
    /\ rows \subseteq Rows /\ visible \subseteq rows
    /\ timer \in Ids \cup {0}
    /\ timers \in Seq(Timer) /\ Len(timers) <= MaxTimers
    /\ searches \in Seq(Texts \ {<<>>}) /\ opens \in Seq(Rows)
    /\ asked \in Texts /\ disturbed \in BOOLEAN

Init ==
    /\ panel = "none" /\ content = FALSE /\ fuzzy = TRUE /\ text = <<>>
    /\ rows = {} /\ visible = {}
    /\ timer = 0 /\ timers = <<>> /\ searches = <<>> /\ opens = <<>>
    /\ asked = <<>> /\ disturbed = FALSE

-----------------------------------------------------------------------------
(***************************************************************************)
(* The list and its filter.                                                *)
(***************************************************************************)

\* file_picker_scan_directory gives up below the fifth directory.
ScanDirectory ==
    {<<f, 0>> : f \in {g \in Supported \ Hidden : Depth[g] <= 5}}

\* The letters of `search' in their order: how many of them are used up after
\* the first i letters of the name.
FuzzyMatch(name, search) ==
    LET used[i \in 0 .. Len(name)] ==
            IF i = 0 THEN 0
            ELSE used[i - 1] + (IF used[i - 1] < Len(search) /\ name[i] = search[used[i - 1] + 1]
                                THEN 1 ELSE 0)
    IN  used[Len(name)] = Len(search)

Substring(name, search) ==
    \E i \in 0 .. Len(name) - Len(search) : SubSeq(name, i + 1, i + Len(search)) = search

\* file_picker_filter_func
Filter(set, inContent, inFuzzy, search) ==
    {r \in set : \/ inContent \/ search = <<>>
                 \/ IF inFuzzy THEN FuzzyMatch(Name[r[1]], search)
                    ELSE Substring(Name[r[1]], search)}

Fill(set) ==
    /\ rows' = set
    /\ visible' = Filter(set, content', fuzzy', text')

-----------------------------------------------------------------------------
(***************************************************************************)
(* The panel.                                                              *)
(***************************************************************************)

\* sc_toggle_file_picker.  A new panel is in filename mode; one that was hidden
\* keeps its mode and text but is filled with the files again.
Show ==
    /\ panel # "shown"
    /\ panel' = "shown"
    /\ IF panel = "none"
       THEN content' = FALSE /\ fuzzy' = TRUE /\ text' = <<>> /\ timer' = 0
       ELSE UNCHANGED <<field, timer>>
    /\ Fill(ScanDirectory)
    /\ disturbed' = (disturbed \/ content')
    /\ UNCHANGED <<timers, searches, opens, asked>>

\* The same shortcut, or Escape in the field or in the list.
Hide ==
    /\ panel = "shown"
    /\ panel' = "hidden"
    /\ UNCHANGED <<field, list, timer, timers, searches, opens, asked, disturbed>>

\* The widgets go, what was started from them stays.
Destroyed ==
    /\ panel' = "none"
    /\ content' = FALSE /\ fuzzy' = TRUE /\ text' = <<>>
    /\ rows' = {} /\ visible' = {} /\ timer' = 0

\* document_close, by whatever means.
CloseDocument ==
    /\ panel # "none"
    /\ Destroyed
    /\ UNCHANGED <<timers, searches, opens, asked, disturbed>>

\* g_source_remove; 0 is no timer's id.
WithoutTimer(id) ==
    IF \E i \in 1 .. Len(timers) : timers[i].id = id
    THEN RemoveAt(timers, CHOOSE i \in 1 .. Len(timers) : timers[i].id = id)
    ELSE timers

\* An id that no timer has.
FreshId == CHOOSE n \in Ids : \A i \in 1 .. Len(timers) : timers[i].id # n

\* file_picker_trigger_content_search
TriggerContentSearch ==
    /\ timers' = Append(WithoutTimer(timer), [id |-> FreshId, query |-> text'])
    /\ timer' = FreshId

Bounded == Len(timers) < MaxTimers \/ timer # 0

\* Mutant: the filter is not told.
TypeUnfiltered(t) ==
    /\ panel = "shown" /\ text # t /\ Bounded
    /\ text' = t
    /\ IF content THEN TriggerContentSearch ELSE UNCHANGED <<timer, timers>>
    /\ UNCHANGED <<panel, content, fuzzy, list, searches, opens, asked, disturbed>>

\* cb_file_picker_search_changed
Type(t) ==
    /\ panel = "shown" /\ text # t /\ Bounded
    /\ text' = t
    /\ UNCHANGED <<panel, content, fuzzy, rows, searches, opens, asked, disturbed>>
    /\ IF content
       THEN TriggerContentSearch /\ UNCHANGED visible
       ELSE visible' = Filter(rows, content, fuzzy, t) /\ UNCHANGED <<timer, timers>>

\* Mutant: the text that is there already is not searched for.
ToggleContentUnsearched ==
    /\ panel = "shown" /\ Bounded
    /\ content' = ~content
    /\ UNCHANGED <<panel, fuzzy, text, timer, timers, searches, opens, asked, disturbed>>
    /\ Fill(IF content' THEN {} ELSE ScanDirectory)

\* Ctrl+T.  A timer or a search that runs is not cancelled.
ToggleContent ==
    /\ panel = "shown" /\ Bounded
    /\ content' = ~content
    /\ UNCHANGED <<panel, fuzzy, text, searches, opens, asked, disturbed>>
    /\ Fill(IF content' THEN {} ELSE ScanDirectory)
    /\ IF content' /\ text # <<>> THEN TriggerContentSearch ELSE UNCHANGED <<timer, timers>>

\* Tab
ToggleFuzzy ==
    /\ panel = "shown" /\ ~content
    /\ fuzzy' = ~fuzzy
    /\ visible' = Filter(rows, content, ~fuzzy, text)
    /\ UNCHANGED <<panel, content, text, rows, timer, timers, searches, opens, asked, disturbed>>

-----------------------------------------------------------------------------
(***************************************************************************)
(* The content search.                                                     *)
(***************************************************************************)

\* Mutant: the field goes on naming the timer.
TimerFiresUncleared(spawned) ==
    /\ timers # <<>> /\ Len(searches) < MaxSearches
    /\ timers' = Tail(timers)
    /\ asked' = IF panel = "none" THEN asked ELSE Head(timers).query
    /\ searches' = IF panel # "none" /\ spawned /\ Head(timers).query # <<>>
                   THEN Append(searches, Head(timers).query) ELSE searches
    /\ UNCHANGED <<panel, field, list, timer, opens, disturbed>>

\* file_picker_content_search_timer_cb.  Without a text it clears the list,
\* whatever is in it; rga may fail to start.
TimerFires(spawned) ==
    LET query == Head(timers).query IN
    /\ timers # <<>> /\ Len(searches) < MaxSearches
    /\ timers' = Tail(timers)
    /\ UNCHANGED <<panel, field, opens>>
    /\ IF panel = "none"
       THEN UNCHANGED <<list, timer, searches, asked, disturbed>>
       ELSE /\ timer' = 0
            /\ asked' = query
            /\ IF query = <<>>
               THEN rows' = {} /\ visible' = {} /\ UNCHANGED <<searches, disturbed>>
               ELSE /\ searches' = IF spawned THEN Append(searches, query) ELSE searches
                    /\ disturbed' = (~spawned \/ (disturbed /\ searches # <<>>))
                    /\ UNCHANGED list

\* Mutant: the results are appended to those that are there.
CompleteAppends(i, failed) ==
    /\ i \in 1 .. Len(searches)
    /\ searches' = RemoveAt(searches, i)
    /\ UNCHANGED <<panel, field, timer, timers, opens, asked>>
    /\ disturbed' = (disturbed \/ failed \/ i > 1)
    /\ IF failed \/ ~content THEN UNCHANGED list
       ELSE Fill(rows \cup Found[searches[i]])

\* file_picker_rga_callback.  It does not ask which search the results are of.
Complete(i, failed) ==
    /\ i \in 1 .. Len(searches)
    /\ searches' = RemoveAt(searches, i)
    /\ UNCHANGED <<panel, field, timer, timers, opens, asked>>
    /\ disturbed' = (disturbed \/ failed \/ i > 1)
    /\ IF failed \/ panel = "none" \/ ~content THEN UNCHANGED list
       ELSE Fill(Found[searches[i]])

-----------------------------------------------------------------------------
(***************************************************************************)
(* Choosing a file.  It is opened when the event has been handled.         *)
(***************************************************************************)
Choose(file, page) ==
    /\ panel = "shown" /\ Len(opens) < MaxOpens
    /\ opens' = Append(opens, <<file, page>>)
    /\ UNCHANGED <<panel, field, list, timer, timers, searches, asked, disturbed>>

\* Enter in the search field keeps the page of a match, Enter or a double click
\* in the list does not.
EnterInField == \E r \in visible : Choose(r[1], r[2])
EnterInList == \E r \in visible : Choose(r[1], 0)

\* file_picker_deferred_open; the document itself is DocumentLife's PickFile.
DeferredOpen ==
    /\ opens # <<>>
    /\ opens' = Tail(opens)
    /\ Destroyed
    /\ UNCHANGED <<timers, searches, asked, disturbed>>

Next ==
    \/ Show \/ Hide \/ CloseDocument
    \/ \E t \in Texts : Type(t)
    \/ ToggleContent \/ ToggleFuzzy
    \/ \E spawned \in BOOLEAN : TimerFires(spawned)
    \/ \E i \in 1 .. MaxSearches, failed \in BOOLEAN : Complete(i, failed)
    \/ EnterInField \/ EnterInList \/ DeferredOpen

Spec == Init /\ [][Next]_vars

-----------------------------------------------------------------------------
(***************************************************************************)
(* Properties.                                                             *)
(***************************************************************************)

\* The letters of s occur in name in their order.
Embeds(s, name) ==
    \E at \in [1 .. Len(s) -> 1 .. Len(name)] :
        /\ \A i \in 1 .. Len(s) : name[at[i]] = s[i]
        /\ \A i, j \in 1 .. Len(s) : i < j => at[i] < at[j]

\* What is seen of the list is what the field and its modes ask for now, though
\* rows are filtered when they are added or when a handler remembers to: an
\* exact match has the text's letters next to each other.
VisibleMatch ==
    panel # "none" =>
        visible = {r \in rows :
                     \/ content
                     \/ IF fuzzy THEN Embeds(text, Name[r[1]])
                        ELSE \E a, b \in SubSeqs(Name[r[1]]) : Name[r[1]] = a \o text \o b}

\* The timer the field names is one that runs: g_source_remove never gets an id
\* that is gone, and perhaps given to something else since.
TimerPending == timer # 0 => \E i \in 1 .. Len(timers) : timers[i].id = timer

\* In content mode what is searched for last is the text in the field, although
\* timers of an earlier panel fire, too, and clear the new field's timer.
LastSearchIsText ==
    content /\ text # <<>> =>
        text = IF timers = <<>> THEN asked ELSE Last(timers).query

\* When nothing runs any more the list has what rga found for the text, unless
\* a search failed or overtook a later one, or the panel was shown anew and is
\* full of files.
ResultsOfText ==
    content /\ text # <<>> /\ timers = <<>> /\ searches = <<>> /\ ~disturbed =>
        rows = Found[text]

\* In filename mode the list has files only, in whatever order searches end:
\* a file is opened where it was left, not at the page of some match.
OnlyFilesByName == ~content => rows \subseteq ScanDirectory

\* Both: what the timer, the rows and the modes say of each other in any order
\* of timers, searches, openings of the panel and closes of the document.
WellFormed == TypeOK /\ TimerPending /\ OnlyFilesByName

=============================================================================
