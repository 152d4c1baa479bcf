-------------------------- MODULE FilePickerProofs --------------------------
(***************************************************************************)
(* Proofs about FilePicker, for any files, texts and bounds: the timer and *)
(* the filter are in order, what is seen is what matches the text, the     *)
(* last search is for the text in the field, and its results are what the  *)
(* list ends up with.                                                      *)
(***************************************************************************)
EXTENDS FilePicker, FiniteSetTheorems, SequenceTheorems, WellFoundedInduction, TLAPS

\* Without a panel there is neither a mode nor a timer to name.
PanelGone == panel = "none" => ~content /\ timer = 0

Base == TypeOK /\ TimerPending /\ PanelGone

\* Every handler that changes the rows, the text or a mode tells the filter.
VisibleIsFiltered == visible = Filter(rows, content, fuzzy, text)

\* Once the timers have fired the last search is for the text, or its results
\* are in the list.
ResultsComing ==
    content /\ text # <<>> /\ timers = <<>> /\ ~disturbed =>
        IF searches = <<>> THEN rows = Found[asked] ELSE searches[Len(searches)] = asked

PickerInv ==
    /\ Base
    /\ OnlyFilesByName /\ VisibleIsFiltered
    /\ LastSearchIsText /\ ResultsComing

-----------------------------------------------------------------------------

\* RemoveAt takes one element away, and the first one as Tail does.
LEMMA RemoveAtProperties ==
    ASSUME NEW S, NEW s \in Seq(S), NEW i \in 1 .. Len(s)
    PROVE  /\ RemoveAt(s, i) \in Seq(S)
           /\ Len(RemoveAt(s, i)) = Len(s) - 1
           /\ i = 1 => RemoveAt(s, i) = Tail(s)
<1> DEFINE p == SubSeq(s, 1, i - 1)
           q == SubSeq(s, i + 1, Len(s))
<1>1. p \in Seq(S) /\ Len(p) = i - 1 /\ \A k \in 1 .. i - 1 : p[k] = s[k]
  OBVIOUS
<1>2. q \in Seq(S) /\ Len(q) = Len(s) - i /\ \A k \in 1 .. Len(s) - i : q[k] = s[k + i]
  OBVIOUS
<1>3. RemoveAt(s, i) = p \o q
  BY DEF RemoveAt
<1> HIDE DEF p, q
<1>4. p \o q \in Seq(S) /\ Len(p \o q) = Len(s) - 1
  <2>1. Len(s) \in Nat /\ i \in Int
    BY LenProperties
  <2>2. p \o q \in Seq(S) /\ Len(p \o q) = Len(p) + Len(q)
    BY <1>1, <1>2, ConcatProperties
  <2>3. Len(p) + Len(q) = (i - 1) + (Len(s) - i)
    BY <1>1, <1>2
  <2> QED BY <2>1, <2>2, <2>3
<1>5. i = 1 => p \o q = Tail(s)
  <2>1. SUFFICES ASSUME i = 1 PROVE p \o q = Tail(s)
    OBVIOUS
  <2>2. p = <<>>
    BY <1>1, <2>1
  <2>3. p \o q = q
    BY <2>2, <1>2, ConcatEmptySeq
  <2> QED BY <2>1, <2>3, <1>2
<1> QED BY <1>3, <1>4, <1>5

\* The first element of a sequence goes, the last one stays.
LEMMA TailProperties ==
    ASSUME NEW S, NEW s \in Seq(S), s # <<>>
    PROVE  /\ Tail(s) \in Seq(S) /\ Len(Tail(s)) = Len(s) - 1
           /\ Len(s) = 1 => Tail(s) = <<>> /\ s[Len(s)] = Head(s)
           /\ Len(s) # 1 => Tail(s) # <<>> /\ Tail(s)[Len(Tail(s))] = s[Len(s)]
<1>1. Len(s) \in Nat /\ Len(s) >= 1 /\ Head(s) = s[1]
  OBVIOUS
<1>2. Tail(s) \in Seq(S) /\ Len(Tail(s)) = Len(s) - 1
  OBVIOUS
<1>3. \A i \in 1 .. Len(s) - 1 : Tail(s)[i] = s[i + 1]
  OBVIOUS
<1> DEFINE t == Tail(s)
<1> HIDE DEF t
<1>4. t \in Seq(S) /\ Len(t) = Len(s) - 1
  BY <1>2 DEF t
<1>5. Len(s) = 1 => t = <<>>
  BY <1>4
<1>6. Len(s) # 1 => t # <<>> /\ t[Len(t)] = s[Len(s)]
  <2>1. SUFFICES ASSUME Len(s) # 1 PROVE t # <<>> /\ t[Len(t)] = s[Len(s)]
    OBVIOUS
  <2>2. Len(s) - 1 \in 1 .. Len(s) - 1
    <3>1. \A n \in Nat : n >= 1 /\ n # 1 => n - 1 \in 1 .. n - 1
      OBVIOUS
    <3> QED BY <1>1, <2>1, <3>1, Zenon
  <2>3. t[Len(s) - 1] = s[Len(s) - 1 + 1]
    BY <1>3, <2>2 DEF t
  <2> QED BY <1>1, <1>4, <2>1, <2>3
<1> QED BY <1>1, <1>4, <1>5, <1>6 DEF t

\* A timer is a record with an id.
LEMMA TimersHaveIds ==
    ASSUME timers \in Seq(Timer)
    PROVE  \A i \in 1 .. Len(timers) : timers[i] \in Timer /\ timers[i].id \in Ids
<1>1. \A i \in 1 .. Len(timers) : timers[i] \in Timer
  OBVIOUS
<1>2. \A t \in Timer : t.id \in Ids
  BY DEF Timer
<1> QED BY <1>1, <1>2

\* One more timer than there may be has an id to spare.
LEMMA FreshIdIsFresh ==
    ASSUME timers \in Seq(Timer), Len(timers) <= MaxTimers
    PROVE  FreshId \in Ids /\ \A i \in 1 .. Len(timers) : timers[i].id # FreshId
<1> DEFINE n  == Len(timers)
           id == [i \in 1 .. n |-> timers[i].id]
<1>1. n \in Nat /\ MaxTimers \in Nat /\ n < MaxTimers + 1
  BY LenProperties, FilesAssumption
<1>2. \A i \in 1 .. n : timers[i].id \in Ids
  BY TimersHaveIds
<1>3. SUFFICES ASSUME \A k \in Ids : \E i \in 1 .. n : timers[i].id = k
               PROVE  FALSE
  BY DEF FreshId
<1> HIDE DEF n
<1>4. id \in Surjection(1 .. n, Ids)
  BY <1>2, <1>3 DEF Surjection
<1>5. IsFiniteSet(1 .. n) /\ Cardinality(1 .. n) = n
  BY <1>1, FS_Interval
<1>6. Cardinality(Ids) = MaxTimers + 1
  BY <1>1, FS_Interval DEF Ids
<1>7. Cardinality(Ids) <= Cardinality(1 .. n)
  <2> HIDE DEF id
  <2> QED BY <1>4, <1>5, FS_Surjection
<1> QED BY <1>1, <1>5, <1>6, <1>7

\* g_source_remove.
LEMMA WithoutTimerProperties ==
    ASSUME TypeOK, NEW k
    PROVE  /\ WithoutTimer(k) \in Seq(Timer)
           /\ Len(WithoutTimer(k)) <= MaxTimers
           /\ (\E i \in 1 .. Len(timers) : timers[i].id = k) => Len(WithoutTimer(k)) < MaxTimers
<1>1. timers \in Seq(Timer) /\ Len(timers) <= MaxTimers /\ Len(timers) \in Nat /\ MaxTimers \in Nat
  BY FilesAssumption, LenProperties DEF TypeOK
<1>2. CASE \E i \in 1 .. Len(timers) : timers[i].id = k
  <2> DEFINE i == CHOOSE i \in 1 .. Len(timers) : timers[i].id = k
  <2>1. i \in 1 .. Len(timers)
    BY <1>2
  <2>2. WithoutTimer(k) = RemoveAt(timers, i)
    BY <1>2 DEF WithoutTimer
  <2> HIDE DEF i
  <2> QED BY <1>1, <2>1, <2>2, RemoveAtProperties
<1>3. CASE ~ \E i \in 1 .. Len(timers) : timers[i].id = k
  BY <1>1, <1>3 DEF WithoutTimer
<1> QED BY <1>2, <1>3

\* A new timer is the last one, and the field names it.
LEMMA TriggerProperties ==
    ASSUME Base, Bounded, TriggerContentSearch, text' \in Texts
    PROVE  /\ timers' \in Seq(Timer) /\ Len(timers') <= MaxTimers
           /\ timers' # <<>> /\ timers'[Len(timers')].query = text'
           /\ timer' \in Ids /\ TimerPending'
<1> DEFINE others == WithoutTimer(timer)
           new    == [id |-> FreshId, query |-> text']
<1>1. others \in Seq(Timer) /\ Len(others) \in Nat
  BY WithoutTimerProperties, LenProperties DEF Base
<1>2. Len(others) < MaxTimers
  <2>1. CASE timer # 0
    BY <2>1, WithoutTimerProperties DEF Base, TimerPending
  <2>2. CASE timer = 0
    <3>1. \A i \in 1 .. Len(timers) : timers[i].id # 0
      BY TimersHaveIds DEF Base, TypeOK, Ids
    <3>2. others = timers
      BY <2>2, <3>1 DEF WithoutTimer
    <3> QED BY <2>2, <3>2 DEF Bounded
  <2> QED BY <2>1, <2>2
<1>3. new \in Timer
  <2>1. FreshId \in Ids
    BY FreshIdIsFresh DEF Base, TypeOK
  <2> QED BY <2>1 DEF Timer
<1>4. timers' = Append(others, new) /\ timer' = FreshId
  BY DEF TriggerContentSearch
<1>5. /\ timers' \in Seq(Timer) /\ Len(timers') = Len(others) + 1
      /\ timers'[Len(others) + 1] = new
  <2> HIDE DEF others, new
  <2> QED BY <1>1, <1>3, <1>4, AppendProperties
<1>6. TimerPending'
  BY <1>1, <1>4, <1>5 DEF TimerPending
<1>7. MaxTimers \in Nat
  BY FilesAssumption
<1>8. new.query = text'
  OBVIOUS
<1>9. Len(timers') <= MaxTimers /\ timers' # <<>>
  <2> HIDE DEF others, new
  <2> QED BY <1>1, <1>2, <1>5, <1>7
<1> HIDE DEF others, new
<1> QED BY <1>3, <1>4, <1>5, <1>6, <1>8, <1>9, FreshIdIsFresh DEF Base, TypeOK

-----------------------------------------------------------------------------
(***************************************************************************)
(* Types, timers and the panel.                                            *)
(***************************************************************************)

\* The filter adds no row, and passes them all in content mode.
LEMMA FilterProperties ==
    ASSUME NEW set, NEW c, NEW f, NEW t
    PROVE  /\ Filter(set, c, f, t) \subseteq set
           /\ c => Filter(set, c, f, t) = set
           /\ set = {} => Filter(set, c, f, t) = {}
  BY DEF Filter

\* What a scan or a search finds fits into the list.
LEMMA FilesAreRows == ScanDirectory \subseteq Rows /\ \A t \in Texts : Found[t] \subseteq Rows
  BY FilesAssumption DEF ScanDirectory, Rows

\* Nothing runs and there is no panel at first.
LEMMA BaseInit == Init => Base
<1> SUFFICES ASSUME Init
             PROVE  Base
  OBVIOUS
<1>1. <<>> \in Texts /\ MaxTimers \in Nat
  BY FilesAssumption
<1>2. timers \in Seq(Timer) /\ Len(timers) <= MaxTimers
  BY <1>1 DEF Init
<1>3. searches \in Seq(Texts \ {<<>>}) /\ opens \in Seq(Rows)
  BY DEF Init
<1> QED BY <1>1, <1>2, <1>3 DEF Init, Base, TypeOK, TimerPending, PanelGone

\* Every handler keeps the types, the field's timer and what a missing panel means.
LEMMA BaseNext == Base /\ [Next]_vars => Base'
<1> SUFFICES ASSUME Base, [Next]_vars
             PROVE  Base'
  OBVIOUS
<1> USE FilesAssumption, FilesAreRows DEF Base, PanelGone
<1>1. CASE Show
  <2>1. TypeOK'
    BY <1>1, FilterProperties DEF Show, Fill, field, TypeOK
  <2> QED BY <1>1, <2>1 DEF Show, Fill, field, TypeOK, TimerPending
<1>2. CASE Hide
  BY <1>2 DEF Hide, field, list, TypeOK, TimerPending
<1>3. CASE CloseDocument
  BY <1>3 DEF CloseDocument, Destroyed, TypeOK, TimerPending
<1>4. ASSUME NEW t \in Texts, Type(t)
      PROVE  Base'
  <2>1. CASE content
    <3>1. TriggerContentSearch /\ Bounded /\ text' \in Texts
      BY <1>4, <2>1 DEF Type
    <3>2. TypeOK' /\ TimerPending'
      BY <1>4, <2>1, <3>1, TriggerProperties DEF Type, TypeOK
    <3> QED BY <1>4, <2>1, <3>2 DEF Type
  <2>2. CASE ~content
    BY <1>4, <2>2, FilterProperties DEF Type, TypeOK, TimerPending
  <2> QED BY <2>1, <2>2
<1>5. CASE ToggleContent
  <2>1. rows' \subseteq Rows /\ visible' \subseteq rows'
    BY <1>5, FilterProperties DEF ToggleContent, Fill
  <2>2. CASE content' /\ text # <<>>
    <3>1. TriggerContentSearch /\ Bounded /\ text' \in Texts
      BY <1>5, <2>2 DEF ToggleContent, TypeOK
    <3>2. TypeOK' /\ TimerPending'
      BY <1>5, <2>1, <2>2, <3>1, TriggerProperties DEF ToggleContent, TypeOK
    <3> QED BY <1>5, <3>2 DEF ToggleContent
  <2>3. CASE ~(content' /\ text # <<>>)
    BY <1>5, <2>1, <2>3 DEF ToggleContent, TypeOK, TimerPending
  <2> QED BY <2>2, <2>3
<1>6. CASE ToggleFuzzy
  BY <1>6, FilterProperties DEF ToggleFuzzy, TypeOK, TimerPending
<1>7. ASSUME NEW spawned \in BOOLEAN, TimerFires(spawned)
      PROVE  Base'
  <2>1. /\ timers' \in Seq(Timer) /\ Len(timers') <= MaxTimers
        /\ Head(timers).query \in Texts
    <3>1. timers # <<>> /\ timers' = Tail(timers) /\ Head(timers) \in Timer
      BY <1>7 DEF TimerFires, TypeOK
    <3>2. Head(timers).query \in Texts
      BY <3>1 DEF Timer
    <3>3. Len(Tail(timers)) = Len(timers) - 1 /\ Tail(timers) \in Seq(Timer)
      BY <3>1 DEF TypeOK
    <3> QED BY <3>1, <3>2, <3>3 DEF TypeOK
  <2>2. timer' = 0
    BY <1>7 DEF TimerFires
  <2>3. searches' \in Seq(Texts \ {<<>>})
    <3>1. CASE searches' = searches
      BY <3>1 DEF TypeOK
    <3>2. CASE searches' # searches
      <4>1. searches' = Append(searches, Head(timers).query) /\ Head(timers).query # <<>>
        BY <1>7, <3>2 DEF TimerFires
      <4> QED BY <2>1, <4>1, AppendProperties DEF TypeOK
    <3> QED BY <3>1, <3>2
  <2>4. rows' \subseteq Rows /\ visible' \subseteq rows'
    BY <1>7 DEF TimerFires, list, TypeOK
  <2>5. asked' \in Texts /\ disturbed' \in BOOLEAN
    BY <1>7, <2>1 DEF TimerFires, TypeOK
  <2> QED BY <1>7, <2>1, <2>2, <2>3, <2>4, <2>5
          DEF TimerFires, TypeOK, TimerPending, field
<1>8. ASSUME NEW i \in 1 .. MaxSearches, NEW failed \in BOOLEAN, Complete(i, failed)
      PROVE  Base'
  <2>1. searches[i] \in Texts /\ searches' \in Seq(Texts \ {<<>>})
    BY <1>8, RemoveAtProperties DEF Complete, TypeOK
  <2>2. rows' \subseteq Rows /\ visible' \subseteq rows'
    <3>1. Found[searches[i]] \subseteq Rows
      BY <2>1
    <3> QED BY <1>8, <3>1, FilterProperties DEF Complete, Fill, list, TypeOK
  <2> QED BY <1>8, <2>1, <2>2 DEF Complete, TypeOK, TimerPending, field
<1>9. ASSUME NEW r \in visible, NEW p \in {0, r[2]}, Choose(r[1], p)
      PROVE  Base'
  <2>1. <<r[1], p>> \in Rows
    BY DEF TypeOK, Rows
  <2>2. opens' \in Seq(Rows)
    BY <1>9, <2>1, AppendProperties DEF Choose, TypeOK
  <2> QED BY <1>9, <2>2 DEF Choose, TypeOK, TimerPending, field, list
<1>10. CASE DeferredOpen
  <2>1. opens' \in Seq(Rows)
    BY <1>10 DEF DeferredOpen, TypeOK
  <2> QED BY <1>10, <2>1 DEF DeferredOpen, Destroyed, TypeOK, TimerPending
<1>11. CASE UNCHANGED vars
  BY <1>11 DEF vars, TypeOK, TimerPending
<1>12. CASE EnterInField \/ EnterInList
  BY <1>9, <1>12 DEF EnterInField, EnterInList
<1> QED BY <1>1, <1>2, <1>3, <1>4, <1>5, <1>6, <1>7, <1>8, <1>10, <1>11, <1>12 DEF Next

-----------------------------------------------------------------------------
(***************************************************************************)
(* Rows and results.                                                       *)
(***************************************************************************)

\* Results are only put into a list in content mode, and every change is filtered.
LEMMA RowsNext ==
    ASSUME Base, OnlyFilesByName, VisibleIsFiltered, [Next]_vars
    PROVE  OnlyFilesByName' /\ VisibleIsFiltered'
<1> USE DEF OnlyFilesByName, VisibleIsFiltered, Base, PanelGone, ScanDirectory
<1>1. CASE Show
  BY <1>1 DEF Show, Fill, field
<1>2. CASE Hide
  BY <1>2 DEF Hide, field, list
<1>3. CASE CloseDocument \/ DeferredOpen
  BY <1>3, FilterProperties DEF CloseDocument, DeferredOpen, Destroyed
<1>4. ASSUME NEW t \in Texts, Type(t)
      PROVE  OnlyFilesByName' /\ VisibleIsFiltered'
  BY <1>4, FilterProperties DEF Type
<1>5. CASE ToggleContent
  BY <1>5 DEF ToggleContent, Fill
<1>6. CASE ToggleFuzzy
  BY <1>6 DEF ToggleFuzzy
<1>7. ASSUME NEW spawned \in BOOLEAN, TimerFires(spawned)
      PROVE  OnlyFilesByName' /\ VisibleIsFiltered'
  BY <1>7, FilterProperties DEF TimerFires, field, list
<1>8. ASSUME NEW i \in 1 .. MaxSearches, NEW failed \in BOOLEAN, Complete(i, failed)
      PROVE  OnlyFilesByName' /\ VisibleIsFiltered'
  BY <1>8 DEF Complete, Fill, field, list
<1>9. ASSUME NEW r, NEW p, Choose(r, p)
      PROVE  OnlyFilesByName' /\ VisibleIsFiltered'
  BY <1>9 DEF Choose, field, list
<1>10. CASE UNCHANGED vars
  BY <1>10 DEF vars
<1>11. CASE EnterInField \/ EnterInList
  BY <1>9, <1>11 DEF EnterInField, EnterInList
<1> QED BY <1>1, <1>2, <1>3, <1>4, <1>5, <1>6, <1>7, <1>8, <1>10, <1>11 DEF Next

\* The text, the timers, the searches and the rows stay in step.
LEMMA SearchNext ==
    ASSUME Base, LastSearchIsText, ResultsComing, [Next]_vars
    PROVE  LastSearchIsText' /\ ResultsComing'
<1>0. timers \in Seq(Timer) /\ searches \in Seq(Texts \ {<<>>}) /\ text \in Texts
  BY DEF Base, TypeOK
<1>1. CASE Show
  BY <1>1 DEF Show, field, Base, PanelGone, LastSearchIsText, Last, ResultsComing
<1>2. CASE Hide
  BY <1>2 DEF Hide, field, list, LastSearchIsText, ResultsComing
<1>3. CASE CloseDocument \/ DeferredOpen
  BY <1>3 DEF CloseDocument, DeferredOpen, Destroyed, LastSearchIsText, ResultsComing
<1>4. ASSUME NEW t \in Texts, Type(t)
      PROVE  LastSearchIsText' /\ ResultsComing'
  <2>1. CASE content
    <3>1. TriggerContentSearch /\ Bounded /\ text' \in Texts
      BY <1>4, <2>1 DEF Type
    <3> QED BY <3>1, TriggerProperties DEF LastSearchIsText, Last, ResultsComing
  <2>2. CASE ~content
    BY <1>4, <2>2 DEF Type, LastSearchIsText, ResultsComing
  <2> QED BY <2>1, <2>2
<1>5. CASE ToggleContent
  <2>1. CASE content' /\ text # <<>>
    <3>1. TriggerContentSearch /\ Bounded /\ text' \in Texts
      BY <1>0, <1>5, <2>1 DEF ToggleContent
    <3> QED BY <3>1, TriggerProperties DEF LastSearchIsText, Last, ResultsComing
  <2>2. CASE ~(content' /\ text # <<>>)
    BY <1>5, <2>2 DEF ToggleContent, LastSearchIsText, ResultsComing
  <2> QED BY <2>1, <2>2
<1>6. CASE ToggleFuzzy
  BY <1>6 DEF ToggleFuzzy, LastSearchIsText, ResultsComing
<1>7. ASSUME NEW spawned \in BOOLEAN, TimerFires(spawned)
      PROVE  LastSearchIsText' /\ ResultsComing'
  <2> DEFINE query == Head(timers).query
  <2>1. timers # <<>> /\ timers' = Tail(timers) /\ UNCHANGED <<panel, content, text>>
    BY <1>7 DEF TimerFires, field
  <2>2. CASE panel = "none"
    BY <2>1, <2>2 DEF Base, PanelGone, LastSearchIsText, ResultsComing
  <2>3. CASE panel # "none"
    <3>1. asked' = query
      BY <1>7, <2>3 DEF TimerFires
    <3>2. CASE Len(timers) = 1
      <4>1. timers' = <<>> /\ Last(timers) = Head(timers)
        BY <1>0, <2>1, <3>2 DEF Last
      <4>2. LastSearchIsText'
        BY <2>1, <3>1, <4>1 DEF LastSearchIsText
      <4>3. ASSUME content', text' # <<>>, ~disturbed'
            PROVE  searches' # <<>> /\ searches'[Len(searches')] = asked'
        <5>1. query = text /\ query # <<>>
          BY <2>1, <4>1, <4>3 DEF LastSearchIsText
        <5>2. spawned /\ searches' = Append(searches, query)
          BY <1>7, <2>3, <4>3, <5>1 DEF TimerFires
        <5>3. query \in Texts \ {<<>>}
          BY <1>0, <5>1
        <5> HIDE DEF query
        <5> QED BY <1>0, <3>1, <5>2, <5>3, AppendProperties
      <4> QED BY <4>1, <4>2, <4>3 DEF ResultsComing
    <3>3. CASE Len(timers) # 1
      <4>1. timers' # <<>> /\ timers'[Len(timers')] = timers[Len(timers)]
        BY <1>0, <2>1, <3>3, TailProperties
      <4> QED BY <2>1, <4>1 DEF LastSearchIsText, Last, ResultsComing
    <3> QED BY <3>2, <3>3
  <2> QED BY <2>2, <2>3
<1>8. ASSUME NEW i \in 1 .. MaxSearches, NEW failed \in BOOLEAN, Complete(i, failed)
      PROVE  LastSearchIsText' /\ ResultsComing'
  <2>1. /\ i \in 1 .. Len(searches) /\ searches' = RemoveAt(searches, i)
        /\ UNCHANGED <<panel, content, text, timers, asked>>
        /\ disturbed' = (disturbed \/ failed \/ i > 1)
    BY <1>8 DEF Complete, field
  <2>2. LastSearchIsText'
    BY <2>1 DEF LastSearchIsText
  <2>3. ASSUME content', text' # <<>>, timers' = <<>>, ~disturbed'
        PROVE  IF searches' = <<>> THEN rows' = Found[asked']
               ELSE searches'[Len(searches')] = asked'
    <3>1. i = 1 /\ ~failed /\ content /\ ~disturbed
      <4>1. i \in Nat /\ i >= 1
        OBVIOUS
      <4>2. ~(disturbed \/ failed \/ i > 1)
        BY <2>1, <2>3
      <4> QED BY <2>1, <2>3, <4>1, <4>2
    <3>2. searches' = Tail(searches) /\ searches # <<>>
      BY <1>0, <2>1, <3>1, RemoveAtProperties
    <3>3. searches[Len(searches)] = asked
      BY <2>1, <2>3, <3>1, <3>2 DEF ResultsComing
    <3>4. rows' = Found[searches[1]]
      BY <1>8, <3>1 DEF Complete, Fill, Base, PanelGone
    <3>5. CASE Len(searches) = 1
      BY <1>0, <2>1, <3>2, <3>3, <3>4, <3>5
    <3>6. CASE Len(searches) # 1
      BY <1>0, <2>1, <3>2, <3>3, <3>6, TailProperties
    <3> QED BY <3>5, <3>6
  <2> QED BY <2>2, <2>3 DEF ResultsComing
<1>9. ASSUME NEW r, NEW p, Choose(r, p)
      PROVE  LastSearchIsText' /\ ResultsComing'
  BY <1>9 DEF Choose, field, list, LastSearchIsText, ResultsComing
<1>10. CASE UNCHANGED vars
  BY <1>10 DEF vars, LastSearchIsText, ResultsComing
<1>11. CASE EnterInField \/ EnterInList
  BY <1>9, <1>11 DEF EnterInField, EnterInList
<1> QED BY <1>1, <1>2, <1>3, <1>4, <1>5, <1>6, <1>7, <1>8, <1>10, <1>11 DEF Next

-----------------------------------------------------------------------------
(***************************************************************************)
(* What the filter computes.                                               *)
(***************************************************************************)

\* A set of numbers has a least one.
LEMMA LeastNumber ==
    ASSUME NEW S \in SUBSET Nat, S # {}
    PROVE  \E m \in S : \A k \in S : m <= k
<1>1. \E m \in S : \A k \in S : ~(<<k, m>> \in OpToRel(<, Nat))
  BY WFMin, NatLessThanWellFounded, Zenon
<1>2. \A m, k \in S : <<k, m>> \in OpToRel(<, Nat) <=> k < m
  BY DEF OpToRel
<1>3. \E m \in S : \A k \in S : ~(k < m)
  BY <1>1, <1>2, Zenon
<1> QED BY <1>3

\* How many letters of s are used up after the next one of name, u before it.
Uses(name, s, u, i) ==
    u + (IF u < Len(s) /\ name[i] = s[u + 1] THEN 1 ELSE 0)

\* u is the function `used' of FuzzyMatch, and that function.
Counting(name, s, u) ==
    u = [i \in 0 .. Len(name) |->
            IF i = 0 THEN 0
            ELSE u[i - 1] + (IF u[i - 1] < Len(s) /\ name[i] = s[u[i - 1] + 1]
                             THEN 1 ELSE 0)]

Used(name, s) == CHOOSE u : Counting(name, s, u)

LEMMA FuzzyMatchIsUsed ==
    ASSUME NEW name, NEW s
    PROVE  FuzzyMatch(name, s) <=> Used(name, s)[Len(name)] = Len(s)
  BY DEF FuzzyMatch, Used, Counting

\* The recursion has a solution, as it has one for the first m letters.
LEMMA UsedExists ==
    ASSUME NEW name \in Seq(Letters), NEW s \in Seq(Letters)
    PROVE  \E u \in [0 .. Len(name) -> 0 .. Len(s)] :
              u[0] = 0 /\ \A i \in 1 .. Len(name) : u[i] = Uses(name, s, u[i - 1], i)
<1> DEFINE Prefix(m) == \E u \in [0 .. m -> 0 .. Len(s)] :
              u[0] = 0 /\ \A i \in 1 .. m : u[i] = Uses(name, s, u[i - 1], i)
           Bad == {m \in 0 .. Len(name) : ~Prefix(m)}
<1>0. Len(name) \in Nat /\ Len(s) \in Nat
  BY LenProperties
<1>1. ASSUME NEW m \in Bad, \A k \in Bad : m <= k
      PROVE  FALSE
  <2>1. Prefix(0)
    <3> DEFINE z == [i \in 0 .. 0 |-> 0]
    <3>1. z \in [0 .. 0 -> 0 .. Len(s)] /\ z[0] = 0 /\ 1 .. 0 = {}
      BY <1>0
    <3> HIDE DEF z
    <3> QED BY <3>1
  <2>2. m \in 1 .. Len(name) /\ m - 1 \in 0 .. Len(name) /\ Prefix(m - 1)
    <3> HIDE DEF Prefix
    <3>1. m \in 1 .. Len(name) /\ m - 1 \in 0 .. Len(name) /\ ~(m <= m - 1)
      BY <1>0, <2>1
    <3> QED BY <1>1, <3>1
  <2>3. PICK u \in [0 .. m - 1 -> 0 .. Len(s)] :
           u[0] = 0 /\ \A i \in 1 .. m - 1 : u[i] = Uses(name, s, u[i - 1], i)
    BY <2>2
  <2> DEFINE w == [i \in 0 .. m |-> IF i = m THEN Uses(name, s, u[m - 1], m) ELSE u[i]]
  <2>4. Uses(name, s, u[m - 1], m) \in 0 .. Len(s)
    BY <1>0, <2>1, <2>2 DEF Uses
  <2>5. /\ w \in [0 .. m -> 0 .. Len(s)]
        /\ w[m] = Uses(name, s, u[m - 1], m)
        /\ \A i \in 0 .. m - 1 : w[i] = u[i]
    BY <2>2, <2>4
  <2> HIDE DEF w
  <2>6. w[0] = 0
    BY <2>2, <2>3, <2>5
  <2>7. ASSUME NEW i \in 1 .. m
        PROVE  w[i] = Uses(name, s, w[i - 1], i)
    <3>1. i - 1 \in 0 .. m - 1 /\ w[i - 1] = u[i - 1]
      BY <2>2, <2>5
    <3>2. CASE i = m
      BY <2>5, <3>1, <3>2
    <3>3. CASE i # m
      <4>1. i \in 1 .. m - 1 /\ i \in 0 .. m - 1
        BY <2>2, <3>3
      <4> QED BY <2>3, <2>5, <3>1, <4>1
    <3> QED BY <3>2, <3>3
  <2>8. Prefix(m)
    BY <2>5, <2>6, <2>7
  <2> HIDE DEF Prefix
  <2> QED BY <2>8
<1>2. Bad = {}
  <2>1. Bad \in SUBSET Nat
    BY <1>0
  <2> HIDE DEF Bad
  <2> QED BY <1>1, <2>1, LeastNumber
<1>3. Prefix(Len(name))
  BY <1>0, <1>2
<1> QED BY <1>3

\* `used' is that function.
LEMMA UsedIs ==
    ASSUME NEW name \in Seq(Letters), NEW s \in Seq(Letters)
    PROVE  /\ Used(name, s) \in [0 .. Len(name) -> 0 .. Len(s)]
           /\ Used(name, s)[0] = 0
           /\ \A i \in 1 .. Len(name) :
                 Used(name, s)[i] = Uses(name, s, Used(name, s)[i - 1], i)
<1>0. Len(name) \in Nat /\ Len(s) \in Nat
  BY LenProperties
<1>1. PICK u \in [0 .. Len(name) -> 0 .. Len(s)] :
         u[0] = 0 /\ \A i \in 1 .. Len(name) : u[i] = Uses(name, s, u[i - 1], i)
  BY UsedExists
<1>2. Counting(name, s, u)
  BY <1>0, <1>1 DEF Counting, Uses
<1>3. Counting(name, s, Used(name, s))
  BY <1>2 DEF Used
<1> DEFINE v == Used(name, s)
<1> HIDE DEF v
<1>4. /\ DOMAIN v = 0 .. Len(name) /\ v[0] = 0
      /\ v = [i \in 0 .. Len(name) |-> v[i]]
      /\ \A i \in 1 .. Len(name) : v[i] = Uses(name, s, v[i - 1], i)
  <2> DEFINE next(i) == IF i = 0 THEN 0 ELSE Uses(name, s, v[i - 1], i)
  <2>1. v = [i \in 0 .. Len(name) |-> next(i)]
    BY <1>3 DEF v, Counting, Uses
  <2> HIDE DEF next
  <2>2. DOMAIN v = 0 .. Len(name) /\ \A i \in 0 .. Len(name) : v[i] = next(i)
    BY <2>1
  <2>3. v = [i \in 0 .. Len(name) |-> v[i]]
    BY <2>1, <2>2
  <2>4. 0 \in 0 .. Len(name) /\ \A i \in 1 .. Len(name) : i \in 0 .. Len(name) /\ i # 0
    BY <1>0
  <2> QED BY <2>2, <2>3, <2>4 DEF next
<1> DEFINE Bad == {m \in 0 .. Len(name) : v[m] \notin 0 .. Len(s)}
<1>5. ASSUME NEW m \in Bad, \A k \in Bad : m <= k
      PROVE  FALSE
  <2>1. m # 0
    BY <1>0, <1>4
  <2>2. m \in 1 .. Len(name) /\ m - 1 \in 0 .. Len(name) /\ v[m - 1] \in 0 .. Len(s)
    BY <1>0, <1>5, <2>1
  <2>3. v[m] = Uses(name, s, v[m - 1], m)
    BY <1>4, <2>2
  <2> QED BY <1>0, <2>2, <2>3 DEF Uses
<1>6. Bad = {}
  <2>1. Bad \in SUBSET Nat
    BY <1>0
  <2> HIDE DEF Bad
  <2> QED BY <1>5, <2>1, LeastNumber
<1>7. v \in [0 .. Len(name) -> 0 .. Len(s)]
  BY <1>4, <1>6
<1> QED BY <1>4, <1>7 DEF v

\* Whatever has been used up occurs in the name in its order: the k-th letter where the
\* count first is k.
LEMMA UsedEmbeds ==
    ASSUME NEW name \in Seq(Letters), NEW s \in Seq(Letters),
           Used(name, s)[Len(name)] = Len(s)
    PROVE  Embeds(s, name)
<1> DEFINE v == Used(name, s)
           n == Len(name)
           Least(k, m) == /\ m \in 0 .. n /\ v[m] >= k
                          /\ \A i \in 0 .. n : v[i] >= k => m <= i
<1>0. n \in Nat /\ Len(s) \in Nat
  BY LenProperties
<1>1. v \in [0 .. n -> 0 .. Len(s)] /\ v[0] = 0
      /\ \A i \in 1 .. n : v[i] = Uses(name, s, v[i - 1], i)
  BY UsedIs
<1>2. v[n] = Len(s)
  OBVIOUS
<1> HIDE DEF v, n
<1>3. ASSUME NEW k \in 1 .. Len(s)
      PROVE  \E m : Least(k, m)
  <2> DEFINE S == {i \in 0 .. n : v[i] >= k}
  <2>1. S \in SUBSET Nat /\ n \in S
    BY <1>0, <1>2, <1>3
  <2>2. \E m \in S : \A i \in S : m <= i
    <3> HIDE DEF S
    <3> QED BY <2>1, LeastNumber
  <2> QED BY <2>2
<1>4. ASSUME NEW k \in 1 .. Len(s), NEW m, Least(k, m)
      PROVE  m \in 1 .. n /\ v[m] = k /\ name[m] = s[k]
  <2>1. m # 0 /\ m \in 0 .. n
    BY <1>0, <1>1, <1>4
  <2>2. m \in 1 .. n /\ m - 1 \in 0 .. n /\ m - 1 < m
    BY <1>0, <2>1
  <2>3. v[m - 1] < k /\ v[m - 1] \in 0 .. Len(s)
    BY <1>0, <1>1, <1>4, <2>2
  <2>4. v[m] = Uses(name, s, v[m - 1], m) /\ v[m] >= k
    BY <1>1, <1>4, <2>2
  <2> QED BY <1>0, <2>2, <2>3, <2>4 DEF Uses
<1> DEFINE at == [k \in 1 .. Len(s) |-> CHOOSE m : Least(k, m)]
<1>5. \A k \in 1 .. Len(s) : Least(k, at[k])
  <2> HIDE DEF Least
  <2> QED BY <1>3
<1>6. \A k \in 1 .. Len(s) : at[k] \in 1 .. n /\ v[at[k]] = k /\ name[at[k]] = s[k]
  <2> HIDE DEF Least, at
  <2> QED BY <1>4, <1>5
<1>7. at \in [1 .. Len(s) -> 1 .. n]
  <2> HIDE DEF Least
  <2> QED BY <1>6
<1>8. ASSUME NEW j \in 1 .. Len(s), NEW k \in 1 .. Len(s), j < k
      PROVE  at[j] < at[k]
  <2>1. at[k] \in 0 .. n /\ v[at[k]] >= j
    <3> HIDE DEF at
    <3>1. at[k] \in 1 .. n /\ v[at[k]] = k /\ k >= j
      BY <1>6, <1>8
    <3> QED BY <1>0, <3>1
  <2>2. at[j] <= at[k]
    BY <1>5, <2>1
  <2> HIDE DEF at
  <2> QED BY <1>0, <1>6, <1>8, <2>2
<1> HIDE DEF at
<1> QED BY <1>6, <1>7, <1>8 DEF Embeds, n

\* The count never lags behind an embedding, which is why taking each letter where it first
\* comes is enough.
LEMMA EmbeddedIsUsed ==
    ASSUME NEW name \in Seq(Letters), NEW s \in Seq(Letters), Embeds(s, name)
    PROVE  Used(name, s)[Len(name)] = Len(s)
<1> DEFINE v == Used(name, s)
           n == Len(name)
<1>0. n \in Nat /\ Len(s) \in Nat
  BY LenProperties
<1>1. v \in [0 .. n -> 0 .. Len(s)] /\ v[0] = 0
      /\ \A i \in 1 .. n : v[i] = Uses(name, s, v[i - 1], i)
  BY UsedIs
<1>2. PICK at \in [1 .. Len(s) -> 1 .. n] :
         /\ \A i \in 1 .. Len(s) : name[at[i]] = s[i]
         /\ \A i, j \in 1 .. Len(s) : i < j => at[i] < at[j]
  BY DEF Embeds
<1> DEFINE Bad == {i \in 0 .. n : \E k \in 1 .. Len(s) : at[k] <= i /\ v[i] < k}
<1> HIDE DEF v, n
<1>3. ASSUME NEW m \in Bad, \A k \in Bad : m <= k
      PROVE  FALSE
  <2>1. PICK k \in 1 .. Len(s) : at[k] <= m /\ v[m] < k
    BY <1>3
  <2>2. m \in 1 .. n /\ m - 1 \in 0 .. n /\ m - 1 \notin Bad
    BY <1>0, <1>2, <1>3, <2>1
  <2>3. v[m] = Uses(name, s, v[m - 1], m) /\ v[m - 1] \in 0 .. Len(s)
    BY <1>1, <2>2
  <2>4. \A j \in 1 .. Len(s) : at[j] <= m - 1 => v[m - 1] >= j
    BY <1>0, <1>1, <1>2, <2>2
  <2>5. at[k] = m
    BY <1>0, <1>2, <2>1, <2>2, <2>3, <2>4 DEF Uses
  <2>6. v[m - 1] >= k - 1
    <3>1. CASE k = 1
      BY <2>3, <3>1
    <3>2. CASE k # 1
      <4>1. k - 1 \in 1 .. Len(s) /\ k - 1 < k
        BY <1>0, <3>2
      <4>2. at[k - 1] < m /\ at[k - 1] \in 1 .. n
        BY <1>2, <2>5, <4>1
      <4>3. at[k - 1] <= m - 1
        BY <1>0, <2>2, <4>2
      <4> QED BY <2>4, <4>1, <4>3
    <3> QED BY <3>1, <3>2
  <2>7. name[m] = s[k]
    BY <1>2, <2>5
  <2> QED BY <1>0, <2>1, <2>3, <2>6, <2>7 DEF Uses
<1>4. Bad = {}
  <2>1. Bad \in SUBSET Nat
    BY <1>0
  <2> HIDE DEF Bad
  <2> QED BY <1>3, <2>1, LeastNumber
<1>5. CASE Len(s) = 0
  BY <1>0, <1>1, <1>5 DEF v, n
<1>6. CASE Len(s) # 0
  <2>1. Len(s) \in 1 .. Len(s) /\ at[Len(s)] <= n
    BY <1>0, <1>2, <1>6
  <2>2. v[n] >= Len(s) /\ v[n] \in 0 .. Len(s)
    <3>1. n \in 0 .. n /\ n \notin Bad
      <4> HIDE DEF Bad
      <4> QED BY <1>0, <1>4
    <3>2. v[n] \in 0 .. Len(s)
      <4> HIDE DEF Bad
      <4> QED BY <1>1, <3>1
    <3> QED BY <1>0, <2>1, <3>1, <3>2
  <2> QED BY <1>0, <2>2 DEF v, n
<1> QED BY <1>5, <1>6

\* Tab's fuzzy match is what it is meant to be.
LEMMA FuzzyMatchEmbeds ==
    ASSUME NEW name \in Seq(Letters), NEW s \in Seq(Letters)
    PROVE  FuzzyMatch(name, s) <=> Embeds(s, name)
  BY FuzzyMatchIsUsed, UsedEmbeds, EmbeddedIsUsed

\* An exact match has something before it and something behind.
LEMMA SubstringIs ==
    ASSUME NEW name \in Seq(Letters), NEW s \in Seq(Letters)
    PROVE  Substring(name, s) <=> \E a, b \in SubSeqs(name) : name = a \o s \o b
<1>0. Len(name) \in Nat /\ Len(s) \in Nat
  BY LenProperties
<1>1. ASSUME NEW i \in 0 .. Len(name) - Len(s), SubSeq(name, i + 1, i + Len(s)) = s
      PROVE  \E a, b \in SubSeqs(name) : name = a \o s \o b
  <2> DEFINE k == i + Len(s)
             a == SubSeq(name, 1, i)
             b == SubSeq(name, k + 1, Len(name))
  <2>1. i \in 0 .. Len(name) /\ k \in 0 .. Len(name)
    BY <1>0
  <2>2. a \in SubSeqs(name) /\ b \in SubSeqs(name)
    <3>1. a = SubSeq(name, 0 + 1, i) /\ 0 \in 0 .. Len(name) /\ Len(name) \in 0 .. Len(name)
      BY <1>0
    <3> QED BY <2>1, <3>1 DEF SubSeqs
  <2>3. a \in Seq(Letters) /\ Len(a) = i /\ \A j \in 1 .. i : a[j] = name[j]
    BY <1>0, <2>1
  <2>4. /\ b \in Seq(Letters) /\ Len(b) = Len(name) - k
        /\ \A j \in 1 .. Len(name) - k : b[j] = name[j + k]
    BY <1>0, <2>1
  <2>5. \A j \in 1 .. Len(s) : s[j] = name[j + i]
    <3>1. \A j \in 1 .. Len(s) : SubSeq(name, i + 1, i + Len(s))[j] = name[j + i]
      BY <1>0
    <3> QED BY <1>1, <3>1
  <2> HIDE DEF a, b
  <2>6. /\ a \o s \in Seq(Letters) /\ Len(a \o s) = k
        /\ \A j \in 1 .. k : (a \o s)[j] = name[j]
    <3>1. /\ a \o s \in Seq(Letters) /\ Len(a \o s) = Len(a) + Len(s)
          /\ \A j \in 1 .. Len(a) + Len(s) :
                (a \o s)[j] = IF j <= Len(a) THEN a[j] ELSE s[j - Len(a)]
      BY <2>3, ConcatProperties
    <3>2. ASSUME NEW j \in 1 .. k
          PROVE  (a \o s)[j] = name[j]
      <4>1. CASE j <= i
        BY <1>0, <2>1, <2>3, <3>1, <4>1
      <4>2. CASE ~(j <= i)
        <5>1. j - i \in 1 .. Len(s) /\ (j - i) + i = j
          BY <1>0, <2>1, <4>2
        <5>2. (a \o s)[j] = s[j - i]
          BY <1>0, <2>1, <2>3, <3>1, <4>2
        <5> QED BY <2>5, <5>1, <5>2
      <4> QED BY <4>1, <4>2
    <3> QED BY <2>3, <3>1, <3>2
  <2> DEFINE c == a \o s
  <2> HIDE DEF c, k
  <2>7. /\ c \o b \in Seq(Letters) /\ Len(c \o b) = Len(name)
        /\ \A j \in 1 .. Len(name) : (c \o b)[j] = name[j]
    <3>1. c \in Seq(Letters) /\ Len(c) = k /\ \A j \in 1 .. k : c[j] = name[j]
      BY <2>6 DEF c
    <3>2. /\ c \o b \in Seq(Letters) /\ Len(c \o b) = Len(c) + Len(b)
          /\ \A j \in 1 .. Len(c) + Len(b) :
                (c \o b)[j] = IF j <= Len(c) THEN c[j] ELSE b[j - Len(c)]
      BY <2>4, <3>1, ConcatProperties
    <3>3. Len(c) + Len(b) = Len(name)
      BY <1>0, <2>1, <2>4, <3>1
    <3>4. ASSUME NEW j \in 1 .. Len(name)
          PROVE  (c \o b)[j] = name[j]
      <4>1. CASE j <= k
        BY <1>0, <2>1, <3>1, <3>2, <3>3, <4>1
      <4>2. CASE ~(j <= k)
        <5>1. j - k \in 1 .. Len(name) - k /\ (j - k) + k = j
          BY <1>0, <2>1, <4>2
        <5>2. (c \o b)[j] = b[j - k]
          BY <3>1, <3>2, <3>3, <4>2
        <5> QED BY <2>4, <5>1, <5>2
      <4> QED BY <4>1, <4>2
    <3> QED BY <3>2, <3>3, <3>4
  <2>8. name = c \o b
    BY <2>7, SeqEqual
  <2> QED BY <2>2, <2>8 DEF c
<1>2. ASSUME NEW a \in SubSeqs(name), NEW b \in SubSeqs(name), name = a \o s \o b
      PROVE  Substring(name, s)
  <2>1. a \in Seq(Letters) /\ b \in Seq(Letters)
    <3>1. ASSUME NEW i \in 0 .. Len(name), NEW j \in 0 .. Len(name)
          PROVE  SubSeq(name, i + 1, j) \in Seq(Letters)
      <4>1. \A k \in i + 1 .. j : k \in 1 .. Len(name)
        BY <1>0
      <4>2. \A k \in i + 1 .. j : name[k] \in Letters
        BY <4>1, ElementOfSeq
      <4> QED BY <1>0, <4>2, SubSeqProperties
    <3>2. ASSUME NEW e \in SubSeqs(name)
          PROVE  e \in Seq(Letters)
      <4>1. \E i, j \in 0 .. Len(name) : e = SubSeq(name, i + 1, j)
        BY <3>2 DEF SubSeqs
      <4> QED BY <3>1, <4>1, Zenon
    <3> QED BY <3>2
  <2>2. Len(a) \in Nat /\ Len(b) \in Nat
    BY <2>1, LenProperties
  <2> DEFINE c == a \o s
             i == Len(a)
  <2>3. /\ c \in Seq(Letters) /\ Len(c) = i + Len(s)
        /\ \A j \in 1 .. i + Len(s) : c[j] = IF j <= i THEN a[j] ELSE s[j - i]
    BY <2>1, ConcatProperties
  <2>4. name = c \o b
    BY <1>2
  <2> HIDE DEF c
  <2>5. /\ Len(name) = Len(c) + Len(b)
        /\ \A j \in 1 .. Len(c) + Len(b) : name[j] = IF j <= Len(c) THEN c[j] ELSE b[j - Len(c)]
    <3>1. c \in Seq(Letters) /\ b \in Seq(Letters)
      BY <2>1, <2>3
    <3>2. /\ Len(c \o b) = Len(c) + Len(b)
          /\ \A j \in 1 .. Len(c) + Len(b) : (c \o b)[j] = IF j <= Len(c) THEN c[j] ELSE b[j - Len(c)]
      BY <3>1, ConcatProperties
    <3> QED BY <2>4, <3>2
  <2> HIDE DEF i
  <2>6. i \in Nat
    BY <2>2 DEF i
  <2>7. i \in 0 .. Len(name) - Len(s)
    BY <1>0, <2>2, <2>3, <2>5, <2>6
  <2>8. ASSUME NEW j \in 1 .. Len(s)
        PROVE  name[j + i] = s[j]
    <3>1. /\ j + i \in 1 .. i + Len(s) /\ j + i \in 1 .. Len(c) + Len(b)
          /\ ~(j + i <= i) /\ j + i <= Len(c) /\ (j + i) - i = j
      BY <1>0, <2>2, <2>3, <2>6
    <3>2. name[j + i] = c[j + i]
      BY <2>5, <3>1
    <3>3. c[j + i] = s[(j + i) - i]
      BY <2>3, <3>1
    <3> QED BY <3>1, <3>2, <3>3
  <2> DEFINE d == SubSeq(name, i + 1, i + Len(s))
  <2>9. d \in Seq(Letters) /\ Len(d) = Len(s) /\ \A j \in 1 .. Len(s) : d[j] = name[j + i]
    BY <1>0, <2>7
  <2> HIDE DEF d
  <2>10. d = s
    BY <2>8, <2>9, SeqEqual
  <2> QED BY <2>7, <2>10 DEF Substring, d
<1> QED BY <1>1, <1>2 DEF Substring

\* Nothing matches everything.
LEMMA NothingMatches ==
    ASSUME NEW name \in Seq(Letters)
    PROVE  Embeds(<<>>, name) /\ Substring(name, <<>>)
<1>1. Len(name) \in Nat /\ Len(<<>>) = 0 /\ 1 .. 0 = {}
  BY LenProperties
<1>2. Embeds(<<>>, name)
  <2> DEFINE at == [i \in 1 .. 0 |-> 1]
  <2>1. at \in [1 .. 0 -> 1 .. Len(name)]
    BY <1>1
  <2> HIDE DEF at
  <2> QED BY <1>1, <2>1 DEF Embeds
<1>3. 0 \in 0 .. Len(name) - 0 /\ SubSeq(name, 0 + 1, 0 + 0) = <<>>
  BY <1>1
<1> QED BY <1>1, <1>2, <1>3 DEF Substring

\* What is to be seen of a list: VisibleMatch's condition on a row.
Matches(inContent, inFuzzy, s, r) ==
    \/ inContent
    \/ IF inFuzzy THEN Embeds(s, Name[r[1]])
       ELSE \E a, b \in SubSeqs(Name[r[1]]) : Name[r[1]] = a \o s \o b

\* Whatever the text, the filter passes the rows it is to pass.
LEMMA FilterMatches ==
    ASSUME NEW set, set \in SUBSET Rows, NEW inContent, NEW inFuzzy, NEW s, s \in Texts
    PROVE  Filter(set, inContent, inFuzzy, s) =
              {r \in set : Matches(inContent, inFuzzy, s, r)}
<1>1. s \in Seq(Letters)
  BY FilesAssumption
<1>2. \A r \in set : Name[r[1]] \in Seq(Letters)
  BY FilesAssumption DEF Rows
<1>3. ASSUME NEW r \in set
      PROVE  (inContent \/ s = <<>>
                \/ IF inFuzzy THEN FuzzyMatch(Name[r[1]], s) ELSE Substring(Name[r[1]], s))
             <=> Matches(inContent, inFuzzy, s, r)
  <2>1. FuzzyMatch(Name[r[1]], s) <=> Embeds(s, Name[r[1]])
    BY <1>1, <1>2, FuzzyMatchEmbeds
  <2>2. Substring(Name[r[1]], s) <=> \E a, b \in SubSeqs(Name[r[1]]) : Name[r[1]] = a \o s \o b
    BY <1>1, <1>2, SubstringIs
  <2>3. s = <<>> => Embeds(s, Name[r[1]]) /\ Substring(Name[r[1]], s)
    BY <1>2, NothingMatches
  <2> QED BY <2>1, <2>2, <2>3, Zenon DEF Matches
<1> QED BY <1>3, Zenon DEF Filter

-----------------------------------------------------------------------------
(***************************************************************************)
(* Theorems.                                                               *)
(***************************************************************************)

\* The inductive invariant.
LEMMA PickerInductive == Spec => []PickerInv
<1>1. Init => PickerInv
  BY BaseInit, FilterProperties
     DEF Init, PickerInv, OnlyFilesByName, VisibleIsFiltered, LastSearchIsText, ResultsComing
<1>2. PickerInv /\ [Next]_vars => PickerInv'
  BY BaseNext, RowsNext, SearchNext DEF PickerInv
<1> QED BY <1>1, <1>2, PTL DEF Spec

\* The field names a timer that runs or none, and out of content mode the list
\* has files only, whatever timers and searches an earlier panel left behind.
THEOREM FieldInOrder == Spec => []WellFormed
<1>1. PickerInv => WellFormed
  BY DEF PickerInv, Base, WellFormed
<1> QED BY <1>1, PickerInductive, PTL

\* What is seen is what the filter passes now: no handler that changes the rows,
\* the text or a mode forgets to refilter.
THEOREM FilterIsCurrent == Spec => []VisibleIsFiltered
<1>1. PickerInv => VisibleIsFiltered
  BY DEF PickerInv
<1> QED BY <1>1, PickerInductive, PTL

\* The last content search asked for is for the text in the field, though every
\* pause in the typing and every earlier panel has a timer of its own.
THEOREM LastSearch == Spec => []LastSearchIsText
<1>1. PickerInv => LastSearchIsText
  BY DEF PickerInv
<1> QED BY <1>1, PickerInductive, PTL

\* When all has ended the list has the results for the text, unless a search
\* failed or overtook a later one, or the panel was shown anew.
THEOREM ResultsArrive == Spec => []ResultsOfText
<1>1. PickerInv => ResultsOfText
  BY DEF PickerInv, LastSearchIsText, ResultsComing, ResultsOfText
<1> QED BY <1>1, PickerInductive, PTL

\* What is seen is what matches the text: taking each letter where it first comes finds
\* every name that has them in their order (file_picker_filter_func), for every text.
THEOREM SeenMatches == Spec => []VisibleMatch
<1>1. ASSUME PickerInv
      PROVE  VisibleMatch
  <2>1. rows \in SUBSET Rows /\ text \in Texts /\ visible = Filter(rows, content, fuzzy, text)
    BY <1>1 DEF PickerInv, Base, TypeOK, VisibleIsFiltered
  <2>2. visible = {r \in rows : Matches(content, fuzzy, text, r)}
    BY <2>1, FilterMatches
  <2> QED BY <2>2, Zenon DEF VisibleMatch, Matches
<1> QED BY <1>1, PickerInductive, PTL

=============================================================================
