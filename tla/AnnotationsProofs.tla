-------------------------- MODULE AnnotationsProofs --------------------------
(***************************************************************************)
(* Proofs about Annotations, for any pages, geometries and tolerances, any *)
(* number of highlights and of failing calls: the pages show what the      *)
(* database has; export and import make no second highlight of one; the    *)
(* document loses only what was asked about, and the database with it.     *)
(***************************************************************************)
EXTENDS Annotations, WellFoundedInduction, TLAPS

-----------------------------------------------------------------------------
(***************************************************************************)
(* The inductive invariants.                                               *)
(***************************************************************************)

\* Whatever speaks of highlights: the database, the pages, the panel.
Known == rows \cup shown \cup Listed

\* They may differ about the colour of one, and about nothing else.
SameHighlight ==
    \A x, y \in Known : x.id = y.id => x.page = y.page /\ x.geo = y.geo /\ x.org = y.org

OneRowEach == \A r, s \in rows : r.id = s.id => r = s

\* A mark names no highlight of another page.
MarksOnTheirPage == \A p \in Pages : \A x \in Known : x.id = selected[p] => x.page = p

QuestionAsked == question # None => question \in asked.annots

ListsInv ==
    WellFormed /\ SameHighlight /\ OneRowEach /\ MarksOnTheirPage /\ QuestionAsked

Embedded == annots \cup disk.annots

\* There is at most one annotation of a highlight, in memory and in the file, and the
\* same in both; a row of the same origin is one to the import.  A highlight with a row
\* whose annotation is in the file has it in memory, too, so that it is not exported.
Copies ==
    /\ \A a, b \in Embedded : a.org = b.org => a = b
    /\ \A r \in rows, a \in Embedded : r.org = a.org => Match(r, a, ImportEps)
    /\ open => \A r \in rows, d \in disk.annots : r.org = d.org => d \in annots

EchoInv == NoEcho /\ (~revived /\ ~doubled => Copies)

-----------------------------------------------------------------------------
(***************************************************************************)
(* Operators.                                                              *)
(***************************************************************************)

\* The first of some pages is one of them.
LEMMA FirstPage ==
    ASSUME NEW S \in SUBSET Pages, S # {}
    PROVE  Min(S) \in S
<1>1. S \in SUBSET Nat
  BY PagesAssumption
<1>2. \E m \in S : \A k \in S : ~(<<k, m>> \in OpToRel(<, Nat))
  BY <1>1, WFMin, NatLessThanWellFounded, Zenon
<1>3. \A m, k \in S : <<k, m>> \in OpToRel(<, Nat) <=> k < m
  BY <1>1 DEF OpToRel
<1>4. \E m \in S : \A k \in S : ~(k < m)
  BY <1>2, <1>3, Zenon
<1>5. \E m \in S : \A k \in S : m <= k
  BY <1>1, <1>4
<1> QED BY <1>5 DEF Min

\* Matching does not depend on the order.
LEMMA MatchSymmetric ==
    ASSUME NEW x, NEW y, x.geo \in Int, y.geo \in Int, NEW eps \in Nat
    PROVE  Match(x, y, eps) <=> Match(y, x, eps)
<1>1. \A u, v \in Int : u - v \in -eps .. eps => v - u \in -eps .. eps
  OBVIOUS
<1> DEFINE u == x.geo
           v == y.geo
<1>2. u \in Int /\ v \in Int
  OBVIOUS
<1> HIDE DEF u, v
<1>3. u - v \in -eps .. eps <=> v - u \in -eps .. eps
  BY <1>1, <1>2
<1>4. x.page = y.page <=> y.page = x.page
  OBVIOUS
<1> QED BY <1>3, <1>4, Zenon DEF Match, u, v

\* An annotation that a question is about has its geometry.
LEMMA MatchExactly ==
    ASSUME NEW a \in Annotation, NEW q \in Question
    PROVE  Match(a, q, 0) <=> (a.page = q.page /\ a.geo = q.geo)
<1>1. a.geo \in Int /\ q.geo \in Int
  BY GeosAssumption DEF Annotation, Question
<1>2. \A u, v \in Int : u - v \in -0 .. 0 <=> u = v
  OBVIOUS
<1> QED BY <1>1, <1>2, Zenon DEF Match

\* What makes a highlight of a row.
LEMMA Recoloured ==
    ASSUME NEW h \in Highlight
    PROVE  LET new == [h EXCEPT !.color = NextColor(@)]
           IN  /\ new \in Highlight
               /\ new.id = h.id /\ new.page = h.page /\ new.geo = h.geo /\ new.org = h.org
<1>1. \A c \in 0 .. NumColors - 1 : NextColor(c) \in 0 .. NumColors - 1
  BY ColorsAssumption DEF NextColor
<1> QED BY <1>1 DEF Highlight

\* The marked highlight that c and x take.
LEMMA MarkedIs ==
    ASSUME TypeOK, NEW p \in Pages, NEW h \in Marked(p)
    PROVE  h \in shown /\ h \in Highlight /\ h.page = p /\ h.id = selected[p]
  BY DEF Marked, On, TypeOK

LEMMA CycledIs ==
    ASSUME TypeOK, NEW there, there = {p \in MarkedPages : Marked(p) # {}}, there # {}
    PROVE  LET old == CHOOSE h \in Marked(Min(there)) : TRUE
           IN  old \in shown /\ old \in Highlight
<1>1. there \in SUBSET Pages
  BY DEF MarkedPages
<1>2. Min(there) \in there /\ Min(there) \in Pages
  BY <1>1, FirstPage
<1>3. Marked(Min(there)) # {}
  BY <1>2
<1> QED BY <1>2, <1>3, MarkedIs

\* What the import takes gets different and new identifiers.
LEMMA InjectionIs ==
    ASSUME NEW S, NEW T, NEW f \in Injection(S, T)
    PROVE  f \in [S -> T] /\ \A x, y \in S : f[x] = f[y] => x = y
  BY DEF Injection, IsInjective

LEMMA FreshIs ==
    ASSUME TypeOK, NEW i \in FreshIds
    PROVE  /\ i \in Ids /\ i # None
           /\ \A x \in Known : x.id # i
           /\ \A p \in Pages : selected[p] # i
  BY GeosAssumption DEF FreshIds, Known, Range, TypeOK
-----------------------------------------------------------------------------
(***************************************************************************)
(* Types.                                                                  *)
(***************************************************************************)

\* What the import adds to pages and database, for some of what it takes.
Imported(S, id) ==
    {[id |-> id[a], page |-> a.page, geo |-> a.geo, color |-> 0, org |-> a.org] : a \in S}

LEMMA ImportProperties ==
    ASSUME TypeOK, NEW seen \in Readings, NEW lost \in SUBSET annots, Import(lost, seen)
    PROVE  \E id \in Injection(ToImport(seen), FreshIds) :
             /\ rows' = rows \cup Imported(ToImport(seen) \ lost, id)
             /\ shown' = shown \cup Imported(ToImport(seen), id)
             /\ \A S \in SUBSET ToImport(seen) : Imported(S, id) \subseteq Highlight
<1>1. PICK id \in Injection(ToImport(seen), FreshIds) :
        /\ rows' = rows \cup Imported(ToImport(seen) \ lost, id)
        /\ shown' = shown \cup Imported(ToImport(seen), id)
  BY DEF Import, Imported
<1>2. ToImport(seen) \subseteq annots /\ ToImport(seen) \subseteq Annotation
  BY DEF ToImport, TypeOK
<1>3. \A a \in ToImport(seen) : id[a] \in Ids
  BY InjectionIs, FreshIs
<1>4. 0 \in 0 .. NumColors - 1
  BY ColorsAssumption
<1>5. \A S \in SUBSET ToImport(seen) : Imported(S, id) \subseteq Highlight
  BY <1>2, <1>3, <1>4 DEF Imported, Highlight, Annotation
<1> QED BY <1>1, <1>5

\* What the export adds to the document.
Exported(S, geo) == {[page |-> r.page, geo |-> geo[r], org |-> r.org] : r \in S}

LEMMA ExportProperties ==
    ASSUME TypeOK, NEW refused \in SUBSET Pages, NEW seen \in Readings,
           NEW saved \in BOOLEAN, NEW own \in BOOLEAN,
           Export(refused, saved, own, seen)
    PROVE  LET given == {r \in ToExport(seen) : r.page \notin refused}
           IN  \E geo \in Rounded(given) :
                 /\ annots' = annots \cup Exported(given, geo)
                 /\ Exported(given, geo) \subseteq Annotation
<1> DEFINE given == {r \in ToExport(seen) : r.page \notin refused}
<1>1. PICK geo \in Rounded(given) : annots' = annots \cup Exported(given, geo)
  BY DEF Export, Exported
<1>2. given \subseteq Highlight
  BY DEF ToExport, Readings, TypeOK
<1>3. \A r \in given : geo[r] \in Geos
  BY DEF Rounded
<1>4. Exported(given, geo) \subseteq Annotation
  BY <1>2, <1>3 DEF Exported, Highlight, Annotation
<1> QED BY <1>1, <1>4

LEMMA CountedTyped ==
    ASSUME TypeOK, NEW ok, Counted(ok)
    PROVE  faults' \in 0 .. MaxFaults
<1>1. faults' = faults \/ (faults < MaxFaults /\ faults' = faults + 1)
  BY Zenon DEF Counted, CanFail
<1> QED BY <1>1, ColorsAssumption DEF TypeOK

LEMMA OutcomeTyped ==
    ASSUME TypeOK, NEW ok \in BOOLEAN, DbOutcome(ok)
    PROVE  faults' \in 0 .. MaxFaults /\ failed' \in BOOLEAN
  BY CountedTyped DEF TypeOK, DbOutcome

\* The panel shows rows, or stays.
LEMMA RelistProperties ==
    ASSUME TypeOK, NEW ok \in BOOLEAN, NEW refreshed \in BOOLEAN, Relist(ok, refreshed)
    PROVE  /\ panel' = panel \/ panel' \subseteq rows'
           /\ refreshed => panel' \subseteq rows'
           /\ faults' \in 0 .. MaxFaults
           /\ failed' = (failed \/ ~ok)
<1>1. PICK seen \in SUBSET rows' :
        /\ panel' = IF refreshed THEN seen ELSE panel
        /\ Counted(ok /\ (refreshed => seen = rows'))
  BY DEF Relist, Readings
<1>2. faults' \in 0 .. MaxFaults
  BY <1>1, CountedTyped
<1> QED BY <1>1, <1>2 DEF Relist

LEMMA HappensTyped ==
    ASSUME TypeOK, NEW o, NEW found, Happens(o, found)
    PROVE  faults' \in 0 .. MaxFaults
<1>1. faults' = faults \/ (faults < MaxFaults /\ faults' = faults + 1)
  BY Zenon DEF Happens, CanFail
<1> QED BY <1>1, ColorsAssumption DEF TypeOK

LEMMA TypeInit == Init => TypeOK
<1> SUFFICES ASSUME Init PROVE TypeOK
  OBVIOUS
<1>1. PICK g \in Geos, p \in Pages, o \in Origins, N \in SUBSET NotePages :
        disk \in {[annots |-> {}, notes |-> N],
                 [annots |-> {[page |-> p, geo |-> g, org |-> o]}, notes |-> N]}
  BY DEF Init
<1>2. disk.annots \subseteq Annotation /\ disk.notes \subseteq Pages
  <2>1. NotePages \subseteq Pages
    BY PagesAssumption
  <2> QED BY <1>1, <2>1 DEF Annotation
<1>3. 0 \in 0 .. MaxFaults
  BY ColorsAssumption
<1>4. asked \in [annots : SUBSET Question, notes : SUBSET Pages]
  BY DEF Init, NothingAsked
<1> QED BY <1>2, <1>3, <1>4 DEF Init, TypeOK, Nothing

LEMMA TypeStep ==
    ASSUME TypeOK, [Next]_vars
    PROVE  TypeOK'
<1>1. ASSUME NEW seen \in Readings, Open(seen)
      PROVE  TypeOK'
  <2>1. faults' \in 0 .. MaxFaults
    BY <1>1, CountedTyped DEF Open
  <2> QED BY <1>1, <2>1 DEF Open, Readings, TypeOK, selectVars, askVars
<1>2. CASE Close
  BY <1>2 DEF Close, TypeOK, askVars, Nothing
<1>3. ASSUME NEW seen \in Readings, TogglePanel(seen)
      PROVE  TypeOK'
  <2>1. faults' \in 0 .. MaxFaults
    BY <1>3, CountedTyped DEF TogglePanel, TypeOK
  <2> QED BY <1>3, <2>1 DEF TogglePanel, Readings, TypeOK, storeVars, fileVars, selectVars, askVars
<1>4. CASE AskAboutEmbedded
  <2> DEFINE p == Min(EmbeddedPages)
  <2>1. p \in Pages
    <3>1. EmbeddedPages # {} /\ EmbeddedPages \in SUBSET Pages
      BY <1>4 DEF AskAboutEmbedded, EmbeddedPages
    <3> QED BY <3>1, FirstPage
  <2>2. embSelected[p] # None => [page |-> p, geo |-> embSelected[p]] \in Question
    BY <2>1 DEF TypeOK, Question
  <2>3. \A q \in Question : [asked EXCEPT !.annots = @ \cup {q}]
                              \in [annots : SUBSET Question, notes : SUBSET Pages]
    BY DEF TypeOK
  <2>4. [asked EXCEPT !.notes = @ \cup {p}] \in [annots : SUBSET Question, notes : SUBSET Pages]
    BY <2>1 DEF TypeOK
  <2>5. /\ question' \in Question \cup {None} /\ noteQuestion' \in Pages \cup {None}
        /\ asked' \in [annots : SUBSET Question, notes : SUBSET Pages]
    <3>1. CASE embSelected[p] # None
      BY <1>4, <2>2, <2>3, <3>1 DEF AskAboutEmbedded, Ask, TypeOK
    <3>2. CASE embSelected[p] = None
      BY <1>4, <2>1, <2>4, <3>2 DEF AskAboutEmbedded, TypeOK
    <3> QED BY <3>1, <3>2
  <2> QED BY <1>4, <2>5 DEF AskAboutEmbedded, TypeOK, storeVars, fileVars, selectVars
<1>5. CASE AnswerNothing
  BY <1>5 DEF AnswerNothing, TypeOK, storeVars, fileVars, selectVars
<1>6. CASE Cancel
  BY <1>6 DEF Cancel, NothingAsked, TypeOK, storeVars, fileVars, selectVars
<1>7. ASSUME NEW o \in Outcomes, ConfirmNote(o)
      PROVE  TypeOK'
  <2>1. asked' \in [annots : SUBSET Question, notes : SUBSET Pages]
    BY <1>7 DEF ConfirmNote, TypeOK
  <2>2. faults' \in 0 .. MaxFaults
    <3>1. Happens(o, noteQuestion \in notes)
      BY <1>7, Zenon DEF ConfirmNote
    <3> QED BY <3>1, HappensTyped, Zenon
  <2>3. /\ annots' \subseteq Annotation /\ notes' \subseteq Pages
        /\ disk'.annots \subseteq Annotation /\ disk'.notes \subseteq Pages
    <3>1. disk' \in {disk, [annots |-> annots', notes |-> notes']}
      BY <1>7 DEF ConfirmNote, Save
    <3>2. annots' \subseteq Annotation /\ notes' \subseteq Pages
      BY <1>7 DEF ConfirmNote, TypeOK
    <3> QED BY <3>1, <3>2 DEF TypeOK
  <2>4. noteSelected' \in [Pages -> BOOLEAN]
    BY <1>7 DEF ConfirmNote, TypeOK
  <2> QED BY <1>7, <2>1, <2>2, <2>3, <2>4 DEF ConfirmNote, TypeOK, storeVars
<1>8. ASSUME NEW seen \in Readings, NEW o \in Outcomes, ConfirmAnnotation(o, seen)
      PROVE  TypeOK'
  <2>1. asked' \in [annots : SUBSET Question, notes : SUBSET Pages]
    BY <1>8 DEF ConfirmAnnotation, TypeOK
  <2>2. faults' \in 0 .. MaxFaults
    <3>1. Happens(o, {a \in annots : Match(a, question, 0)} # {})
      BY <1>8, Zenon DEF ConfirmAnnotation
    <3> QED BY <3>1, HappensTyped, Zenon
  <2>3. annots' \subseteq Annotation /\ notes' \subseteq Pages
    BY <1>8 DEF ConfirmAnnotation, TypeOK
  <2>4. disk'.annots \subseteq Annotation /\ disk'.notes \subseteq Pages
    <3>1. disk' \in {disk, [annots |-> annots', notes |-> notes']}
      BY <1>8 DEF ConfirmAnnotation, Save
    <3> QED BY <3>1, <2>3 DEF TypeOK
  <2>5. rows' \subseteq Highlight /\ shown' \subseteq Highlight
    BY <1>8 DEF ConfirmAnnotation, DbRemove, TypeOK
  <2>6. selected' \in [Pages -> Ids \cup {None}] /\ embSelected' \in [Pages -> Geos \cup {None}]
    BY <1>8 DEF ConfirmAnnotation, TypeOK
  <2> QED BY <1>8, <2>1, <2>2, <2>3, <2>4, <2>5, <2>6 DEF ConfirmAnnotation, TypeOK
<1>9. ASSUME NEW h \in shown, ClickHighlight(h)
      PROVE  TypeOK'
  BY <1>9 DEF ClickHighlight, Highlight, TypeOK, storeVars, fileVars, askVars
<1>10. ASSUME NEW a \in annots, ClickAnnotation(a)
       PROVE  TypeOK'
  BY <1>10 DEF ClickAnnotation, Annotation, TypeOK, storeVars, fileVars, askVars
<1>11. ASSUME NEW p \in Pages, ClickNote(p) \/ ClickElsewhere(p)
       PROVE  TypeOK'
  BY <1>11 DEF ClickNote, ClickElsewhere, TypeOK, storeVars, fileVars, askVars
<1>12. ASSUME NEW ok \in BOOLEAN, NEW p \in Pages, NEW g \in Geos,
              NEW c \in 0 .. NumColors - 1, MakeHighlight(p, g, c, ok)
       PROVE  TypeOK'
  <2>1. PICK i \in FreshIds, o \in FreshOrigins :
          LET h == [id |-> i, page |-> p, geo |-> g, color |-> c, org |-> o]
          IN  /\ DbAdd(h, ok)
              /\ shown' = IF ok THEN shown \cup {h} ELSE shown
    BY <1>12 DEF MakeHighlight
  <2>2. [id |-> i, page |-> p, geo |-> g, color |-> c, org |-> o] \in Highlight
    BY DEF FreshIds, FreshOrigins, Highlight
  <2>3. rows' \subseteq Highlight /\ shown' \subseteq Highlight
    BY <2>1, <2>2 DEF DbAdd, TypeOK
  <2>4. faults' \in 0 .. MaxFaults /\ failed' \in BOOLEAN
    BY <1>12, OutcomeTyped DEF MakeHighlight
  <2> QED BY <1>12, <2>3, <2>4 DEF MakeHighlight, TypeOK, fileVars, selectVars, askVars
<1>13. ASSUME NEW ok \in BOOLEAN, DeleteMarked(ok)
       PROVE  TypeOK'
  <2> DEFINE p == Min(MarkedPages)
             under == {a \in annots : MatchedIn(Marked(p), a, DeleteEps)}
  <2>1. p \in Pages
    <3>1. MarkedPages # {} /\ MarkedPages \in SUBSET Pages
      BY <1>13 DEF DeleteMarked, MarkedPages
    <3> QED BY <3>1, FirstPage DEF MarkedPages
  <2>2. /\ question' \in Question \cup {None} /\ noteQuestion' \in Pages \cup {None}
        /\ asked' \in [annots : SUBSET Question, notes : SUBSET Pages]
    <3>1. CASE under = {}
      BY <1>13, <3>1 DEF DeleteMarked, askVars, TypeOK
    <3>2. CASE under # {}
      <4>1. PICK a \in under : Ask([page |-> p, geo |-> a.geo]) /\ UNCHANGED noteQuestion
        BY <1>13, <3>2 DEF DeleteMarked
      <4>2. [page |-> p, geo |-> a.geo] \in Question
        BY <2>1 DEF TypeOK, Annotation, Question
      <4> QED BY <4>1, <4>2 DEF Ask, TypeOK
    <3> QED BY <3>1, <3>2
  <2>3. rows' \subseteq Highlight /\ shown' \subseteq Highlight
    BY <1>13 DEF DeleteMarked, DbRemove, TypeOK
  <2>4. faults' \in 0 .. MaxFaults /\ failed' \in BOOLEAN
    BY <1>13, OutcomeTyped DEF DeleteMarked
  <2>5. selected' \in [Pages -> Ids \cup {None}] /\ embSelected' \in [Pages -> Geos \cup {None}]
    BY <1>13 DEF DeleteMarked, TypeOK
  <2> QED BY <1>13, <2>2, <2>3, <2>4, <2>5 DEF DeleteMarked, TypeOK, fileVars
<1>14. ASSUME NEW ok \in BOOLEAN, CycleColor(ok)
       PROVE  TypeOK'
  <2> DEFINE there == {p \in MarkedPages : Marked(p) # {}}
             old == CHOOSE h \in Marked(Min(there)) : TRUE
             new == [old EXCEPT !.color = NextColor(@)]
  <2>1. there # {}
    BY <1>14 DEF CycleColor
  <2>2. old \in shown /\ old \in Highlight
    BY <2>1, CycledIs
  <2>3. new \in Highlight
    BY <2>2, Recoloured
  <2>4. /\ DbAdd(new, ok) /\ DbOutcome(ok) /\ Revives(new, ok)
        /\ shown' = (shown \ {old}) \cup {new}
    BY <1>14 DEF CycleColor
  <2> HIDE DEF new, old, there
  <2>5. rows' \subseteq Highlight /\ shown' \subseteq Highlight /\ revived' \in BOOLEAN
    BY <2>3, <2>4 DEF DbAdd, Revives, TypeOK
  <2>6. faults' \in 0 .. MaxFaults /\ failed' \in BOOLEAN
    BY <2>4, OutcomeTyped
  <2> QED BY <1>14, <2>5, <2>6 DEF CycleColor, TypeOK, fileVars, selectVars, askVars
<1>15. ASSUME NEW ok \in BOOLEAN, NEW h \in Highlight, PanelDelete(h, ok)
       PROVE  TypeOK'
  <2>2. rows' \subseteq Highlight /\ shown' \subseteq Highlight
    BY <1>15 DEF PanelDelete, DbRemove, TypeOK
  <2>1. /\ faults' \in 0 .. MaxFaults /\ failed' \in BOOLEAN
        /\ panel' = None \/ panel' \subseteq Highlight
    BY <1>15, <2>2, RelistProperties DEF PanelDelete, TypeOK
  <2> QED BY <1>15, <2>1, <2>2 DEF PanelDelete, TypeOK, fileVars, selectVars, askVars
<1>16. ASSUME NEW ok \in BOOLEAN, NEW h \in Highlight, PanelCycle(h, ok)
       PROVE  TypeOK'
  <2> DEFINE new == [h EXCEPT !.color = NextColor(@)]
  <2>1. new \in Highlight
    BY Recoloured
  <2>2. /\ DbAdd(new, ok) /\ Relist(ok, TRUE) /\ Revives(new, ok)
        /\ shown' = {IF s.id = h.id THEN [s EXCEPT !.color = new.color] ELSE s : s \in shown}
    BY <1>16 DEF PanelCycle
  <2>3. new.color \in 0 .. NumColors - 1
    BY <2>1 DEF Highlight
  <2> HIDE DEF new
  <2>4. \A s \in shown : [s EXCEPT !.color = new.color] \in Highlight /\ s \in Highlight
    BY <2>3 DEF Highlight, TypeOK
  <2>5. rows' \subseteq Highlight /\ shown' \subseteq Highlight /\ revived' \in BOOLEAN
    BY <2>1, <2>2, <2>4 DEF DbAdd, Revives, TypeOK
  <2>6. /\ faults' \in 0 .. MaxFaults /\ failed' \in BOOLEAN
        /\ panel' \subseteq Highlight
    BY <2>2, <2>5, RelistProperties DEF TypeOK
  <2> QED BY <1>16, <2>5, <2>6 DEF PanelCycle, TypeOK, fileVars, selectVars, askVars
<1>17. ASSUME NEW seen \in Readings, NEW lost \in SUBSET annots, Import(lost, seen)
       PROVE  TypeOK'
  <2>1. rows' \subseteq Highlight /\ shown' \subseteq Highlight
    <3>1. PICK id \in Injection(ToImport(seen), FreshIds) :
             /\ rows' = rows \cup Imported(ToImport(seen) \ lost, id)
             /\ shown' = shown \cup Imported(ToImport(seen), id)
             /\ \A S \in SUBSET ToImport(seen) : Imported(S, id) \subseteq Highlight
      BY <1>17, ImportProperties
    <3>2. /\ ToImport(seen) \ lost \in SUBSET ToImport(seen)
          /\ ToImport(seen) \in SUBSET ToImport(seen)
      OBVIOUS
    <3> QED BY <3>1, <3>2 DEF TypeOK
  <2>2. faults' \in 0 .. MaxFaults /\ failed' \in BOOLEAN
    BY <1>17, CountedTyped DEF Import, TypeOK
  <2>3. doubled' \in BOOLEAN
    BY <1>17, Zenon DEF Import, TypeOK
  <2> QED BY <1>17, <2>1, <2>2, <2>3 DEF Import, TypeOK, fileVars, selectVars, askVars
<1>18. ASSUME NEW refused \in SUBSET Pages, NEW seen \in Readings,
              NEW saved \in BOOLEAN, NEW own \in BOOLEAN,
              Export(refused, saved, own, seen)
       PROVE  TypeOK'
  <2>1. annots' \subseteq Annotation
    <3>1. PICK geo \in Rounded({r \in ToExport(seen) : r.page \notin refused}) :
            /\ annots' = annots \cup Exported({r \in ToExport(seen) : r.page \notin refused}, geo)
            /\ Exported({r \in ToExport(seen) : r.page \notin refused}, geo) \subseteq Annotation
      BY <1>18, ExportProperties
    <3> QED BY <3>1 DEF TypeOK
  <2>2. notes' = notes /\ disk' \in {disk, [annots |-> annots', notes |-> notes']}
    <3>1. notes' = notes /\ \E ok : Save(ok)
      BY <1>18, Zenon DEF Export
    <3> QED BY <3>1 DEF Save
  <2>3. disk'.annots \subseteq Annotation /\ disk'.notes \subseteq Pages
    BY <2>1, <2>2 DEF TypeOK
  <2>4. faults' \in 0 .. MaxFaults
    BY <1>18, CountedTyped DEF Export
  <2> QED BY <1>18, <2>1, <2>2, <2>3, <2>4 DEF Export, TypeOK, storeVars, selectVars, askVars
<1>19. CASE UNCHANGED vars
  BY <1>19 DEF vars, TypeOK, storeVars, fileVars, selectVars, askVars
<1> QED BY <1>1, <1>2, <1>3, <1>4, <1>5, <1>6, <1>7, <1>8, <1>9, <1>10, <1>11, <1>12, <1>13,
           <1>14, <1>15, <1>16, <1>17, <1>18, <1>19 DEF Next
-----------------------------------------------------------------------------
(***************************************************************************)
(* Where what is known after a step comes from.                            *)
(***************************************************************************)
Same(x, y) == x.id = y.id /\ x.page = y.page /\ x.geo = y.geo /\ x.org = y.org

\* All but some new highlights was known before, perhaps in another colour.
Sourced(new) ==
    /\ \A x \in Known' : x \in new \/ \E y \in Known : Same(x, y)
    /\ \A x \in new : x.id \in FreshIds
    /\ \A x, z \in new : x.id = z.id => x = z

LEMMA NothingNew ==
    ASSUME \A x \in Known' : x \in Known
    PROVE  Sourced({})
  BY DEF Sourced, Same

\* A row in another colour is the only thing that is new.
LEMMA OnlyRecoloured ==
    ASSUME TypeOK, NEW h \in Known, h \in Highlight, NEW new,
           new = [h EXCEPT !.color = NextColor(@)],
           \A x \in Known' : x \in Known \cup {new} \/ \E y \in Known : Same(x, y)
    PROVE  Sourced({})
<1>1. Same(new, h)
  BY Recoloured DEF Same
<1> QED BY <1>1 DEF Sourced, Same

LEMMA SourceStep ==
    ASSUME TypeOK, [Next]_vars
    PROVE  \E new : Sourced(new)
<1>1. CASE Close \/ \E seen \in Readings : Open(seen) \/ TogglePanel(seen)
  <2>1. /\ rows' = rows /\ shown' \subseteq rows \cup shown
        /\ panel' = panel \/ panel' \subseteq rows \/ panel' = None
    BY <1>1 DEF Open, Close, TogglePanel, Readings, storeVars
  <2>2. Listed' \subseteq Listed \cup rows
    BY <2>1 DEF Listed
  <2>3. \A x \in Known' : x \in Known
    BY <2>1, <2>2 DEF Known
  <2> QED BY <2>3, NothingNew
<1>2. CASE \/ AskAboutEmbedded \/ AnswerNothing \/ Cancel
           \/ \E o \in Outcomes : ConfirmNote(o)
           \/ \E h \in shown : ClickHighlight(h)
           \/ \E a \in annots : ClickAnnotation(a)
           \/ \E p \in Pages : ClickNote(p) \/ ClickElsewhere(p)
           \/ \E seen \in Readings, refused \in SUBSET Pages, saved, own \in BOOLEAN :
                Export(refused, saved, own, seen)
           \/ UNCHANGED vars
  <2>1. rows' = rows /\ shown' = shown /\ panel' = panel
    BY <1>2 DEF AskAboutEmbedded, AnswerNothing, Cancel, ConfirmNote, ClickHighlight,
                ClickAnnotation, ClickNote, ClickElsewhere, Export, vars, storeVars
  <2> QED BY <2>1, NothingNew DEF Known, Listed
<1>3. ASSUME NEW seen \in Readings, NEW o \in Outcomes, ConfirmAnnotation(o, seen)
      PROVE  \E new : Sourced(new)
  <2>1. rows' \subseteq rows /\ shown' \subseteq shown /\ panel' = panel
    BY <1>3 DEF ConfirmAnnotation, DbRemove
  <2> QED BY <2>1, NothingNew DEF Known, Listed
<1>4. ASSUME NEW ok \in BOOLEAN, DeleteMarked(ok)
      PROVE  \E new : Sourced(new)
  <2>1. rows' \subseteq rows /\ shown' \subseteq shown /\ panel' = panel
    BY <1>4 DEF DeleteMarked, DbRemove
  <2> QED BY <2>1, NothingNew DEF Known, Listed
<1>5. ASSUME NEW ok \in BOOLEAN, NEW p \in Pages, NEW g \in Geos,
             NEW c \in 0 .. NumColors - 1, MakeHighlight(p, g, c, ok)
      PROVE  \E new : Sourced(new)
  <2>1. PICK i \in FreshIds, o \in FreshOrigins :
          LET h == [id |-> i, page |-> p, geo |-> g, color |-> c, org |-> o]
          IN  /\ DbAdd(h, ok)
              /\ shown' = IF ok THEN shown \cup {h} ELSE shown
    BY <1>5 DEF MakeHighlight
  <2> DEFINE h == [id |-> i, page |-> p, geo |-> g, color |-> c, org |-> o]
  <2>2. rows' \subseteq rows \cup {h} /\ shown' \subseteq shown \cup {h} /\ panel' = panel
    BY <1>5, <2>1 DEF MakeHighlight, DbAdd
  <2>3. Sourced({h})
    BY <2>2 DEF Sourced, Same, Known, Listed
  <2> QED BY <2>3
<1>6. ASSUME NEW ok \in BOOLEAN, CycleColor(ok)
      PROVE  \E new : Sourced(new)
  <2> DEFINE there == {p \in MarkedPages : Marked(p) # {}}
             old == CHOOSE h \in Marked(Min(there)) : TRUE
             new == [old EXCEPT !.color = NextColor(@)]
  <2>1. there # {}
    BY <1>6 DEF CycleColor
  <2>2. old \in shown /\ old \in Highlight
    BY <2>1, CycledIs
  <2>3. /\ DbAdd(new, ok) /\ panel' = panel
        /\ shown' = (shown \ {old}) \cup {new}
    BY <1>6 DEF CycleColor
  <2>4. new = [old EXCEPT !.color = NextColor(@)]
    OBVIOUS
  <2> HIDE DEF new, old, there
  <2>5. rows' \subseteq rows \cup {new} /\ shown' \subseteq shown \cup {new}
    BY <2>3 DEF DbAdd
  <2>6. old \in Known /\ \A x \in Known' : x \in Known \cup {new}
    BY <2>2, <2>3, <2>5 DEF Known, Listed
  <2> QED BY <2>2, <2>4, <2>6, OnlyRecoloured
<1>7. ASSUME NEW ok \in BOOLEAN, NEW h \in Highlight, PanelDelete(h, ok)
      PROVE  \E new : Sourced(new)
  <2>1. /\ rows' \subseteq rows /\ shown' \subseteq shown
        /\ panel' = panel \/ panel' \subseteq rows'
    BY <1>7, RelistProperties DEF PanelDelete, DbRemove
  <2>2. Listed' \subseteq Listed \cup rows
    BY <2>1 DEF Listed
  <2> QED BY <2>1, <2>2, NothingNew DEF Known
<1>8. ASSUME NEW ok \in BOOLEAN, NEW h \in Highlight, PanelCycle(h, ok)
      PROVE  \E new : Sourced(new)
  <2> DEFINE new == [h EXCEPT !.color = NextColor(@)]
  <2>1. /\ h \in Known /\ DbAdd(new, ok) /\ Relist(ok, TRUE)
        /\ shown' = {IF s.id = h.id THEN [s EXCEPT !.color = new.color] ELSE s : s \in shown}
    BY <1>8 DEF PanelCycle, Known, Listed
  <2>2. new = [h EXCEPT !.color = NextColor(@)]
    OBVIOUS
  <2> HIDE DEF new
  <2>3. rows' \subseteq rows \cup {new}
    BY <2>1 DEF DbAdd
  <2>4. \A x \in shown' : \E y \in shown : Same(x, y)
    BY <2>1 DEF TypeOK, Highlight, Same
  <2>5. \A x \in Known' : x \in Known \cup {new} \/ \E y \in Known : Same(x, y)
    <3>1. panel' \subseteq rows'
      BY <2>1, RelistProperties
    <3>2. Listed' \subseteq rows'
      BY <3>1 DEF Listed
    <3> QED BY <2>3, <2>4, <3>2 DEF Known
  <2> QED BY <2>1, <2>2, <2>5, OnlyRecoloured
<1>9. ASSUME NEW seen \in Readings, NEW lost \in SUBSET annots, Import(lost, seen)
      PROVE  \E new : Sourced(new)
  <2>1. PICK id \in Injection(ToImport(seen), FreshIds) :
          /\ rows' = rows \cup Imported(ToImport(seen) \ lost, id)
          /\ shown' = shown \cup Imported(ToImport(seen), id)
    BY <1>9, ImportProperties
  <2> DEFINE new == Imported(ToImport(seen), id)
  <2>2. Imported(ToImport(seen) \ lost, id) \subseteq new
    BY DEF Imported
  <2>3. panel' = panel
    BY <1>9 DEF Import
  <2>4. \A x \in Known' : x \in new \/ x \in Known
    BY <2>1, <2>2, <2>3 DEF Known, Listed
  <2>5. \A a \in ToImport(seen) : id[a] \in FreshIds
    BY InjectionIs
  <2>6. \A a, b \in ToImport(seen) : id[a] = id[b] => a = b
    BY InjectionIs
  <2>7. Sourced(new)
    BY <2>4, <2>5, <2>6 DEF Sourced, Same, Imported
  <2> QED BY <2>7
<1> QED BY <1>1, <1>2, <1>3, <1>4, <1>5, <1>6, <1>7, <1>8, <1>9 DEF Next
-----------------------------------------------------------------------------
(***************************************************************************)
(* The pages show what the database has.                                   *)
(***************************************************************************)
LEMMA SameHighlightStep ==
    ASSUME TypeOK, SameHighlight, [Next]_vars
    PROVE  SameHighlight'
<1>1. PICK new : Sourced(new)
  BY SourceStep
<1>2. \A x \in new, y \in Known : x.id # y.id
  BY <1>1, FreshIs DEF Sourced
<1>3. ASSUME NEW x \in Known', NEW y \in Known', x.id = y.id
      PROVE  x.page = y.page /\ x.geo = y.geo /\ x.org = y.org
  BY <1>1, <1>2, <1>3 DEF Sourced, Same, SameHighlight
<1> QED BY <1>3 DEF SameHighlight

\* REPLACE INTO keeps the identifiers apart, and the import draws new ones.
LEMMA OneRowEachStep ==
    ASSUME TypeOK, OneRowEach, [Next]_vars
    PROVE  OneRowEach'
<1>1. CASE rows' \subseteq rows
  BY <1>1 DEF OneRowEach
<1>2. ASSUME NEW h, NEW ok \in BOOLEAN, DbAdd(h, ok)
      PROVE  OneRowEach'
  BY <1>2 DEF DbAdd, OneRowEach
<1>3. ASSUME NEW seen \in Readings, NEW lost \in SUBSET annots, Import(lost, seen)
      PROVE  OneRowEach'
  <2>1. PICK id \in Injection(ToImport(seen), FreshIds) :
          rows' = rows \cup Imported(ToImport(seen) \ lost, id)
    BY <1>3, ImportProperties
  <2>2. \A a \in ToImport(seen) : id[a] \in FreshIds
    BY InjectionIs
  <2>3. \A a, b \in ToImport(seen) : id[a] = id[b] => a = b
    BY InjectionIs
  <2>4. \A a \in ToImport(seen), r \in rows : id[a] # r.id
    BY <2>2, FreshIs DEF Known
  <2> QED BY <2>1, <2>3, <2>4 DEF Imported, OneRowEach
<1>4. CASE \/ AskAboutEmbedded \/ AnswerNothing \/ Cancel \/ Close
           \/ \E seen \in Readings : Open(seen) \/ TogglePanel(seen)
           \/ \E o \in Outcomes : ConfirmNote(o)
           \/ \E h \in shown : ClickHighlight(h)
           \/ \E a \in annots : ClickAnnotation(a)
           \/ \E p \in Pages : ClickNote(p) \/ ClickElsewhere(p)
           \/ \E seen \in Readings, refused \in SUBSET Pages, saved, own \in BOOLEAN :
                Export(refused, saved, own, seen)
           \/ UNCHANGED vars
  <2>1. rows' = rows
    BY <1>4 DEF AskAboutEmbedded, AnswerNothing, Cancel, ConfirmNote, ClickHighlight, Open,
                ClickAnnotation, ClickNote, ClickElsewhere, Export, Close, TogglePanel,
                vars, storeVars
  <2> QED BY <2>1, <1>1
<1>5. CASE \/ \E seen \in Readings, o \in Outcomes : ConfirmAnnotation(o, seen)
           \/ \E ok \in BOOLEAN : DeleteMarked(ok)
           \/ \E ok \in BOOLEAN, h \in Highlight : PanelDelete(h, ok)
  <2>1. rows' \subseteq rows
    BY <1>5 DEF ConfirmAnnotation, DeleteMarked, PanelDelete, DbRemove
  <2> QED BY <2>1, <1>1
<1>6. CASE \E ok \in BOOLEAN :
             \/ \E p \in Pages, g \in Geos, c \in 0 .. NumColors - 1 : MakeHighlight(p, g, c, ok)
             \/ CycleColor(ok)
             \/ \E h \in Highlight : PanelCycle(h, ok)
  <2> SUFFICES ASSUME NEW ok \in BOOLEAN,
                      \/ \E p \in Pages, g \in Geos, c \in 0 .. NumColors - 1 :
                           MakeHighlight(p, g, c, ok)
                      \/ CycleColor(ok)
                      \/ \E h \in Highlight : PanelCycle(h, ok)
               PROVE  \E h : DbAdd(h, ok)
    BY <1>2, <1>6
  <2>1. ASSUME NEW p \in Pages, NEW g \in Geos, NEW c \in 0 .. NumColors - 1,
               MakeHighlight(p, g, c, ok)
        PROVE  \E h : DbAdd(h, ok)
    BY <2>1, Zenon DEF MakeHighlight
  <2>2. ASSUME CycleColor(ok)
        PROVE  \E h : DbAdd(h, ok)
    BY <2>2, Zenon DEF CycleColor
  <2>3. ASSUME NEW h \in Highlight, PanelCycle(h, ok)
        PROVE  \E n : DbAdd(n, ok)
    BY <2>3, Zenon DEF PanelCycle
  <2> QED BY <2>1, <2>2, <2>3
<1> QED BY <1>3, <1>4, <1>5, <1>6 DEF Next

\* A mark stays, goes, or comes from a press on a highlight of the page.
LEMMA MarksStep ==
    ASSUME TypeOK, SameHighlight, MarksOnTheirPage, [Next]_vars
    PROVE  MarksOnTheirPage'
<1>1. ASSUME NEW p \in Pages
      PROVE  \/ selected'[p] \in {selected[p], None}
             \/ \E x \in Known : x.id = selected'[p] /\ x.page = p
  <2>1. CASE UNCHANGED selected
    BY <2>1
  <2>2. CASE \/ Close
             \/ \E seen \in Readings, o \in Outcomes : ConfirmAnnotation(o, seen)
             \/ \E a \in annots : ClickAnnotation(a)
             \/ \E q \in Pages : ClickElsewhere(q)
             \/ \E ok \in BOOLEAN : DeleteMarked(ok)
    <3>1. \/ selected' = Nothing
          \/ \E q : selected' = [selected EXCEPT ![q] = None]
      BY <2>2, Zenon DEF Close, ConfirmAnnotation, ClickAnnotation, ClickElsewhere, DeleteMarked
    <3> QED BY <3>1 DEF TypeOK, Nothing
  <2>3. CASE \E h \in shown : ClickHighlight(h)
    BY <2>3 DEF ClickHighlight, TypeOK, Known
  <2>4. CASE \/ AskAboutEmbedded \/ AnswerNothing \/ Cancel
             \/ \E seen \in Readings : Open(seen) \/ TogglePanel(seen)
             \/ \E o \in Outcomes : ConfirmNote(o)
             \/ \E q \in Pages : ClickNote(q)
             \/ \E ok \in BOOLEAN :
                  \/ \E q \in Pages, g \in Geos, c \in 0 .. NumColors - 1 : MakeHighlight(q, g, c, ok)
                  \/ CycleColor(ok)
                  \/ \E h \in Highlight : PanelDelete(h, ok) \/ PanelCycle(h, ok)
             \/ \E seen \in Readings, lost \in SUBSET annots : Import(lost, seen)
             \/ \E seen \in Readings, refused \in SUBSET Pages, saved, own \in BOOLEAN :
                Export(refused, saved, own, seen)
             \/ UNCHANGED vars
    <3>1. UNCHANGED selected
      BY <2>4, Zenon DEF AskAboutEmbedded, AnswerNothing, Cancel, Open, TogglePanel, ConfirmNote,
              ClickNote, MakeHighlight, CycleColor, PanelDelete, PanelCycle, Import, Export,
              vars, selectVars
    <3> QED BY <3>1, <2>1
  <2> QED BY <2>2, <2>3, <2>4 DEF Next
<1>2. PICK new : Sourced(new)
  BY SourceStep
<1>3. ASSUME NEW p \in Pages, NEW x \in Known', x.id = selected'[p]
      PROVE  x.page = p
  <2>1. CASE x \in new
    <3>1. x.id \in FreshIds
      BY <1>2, <2>1 DEF Sourced
    <3> QED BY <3>1, <1>1, <1>3, FreshIs
  <2>2. CASE \E y \in Known : Same(x, y)
    <3>1. PICK y \in Known : Same(x, y)
      BY <2>2
    <3>2. y.id # None
      BY GeosAssumption DEF Known, Listed, TypeOK, Highlight
    <3>3. y.id = selected'[p] /\ y.page = x.page
      BY <3>1, <1>3 DEF Same
    <3>4. CASE selected'[p] = selected[p]
      BY <3>3, <3>4, Zenon DEF MarksOnTheirPage
    <3>5. CASE selected'[p] = None
      BY <3>2, <3>3, <3>5
    <3>6. CASE \E z \in Known : z.id = selected'[p] /\ z.page = p
      BY <3>3, <3>6, Zenon DEF SameHighlight
    <3> QED BY <3>4, <3>5, <3>6, <1>1
  <2> QED BY <1>2, <2>1, <2>2 DEF Sourced
<1> QED BY <1>3 DEF MarksOnTheirPage
\* A question stands for what x asked since Escape: the two change together.
LEMMA AskedStep ==
    ASSUME TypeOK, QuestionAsked, [Next]_vars
    PROVE  QuestionAsked'
<1>1. CASE UNCHANGED <<question, asked>> \/ question' = None
  BY <1>1 DEF QuestionAsked
<1>2. ASSUME NEW q, Ask(q)
      PROVE  QuestionAsked'
  BY <1>2 DEF Ask, QuestionAsked, TypeOK
<1>3. CASE \/ Close \/ \E seen \in Readings : Open(seen) \/ TogglePanel(seen)
           \/ \E h \in shown : ClickHighlight(h)
           \/ \E a \in annots : ClickAnnotation(a)
           \/ \E p \in Pages : ClickNote(p) \/ ClickElsewhere(p)
           \/ \E ok \in BOOLEAN :
                \/ \E p \in Pages, g \in Geos, c \in 0 .. NumColors - 1 : MakeHighlight(p, g, c, ok)
                \/ CycleColor(ok)
                \/ \E h \in Highlight : PanelDelete(h, ok) \/ PanelCycle(h, ok)
           \/ \E seen \in Readings, lost \in SUBSET annots : Import(lost, seen)
           \/ \E seen \in Readings, refused \in SUBSET Pages, saved, own \in BOOLEAN :
                Export(refused, saved, own, seen)
           \/ UNCHANGED vars
  <2>1. UNCHANGED askVars
    BY <1>3, Zenon DEF Open, Close, TogglePanel, ClickHighlight, ClickAnnotation, ClickNote,
            ClickElsewhere, MakeHighlight, CycleColor, PanelDelete, PanelCycle, Import, Export, vars
  <2> QED BY <1>1, <2>1 DEF askVars
<1>4. CASE Cancel \/ \E seen \in Readings, o \in Outcomes : ConfirmAnnotation(o, seen)
  BY <1>1, <1>4, Zenon DEF Cancel, ConfirmAnnotation
<1>5. CASE AnswerNothing
  <2>1. UNCHANGED <<question, asked>> \/ question' = None
    BY <1>5 DEF AnswerNothing
  <2> QED BY <1>1, <2>1
<1>6. ASSUME NEW o \in Outcomes, ConfirmNote(o)
      PROVE  QuestionAsked'
  <2>1. /\ question' = question
        /\ asked' = [asked EXCEPT !.notes = @ \ {noteQuestion}]
    BY <1>6, Zenon DEF ConfirmNote
  <2> QED BY <2>1 DEF QuestionAsked, TypeOK
<1>7. CASE AskAboutEmbedded
  <2>1. \/ \E q : Ask(q)
        \/ UNCHANGED question /\ \E p : asked' = [asked EXCEPT !.notes = @ \cup {p}]
    BY <1>7, Zenon DEF AskAboutEmbedded
  <2> QED BY <1>2, <2>1 DEF QuestionAsked, TypeOK
<1>8. ASSUME NEW ok \in BOOLEAN, DeleteMarked(ok)
      PROVE  QuestionAsked'
  <2>1. (\E q : Ask(q)) \/ UNCHANGED askVars
    BY <1>8, Zenon DEF DeleteMarked
  <2> QED BY <1>1, <1>2, <2>1 DEF askVars
<1> QED BY <1>3, <1>4, <1>5, <1>6, <1>7, <1>8 DEF Next

LEMMA AgreeStep ==
    ASSUME TypeOK, ListsAgree, SameHighlight, OneRowEach, MarksOnTheirPage, [Next]_vars
    PROVE  ListsAgree'
<1>1. CASE \/ AskAboutEmbedded \/ AnswerNothing \/ Cancel
           \/ \E seen \in Readings : TogglePanel(seen)
           \/ \E o \in Outcomes : ConfirmNote(o)
           \/ \E h \in shown : ClickHighlight(h)
           \/ \E a \in annots : ClickAnnotation(a)
           \/ \E p \in Pages : ClickNote(p) \/ ClickElsewhere(p)
           \/ \E seen \in Readings, refused \in SUBSET Pages, saved, own \in BOOLEAN :
                Export(refused, saved, own, seen)
           \/ UNCHANGED vars
  <2>1. UNCHANGED <<open, rows, shown, failed, revived>>
    BY <1>1 DEF TogglePanel, AskAboutEmbedded, AnswerNothing, Cancel, ConfirmNote, ClickHighlight,
                ClickAnnotation, ClickNote, ClickElsewhere, Export, vars, storeVars
  <2> QED BY <2>1 DEF ListsAgree
<1>2. CASE Close \/ \E seen \in Readings : Open(seen)
  BY <1>2 DEF Open, Close, ListsAgree
<1>3. ASSUME NEW seen \in Readings, NEW o \in Outcomes, ConfirmAnnotation(o, seen)
      PROVE  ListsAgree'
  <2>1. PICK twins \in SUBSET rows :
          /\ \A r \in twins : r.page = question.page
          /\ DbRemove(twins, o # "undone in database")
          /\ failed' = (failed \/ o \in {"undone in database", "unread"})
          /\ shown' = {h \in shown : h.page # question.page \/ h.id \notin {r.id : r \in twins}}
    <3> DEFINE there == {a \in annots : Match(a, question, 0)}
               deleted == there # {} /\ o # "undeleted"
               twins == IF deleted THEN Twins(question) \cap seen ELSE {}
    <3>1. twins \in SUBSET rows /\ \A r \in twins : r.page = question.page
      BY DEF Twins, Match
    <3>2. /\ DbRemove(twins, o # "undone in database")
          /\ failed' = (failed \/ o \in {"undone in database", "unread"})
          /\ shown' = {h \in shown : h.page # question.page \/ h.id \notin {r.id : r \in twins}}
      BY <1>3, Zenon DEF ConfirmAnnotation
    <3> QED BY <3>1, <3>2, Zenon
  <2>2. open' = open /\ revived' = revived
    BY <1>3, Zenon DEF ConfirmAnnotation
  <2>3. ASSUME open', ~failed', ~revived'
        PROVE  shown' = rows'
    <3>1. shown = rows /\ rows' = rows \ twins
      BY <2>1, <2>2, <2>3 DEF ListsAgree, DbRemove
    <3> QED BY <2>1, <3>1 DEF OneRowEach
  <2> QED BY <2>3 DEF ListsAgree
<1>4. ASSUME NEW ok \in BOOLEAN, DeleteMarked(ok)
      PROVE  ListsAgree'
  <2> DEFINE p == Min(MarkedPages)
  <2>1. p \in Pages
    <3>1. MarkedPages # {} /\ MarkedPages \in SUBSET Pages
      BY <1>4 DEF DeleteMarked, MarkedPages
    <3> QED BY <3>1, FirstPage DEF MarkedPages
  <2>2. /\ DbRemove({r \in rows : r.id = selected[p]}, ok) /\ DbOutcome(ok)
        /\ shown' = shown \ Marked(p) /\ open' = open /\ revived' = revived
    BY <1>4, Zenon DEF DeleteMarked
  <2> HIDE DEF p
  <2>3. ASSUME open', ~failed', ~revived'
        PROVE  shown' = rows'
    <3>1. ok /\ shown = rows /\ rows' = rows \ {r \in rows : r.id = selected[p]}
      BY <2>2, <2>3 DEF ListsAgree, DbRemove, DbOutcome
    <3>2. \A r \in rows : r.id = selected[p] => r.page = p
      BY <2>1 DEF MarksOnTheirPage, Known
    <3>3. Marked(p) = {r \in rows : r.id = selected[p]}
      BY <3>1, <3>2 DEF Marked, On
    <3> QED BY <2>2, <3>1, <3>3
  <2> QED BY <2>3 DEF ListsAgree
<1>5. ASSUME NEW ok \in BOOLEAN, NEW p \in Pages, NEW g \in Geos,
             NEW c \in 0 .. NumColors - 1, MakeHighlight(p, g, c, ok)
      PROVE  ListsAgree'
  <2>1. PICK i \in FreshIds, o \in FreshOrigins :
          LET h == [id |-> i, page |-> p, geo |-> g, color |-> c, org |-> o]
          IN  /\ DbAdd(h, ok)
              /\ shown' = IF ok THEN shown \cup {h} ELSE shown
    BY <1>5 DEF MakeHighlight
  <2>2. PICK h : /\ h.id \in FreshIds /\ DbAdd(h, ok)
                 /\ shown' = IF ok THEN shown \cup {h} ELSE shown
    BY <2>1
  <2>3. DbOutcome(ok) /\ open' = open /\ revived' = revived
    BY <1>5 DEF MakeHighlight
  <2>4. \A r \in rows : r.id # h.id
    BY <2>2, FreshIs DEF Known
  <2> QED BY <2>2, <2>3, <2>4 DEF DbAdd, DbOutcome, ListsAgree
<1>6. ASSUME NEW ok \in BOOLEAN, CycleColor(ok)
      PROVE  ListsAgree'
  <2> DEFINE there == {p \in MarkedPages : Marked(p) # {}}
             old == CHOOSE h \in Marked(Min(there)) : TRUE
             new == [old EXCEPT !.color = NextColor(@)]
  <2>1. there # {}
    BY <1>6 DEF CycleColor
  <2>2. old \in shown /\ old \in Highlight
    BY <2>1, CycledIs
  <2>3. /\ DbAdd(new, ok) /\ DbOutcome(ok) /\ Revives(new, ok) /\ open' = open
        /\ shown' = (shown \ {old}) \cup {new}
    BY <1>6 DEF CycleColor
  <2>4. new.id = old.id
    BY <2>2, Recoloured
  <2> HIDE DEF new, old, there
  <2>5. ASSUME open', ~failed', ~revived'
        PROVE  shown' = rows'
    <3>1. ok /\ shown = rows
      BY <2>3, <2>5 DEF ListsAgree, DbOutcome, Revives
    <3>2. {r \in rows : r.id # new.id} = rows \ {old}
      BY <2>2, <2>4, <3>1 DEF OneRowEach
    <3> QED BY <2>3, <3>1, <3>2 DEF DbAdd
  <2> QED BY <2>5 DEF ListsAgree
<1>7. ASSUME NEW ok \in BOOLEAN, NEW h \in Highlight, PanelDelete(h, ok)
      PROVE  ListsAgree'
  <2>1. /\ DbRemove({r \in rows : r.id = h.id}, ok) /\ open' = open /\ revived' = revived
        /\ shown' = IF ok THEN {s \in shown : s.id # h.id} ELSE shown
        /\ failed' = (failed \/ ~ok)
    BY <1>7, RelistProperties DEF PanelDelete
  <2> QED BY <2>1 DEF DbRemove, ListsAgree
<1>8. ASSUME NEW ok \in BOOLEAN, NEW h \in Highlight, PanelCycle(h, ok)
      PROVE  ListsAgree'
  <2> DEFINE new == [h EXCEPT !.color = NextColor(@)]
  <2>1. /\ h \in Known /\ DbAdd(new, ok) /\ Revives(new, ok) /\ open' = open
        /\ shown' = {IF s.id = h.id THEN [s EXCEPT !.color = new.color] ELSE s : s \in shown}
        /\ failed' = (failed \/ ~ok)
    BY <1>8, RelistProperties DEF PanelCycle, Known, Listed
  <2>2. new \in Highlight /\ Same(new, h)
    BY Recoloured DEF Same
  <2> HIDE DEF new
  <2>3. ASSUME open', ~failed', ~revived'
        PROVE  shown' = rows'
    <3>1. ok /\ shown = rows
      BY <2>1, <2>3 DEF ListsAgree, Revives
    <3>2. PICK r \in rows : r.id = h.id
      BY <2>1, <2>2, <2>3, <3>1 DEF Revives, Same
    <3>3. \A s \in rows : s.id = h.id => s = r
      BY <3>2 DEF OneRowEach
    <3>4. Same(r, h) /\ r \in Highlight
      BY <2>1, <3>2 DEF Same, SameHighlight, Known, TypeOK
    <3>5. [r EXCEPT !.color = new.color] = new
      BY <2>2, <3>4 DEF Highlight, Same
    <3>6. shown' = {IF s.id = h.id THEN new ELSE s : s \in rows}
      BY <2>1, <3>1, <3>3, <3>5
    <3>7. rows' = {s \in rows : s.id # h.id} \cup {new}
      BY <2>1, <2>2, <3>1 DEF DbAdd, Same
    <3> QED BY <3>2, <3>6, <3>7
  <2> QED BY <2>3 DEF ListsAgree
<1>9. ASSUME NEW seen \in Readings, NEW lost \in SUBSET annots, Import(lost, seen)
      PROVE  ListsAgree'
  <2>1. PICK id \in Injection(ToImport(seen), FreshIds) :
          /\ rows' = rows \cup Imported(ToImport(seen) \ lost, id)
          /\ shown' = shown \cup Imported(ToImport(seen), id)
    BY <1>9, ImportProperties
  <2>2. failed' = (failed \/ lost # {}) /\ open' = open /\ revived' = revived
    BY <1>9 DEF Import
  <2>3. lost = {} => ToImport(seen) \ lost = ToImport(seen)
    OBVIOUS
  <2> QED BY <2>1, <2>2, <2>3 DEF ListsAgree
<1> QED BY <1>1, <1>2, <1>3, <1>4, <1>5, <1>6, <1>7, <1>8, <1>9 DEF Next

LEMMA ListsInit == Init => ListsInv
<1> SUFFICES ASSUME Init PROVE ListsInv
  OBVIOUS
<1>1. Known = {}
  BY DEF Init, Known, Listed
<1>2. rows = {} /\ shown = {} /\ question = None
  BY DEF Init
<1> QED BY <1>1, <1>2, TypeInit DEF ListsInv, WellFormed, ListsAgree, SameHighlight, OneRowEach,
           MarksOnTheirPage, QuestionAsked

LEMMA ListsStep == ListsInv /\ [Next]_vars => ListsInv'
  BY TypeStep, AgreeStep, SameHighlightStep, OneRowEachStep, MarksStep, AskedStep
     DEF ListsInv, WellFormed
-----------------------------------------------------------------------------
(***************************************************************************)
(* Export and import do not make a second highlight of one.                *)
(***************************************************************************)
\* Saving puts into the file what is in memory, or nothing.
LEMMA Saved ==
    ASSUME NEW ok, Save(ok)
    PROVE  /\ Embedded' \subseteq annots' \cup disk.annots
           /\ disk'.annots = disk.annots \/ disk'.annots = annots'
<1>1. disk' = disk \/ disk' = [annots |-> annots', notes |-> notes']
  BY Zenon DEF Save
<1> QED BY <1>1 DEF Embedded

\* If nothing is new but colours, it is enough to look at what the document has lost.
LEMMA NothingCopied ==
    ASSUME NoEcho, Copies, ~revived, ~doubled, OneRowEach',
           \A x \in rows' : \E y \in rows : Same(x, y),
           Embedded' \subseteq Embedded,
           open' => \A r \in rows', d \in disk'.annots : r.org = d.org => d \in annots'
    PROVE  NoEcho' /\ Copies'
<1>1. ASSUME NEW r \in rows', NEW s \in rows', r.org = s.org
      PROVE  r = s
  <2>1. PICK x \in rows, y \in rows : Same(r, x) /\ Same(s, y)
    OBVIOUS
  <2>2. x = y
    <3>1. x.org = y.org
      BY <1>1, <2>1 DEF Same
    <3> QED BY <3>1, Zenon DEF NoEcho
  <2> QED BY <2>1, <2>2 DEF Same, OneRowEach
<1>2. ASSUME NEW r \in rows', NEW a \in Embedded', r.org = a.org
      PROVE  Match(r, a, ImportEps)
  <2>1. PICK x \in rows : Same(r, x)
    OBVIOUS
  <2>2. Match(x, a, ImportEps)
    BY <1>2, <2>1 DEF Copies, Same
  <2> QED BY <2>1, <2>2 DEF Match, Same
<1>3. \A a, b \in Embedded' : a.org = b.org => a = b
  BY DEF Copies
<1> QED BY <1>1, <1>2, <1>3, Zenon DEF NoEcho, Copies

\* A change of colour that finds its row.
LEMMA RecolouredRows ==
    ASSUME TypeOK, SameHighlight, NEW h \in Known, h \in Highlight, NEW new, NEW ok \in BOOLEAN,
           new = [h EXCEPT !.color = NextColor(@)],
           DbAdd(new, ok), Revives(new, ok), ~revived'
    PROVE  \A x \in rows' : \E y \in rows : Same(x, y)
<1>1. Same(new, h)
  BY Recoloured DEF Same
<1>2. CASE ~ok
  BY <1>2 DEF DbAdd, Same
<1>3. CASE ok
  <2>1. PICK r \in rows : r.id = new.id
    BY <1>3 DEF Revives
  <2>2. Same(new, r)
    BY <1>1, <2>1 DEF Same, SameHighlight, Known
  <2> QED BY <1>3, <2>2 DEF DbAdd, Same
<1> QED BY <1>2, <1>3

LEMMA EchoInit == Init => EchoInv
<1> SUFFICES ASSUME Init PROVE EchoInv
  OBVIOUS
<1>1. rows = {} /\ annots = {}
  BY DEF Init
<1>2. PICK g \in Geos, p \in Pages, o \in Origins, N \in SUBSET NotePages :
        disk \in {[annots |-> {}, notes |-> N],
                 [annots |-> {[page |-> p, geo |-> g, org |-> o]}, notes |-> N]}
  BY DEF Init
<1>3. \A a, b \in disk.annots : a = b
  BY <1>2
<1> QED BY <1>1, <1>3 DEF EchoInv, NoEcho, Copies, Embedded

\* y deletes the rows that match the annotation, so that none of its origin is left.
LEMMA EchoConfirm ==
    ASSUME ListsInv, NoEcho, Copies, ~revived, ~doubled, OneRowEach',
           NEW seen \in Readings, NEW o \in Outcomes, ConfirmAnnotation(o, seen)
    PROVE  NoEcho' /\ Copies'
<1> DEFINE there == {a \in annots : Match(a, question, 0)}
           deleted == there # {} /\ o # "undeleted"
           twins == IF deleted THEN Twins(question) \cap seen ELSE {}
<1>1. /\ question # None /\ open
      /\ IF deleted THEN \E a \in there : annots' = annots \ {a} ELSE annots' = annots
      /\ Save(deleted /\ o # "unsaved")
      /\ DbRemove(twins, o # "undone in database")
      /\ seen = rows \/ o = "unread"
  BY Zenon DEF ConfirmAnnotation
<1>2. annots' \subseteq annots /\ rows' \subseteq rows
  BY <1>1 DEF DbRemove
<1>3. Embedded' \subseteq Embedded
  BY <1>1, <1>2, Saved DEF Embedded
<1>4. ASSUME NEW r \in rows', NEW d \in disk'.annots, r.org = d.org
      PROVE  d \in annots'
  <2>1. CASE disk'.annots = annots'
    BY <1>4, <2>1
  <2>2. CASE ~deleted
    <3>1. annots' = annots
      BY <1>1, <2>2, Zenon
    <3> QED BY <1>1, <1>2, <1>4, <3>1, Saved DEF Copies
  <2>3. CASE deleted /\ ~(deleted /\ o # "unsaved")
    <3>1. disk' = disk /\ rows' = rows \ Twins(question)
      <4>1. o = "unsaved" /\ seen = rows
        BY <1>1, <2>3
      <4>2. Twins(question) \subseteq rows
        BY DEF Twins
      <4> QED BY <1>1, <2>3, <4>1, <4>2 DEF Save, DbRemove
    <3>2. PICK a \in there : annots' = annots \ {a}
      BY <1>1, <2>3
    <3>3. d \in annots /\ r \in rows
      BY <1>1, <1>2, <1>4, <3>1 DEF Copies
    <3>4. d # a
      <4>1. SUFFICES ASSUME d = a PROVE FALSE
        OBVIOUS
      <4>2. a \in Annotation /\ r \in Highlight /\ question \in Question
        BY <1>1, <3>2, <3>3 DEF ListsInv, WellFormed, TypeOK
      <4>3. a.page = question.page /\ a.geo = question.geo
        BY <3>2, <4>2, MatchExactly
      <4>4. Match(r, question, ImportEps)
        BY <1>4, <3>3, <4>1, <4>3 DEF Copies, Embedded, Match
      <4>5. Match(r, question, DeleteEps)
        <5>1. \A n \in Int : n \in -ImportEps .. ImportEps => n \in -DeleteEps .. DeleteEps
          BY EpsAssumption
        <5>2. r.geo - question.geo \in Int
          <6>1. r.geo \in Geos /\ question.geo \in Geos
            BY <4>2 DEF Highlight, Question
          <6>2. r.geo \in Int /\ question.geo \in Int
            BY <6>1, GeosAssumption, Zenon
          <6> QED BY <6>2
        <5> QED BY <4>4, <5>1, <5>2, Zenon DEF Match
      <4> QED BY <1>4, <3>1, <3>3, <4>5 DEF Twins
    <3> QED BY <3>2, <3>3, <3>4
  <2>4. CASE deleted /\ o # "unsaved"
    <3>1. disk' = [annots |-> annots', notes |-> notes']
      BY <1>1, <2>4 DEF Save
    <3> QED BY <1>4, <3>1
  <2> QED BY <2>2, <2>3, <2>4
<1>5. \A x \in rows' : \E y \in rows : Same(x, y)
  BY <1>2 DEF Same
<1> QED BY <1>3, <1>4, <1>5, NothingCopied

\* The import takes nothing of which there is a row.
LEMMA EchoImport ==
    ASSUME ListsInv, NoEcho, Copies, ~revived, ~doubled, ~doubled',
           NEW seen \in Readings, NEW lost \in SUBSET annots, Import(lost, seen)
    PROVE  NoEcho' /\ Copies'
<1>1. PICK id \in Injection(ToImport(seen), FreshIds) :
        rows' = rows \cup Imported(ToImport(seen) \ lost, id)
  BY ImportProperties DEF ListsInv, WellFormed
<1>2. annots' = annots /\ disk' = disk /\ open' = open /\ seen = rows
  BY DEF Import, fileVars
<1>3. \A x \in rows' : x \in rows \/ \E a \in ToImport(seen) : x = [id |-> id[a], page |-> a.page,
                                             geo |-> a.geo, color |-> 0, org |-> a.org]
  BY <1>1 DEF Imported
<1>4. \A a \in ToImport(seen) : a \in annots /\ a \in Embedded /\ a \in Annotation
  BY DEF ToImport, Embedded, ListsInv, WellFormed, TypeOK
<1>5. ASSUME NEW a \in ToImport(seen), NEW r \in rows
      PROVE  r.org # a.org
  <2>1. r.geo \in Int /\ a.geo \in Int
    BY <1>4, GeosAssumption DEF ListsInv, WellFormed, TypeOK, Highlight, Annotation
  <2>2. ~Match(a, r, ImportEps)
    BY <1>2 DEF ToImport, MatchedIn
  <2>3. ~Match(r, a, ImportEps)
    BY <2>1, <2>2, MatchSymmetric, EpsAssumption
  <2> QED BY <1>4, <2>3 DEF Copies
<1>6. \A a, b \in ToImport(seen) : a.org = b.org => a = b
  BY <1>4 DEF Copies
<1>7. \A r, s \in rows' : r.org = s.org => r = s
  BY <1>3, <1>5, <1>6 DEF NoEcho
<1>8. ASSUME NEW x \in rows', NEW e \in Embedded', x.org = e.org
      PROVE  Match(x, e, ImportEps)
  <2>1. CASE x \in rows
    BY <1>2, <1>8, <2>1 DEF Copies, Embedded
  <2>2. ASSUME NEW a \in ToImport(seen),
               x = [id |-> id[a], page |-> a.page, geo |-> a.geo, color |-> 0, org |-> a.org]
        PROVE  Match(x, e, ImportEps)
    <3>1. e = a
      BY <1>2, <1>4, <1>8, <2>2 DEF Copies, Embedded
    <3>2. x.geo = e.geo /\ x.page = e.page /\ e.geo \in Int
      BY <1>4, <2>2, <3>1, GeosAssumption DEF Annotation
    <3>3. \A n \in Int : n - n \in -ImportEps .. ImportEps
      BY EpsAssumption
    <3> QED BY <3>2, <3>3 DEF Match
  <2> QED BY <1>3, <2>1, <2>2
<1>9. ASSUME open', NEW x \in rows', NEW d \in disk'.annots, x.org = d.org
      PROVE  d \in annots'
  <2>1. CASE x \in rows
    BY <1>2, <1>9, <2>1 DEF Copies
  <2>2. ASSUME NEW a \in ToImport(seen), x.org = a.org
        PROVE  d \in annots'
    BY <1>2, <1>4, <1>9, <2>2 DEF Copies, Embedded
  <2> QED BY <1>3, <2>1, <2>2
<1>10. \A a, b \in Embedded' : a.org = b.org => a = b
  BY <1>2 DEF Copies, Embedded
<1> QED BY <1>7, <1>8, <1>9, <1>10, Zenon DEF NoEcho, Copies
\* The export gives nothing of which the document has an annotation.
LEMMA EchoExport ==
    ASSUME ListsInv, NoEcho, Copies, ~revived, ~doubled,
           NEW refused \in SUBSET Pages, NEW seen \in Readings,
           NEW saved \in BOOLEAN, NEW own \in BOOLEAN,
           Export(refused, saved, own, seen)
    PROVE  NoEcho' /\ Copies'
<1> DEFINE given == {r \in ToExport(seen) : r.page \notin refused}
<1>1. PICK geo \in Rounded(given) :
        /\ annots' = annots \cup Exported(given, geo)
        /\ Exported(given, geo) \subseteq Annotation
  BY ExportProperties DEF ListsInv, WellFormed
<1>2. open /\ open' = open /\ rows' = rows /\ revived' = revived
  BY Zenon DEF Export, storeVars
<1>3. Save(given # {} /\ saved /\ own)
  BY Zenon DEF Export
<1>4. given \subseteq ToExport(seen) /\ ToExport(seen) \subseteq rows
  BY DEF ToExport, Readings
<1>5. \A r \in given : geo[r] \in Geos /\ geo[r] - r.geo \in -ImportEps .. ImportEps
  BY DEF Rounded
<1> HIDE DEF given
<1> DEFINE gave(r) == [page |-> r.page, geo |-> geo[r], org |-> r.org]
<1>6. \A a \in annots' : a \in annots \/ \E r \in given : a = gave(r)
  BY <1>1 DEF Exported
<1>7. \A a \in Embedded' : a \in Embedded \/ \E r \in given : a = gave(r)
  BY <1>3, <1>6, Saved DEF Embedded
<1>8. ASSUME NEW r \in given, NEW a \in Embedded
      PROVE  r.org # a.org
  <2>1. SUFFICES ASSUME r.org = a.org PROVE FALSE
    OBVIOUS
  <2>2. a \in annots /\ r \in rows
    BY <1>2, <1>4, <2>1 DEF Copies, Embedded
  <2>3. Match(r, a, ImportEps)
    BY <2>1, <2>2 DEF Copies
  <2>4. ~Match(r, a, ImportEps)
    BY <1>4, <2>2 DEF ToExport, MatchedIn
  <2> QED BY <2>3, <2>4
<1>9. \A r, s \in rows : r.org = s.org => r = s
  BY Zenon DEF NoEcho
<1>10. ASSUME NEW a \in Embedded', NEW b \in Embedded', a.org = b.org
       PROVE  a = b
  <2>1. CASE a \in Embedded /\ b \in Embedded
    BY <1>10, <2>1, Zenon DEF Copies
  <2>2. ASSUME NEW r \in given, a = gave(r)
        PROVE  a = b
    <3>1. PICK s \in given : b = gave(s)
      BY <1>7, <1>8, <1>10, <2>2
    <3>2. r = s
      BY <1>4, <1>9, <1>10, <2>2, <3>1
    <3> QED BY <2>2, <3>1, <3>2
  <2>3. ASSUME NEW r \in given, b = gave(r), a \in Embedded
        PROVE  a = b
    BY <1>8, <1>10, <2>3
  <2> QED BY <1>7, <2>1, <2>2, <2>3
<1>11. ASSUME NEW r \in rows, NEW a \in Embedded', r.org = a.org
       PROVE  Match(r, a, ImportEps)
  <2>1. CASE a \in Embedded
    BY <1>11, <2>1, Zenon DEF Copies
  <2>2. ASSUME NEW s \in given, a = gave(s)
        PROVE  Match(r, a, ImportEps)
    <3>1. r = s
      BY <1>4, <1>9, <1>11, <2>2
    <3>2. r.geo \in Int /\ geo[r] \in Int
      <4>1. r.geo \in Geos /\ geo[r] \in Geos
        BY <1>5, <3>1 DEF ListsInv, WellFormed, TypeOK, Highlight
      <4> QED BY <4>1, GeosAssumption, Zenon
    <3>3. Match(a, r, ImportEps)
      BY <1>5, <2>2, <3>1 DEF Match
    <3> QED BY <2>2, <3>1, <3>2, <3>3, MatchSymmetric, EpsAssumption
  <2> QED BY <1>7, <2>1, <2>2
<1>12. ASSUME NEW r \in rows, NEW d \in disk'.annots, r.org = d.org
       PROVE  d \in annots'
  <2>1. CASE disk'.annots = annots'
    BY <1>12, <2>1
  <2>2. CASE disk'.annots = disk.annots
    BY <1>1, <1>2, <1>12, <2>2 DEF Copies
  <2> QED BY <1>3, <2>1, <2>2, Saved
<1>13. NoEcho'
  BY <1>2, <1>9, Zenon DEF NoEcho
<1> QED BY <1>2, <1>10, <1>11, <1>12, <1>13, Zenon DEF Copies

\* A highlight that is made is of no origin that was known.
LEMMA EchoMake ==
    ASSUME ListsInv, NoEcho, Copies, ~revived, ~doubled, NEW ok \in BOOLEAN, NEW p \in Pages,
           NEW g \in Geos, NEW c \in 0 .. NumColors - 1, MakeHighlight(p, g, c, ok)
    PROVE  NoEcho' /\ Copies'
<1>1. PICK h : /\ h.org \in FreshOrigins
               /\ DbAdd(h, ok)
  <2>1. PICK i \in FreshIds, o \in FreshOrigins :
          DbAdd([id |-> i, page |-> p, geo |-> g, color |-> c, org |-> o], ok)
    BY DEF MakeHighlight
  <2> QED BY <2>1
<1>2. annots' = annots /\ disk' = disk /\ open' = open /\ revived' = revived
  BY DEF MakeHighlight, fileVars
<1>3. \A x \in rows' : x \in rows \/ x = h
  BY <1>1 DEF DbAdd
<1>4. /\ \A x \in rows : x.org # h.org
      /\ \A a \in Embedded : a.org # h.org
  BY <1>1 DEF FreshOrigins, Embedded
<1>5. Embedded' = Embedded
  BY <1>2 DEF Embedded
<1>6. \A r, s \in rows : r.org = s.org => r = s
  BY Zenon DEF NoEcho
<1>7. \A r, s \in rows' : r.org = s.org => r = s
  BY <1>3, <1>4, <1>6
<1>8. \A r \in rows', a \in Embedded' : r.org = a.org => r \in rows /\ a \in Embedded
  BY <1>3, <1>4, <1>5
<1>9. disk.annots \subseteq Embedded
  BY DEF Embedded
<1> QED BY <1>2, <1>5, <1>7, <1>8, <1>9 DEF NoEcho, Copies

LEMMA EchoStep == ListsInv /\ EchoInv /\ [Next]_vars => EchoInv'
<1> SUFFICES ASSUME ListsInv, EchoInv, [Next]_vars, ~revived', ~doubled'
             PROVE  NoEcho' /\ Copies'
  BY DEF EchoInv, NoEcho
<1>1. ~revived /\ ~doubled
  <2>1. \/ revived' = revived \/ \E h, ok : Revives(h, ok)
    BY Zenon DEF Next, Open, Close, TogglePanel, AskAboutEmbedded, AnswerNothing, Cancel,
         ConfirmNote, ConfirmAnnotation, ClickHighlight, ClickAnnotation, ClickNote,
         ClickElsewhere, MakeHighlight, DeleteMarked, CycleColor, PanelDelete, PanelCycle,
         Import, Export, vars
  <2>2. \/ doubled' = doubled \/ \E seen : doubled' = (doubled \/ seen # rows)
    BY Zenon DEF Next, Open, Close, TogglePanel, AskAboutEmbedded, AnswerNothing, Cancel,
         ConfirmNote, ConfirmAnnotation, ClickHighlight, ClickAnnotation, ClickNote,
         ClickElsewhere, MakeHighlight, DeleteMarked, CycleColor, PanelDelete, PanelCycle,
         Import, Export, vars
  <2>3. revived \in BOOLEAN /\ doubled \in BOOLEAN
    BY DEF ListsInv, WellFormed, TypeOK
  <2> QED BY <2>1, <2>2, <2>3 DEF Revives
<1>2. NoEcho /\ Copies /\ TypeOK /\ SameHighlight /\ OneRowEach'
  BY <1>1, OneRowEachStep DEF EchoInv, ListsInv, WellFormed
<1>3. CASE \/ Close \/ AskAboutEmbedded \/ AnswerNothing \/ Cancel
           \/ \E seen \in Readings : TogglePanel(seen)
           \/ \E h \in shown : ClickHighlight(h)
           \/ \E a \in annots : ClickAnnotation(a)
           \/ \E p \in Pages : ClickNote(p) \/ ClickElsewhere(p)
           \/ \E ok \in BOOLEAN : DeleteMarked(ok) \/ \E h \in Highlight : PanelDelete(h, ok)
           \/ UNCHANGED vars
  <2>1. /\ rows' \subseteq rows /\ disk' = disk
        /\ (annots' = annots /\ open' = open) \/ (annots' = {} /\ ~open')
    BY <1>3 DEF TogglePanel, AskAboutEmbedded, AnswerNothing, Cancel, ClickHighlight, Close,
                ClickAnnotation, ClickNote, ClickElsewhere, DeleteMarked, PanelDelete, DbRemove,
                vars, storeVars, fileVars
  <2>2. \A x \in rows' : \E y \in rows : Same(x, y)
    BY <2>1 DEF Same
  <2>3. Embedded' \subseteq Embedded
    BY <2>1 DEF Embedded
  <2>4. open' => \A r \in rows', d \in disk'.annots : r.org = d.org => d \in annots'
    BY <1>2, <2>1 DEF Copies
  <2> QED BY <1>1, <1>2, <2>2, <2>3, <2>4, NothingCopied
<1>4. CASE \/ \E seen \in Readings : Open(seen)
           \/ \E o \in Outcomes : ConfirmNote(o)
  <2>1. /\ rows' = rows
        /\ annots' \in {annots, disk.annots}
        /\ disk'.annots \in {annots', disk.annots}
        /\ open' => (open /\ annots' = annots) \/ annots' = disk'.annots
    <3>1. CASE \E seen \in Readings : Open(seen)
      BY <3>1 DEF Open
    <3>2. ASSUME NEW o \in Outcomes, ConfirmNote(o)
          PROVE  /\ rows' = rows /\ annots' = annots /\ open /\ open' = open
                 /\ disk'.annots \in {annots', disk.annots}
      <4>1. Save(noteQuestion \in notes /\ o = "done")
        BY <3>2, Zenon DEF ConfirmNote
      <4>2. rows' = rows /\ annots' = annots /\ open /\ open' = open
        BY <3>2, Zenon DEF ConfirmNote, storeVars
      <4> QED BY <4>1, <4>2, Saved
    <3> QED BY <1>4, <3>1, <3>2
  <2>2. \A x \in rows' : \E y \in rows : Same(x, y)
    BY <2>1 DEF Same
  <2>3. Embedded' \subseteq Embedded
    BY <2>1 DEF Embedded
  <2>4. open' => \A r \in rows', d \in disk'.annots : r.org = d.org => d \in annots'
    BY <1>2, <2>1 DEF Copies
  <2> QED BY <1>1, <1>2, <2>2, <2>3, <2>4, NothingCopied
<1>5. ASSUME NEW h \in Known, h \in Highlight, NEW new, NEW ok \in BOOLEAN,
             new = [h EXCEPT !.color = NextColor(@)],
             DbAdd(new, ok), Revives(new, ok), UNCHANGED <<open, fileVars>>
      PROVE  NoEcho' /\ Copies'
  <2>1. \A x \in rows' : \E y \in rows : Same(x, y)
    BY <1>2, <1>5, RecolouredRows
  <2>2. Embedded' = Embedded /\ annots' = annots /\ disk' = disk /\ open' = open
    BY <1>5 DEF Embedded, fileVars
  <2>3. \A r \in rows' : \E y \in rows : r.org = y.org
    BY <2>1 DEF Same
  <2>4. open' => \A r \in rows', d \in disk'.annots : r.org = d.org => d \in annots'
    BY <1>2, <2>2, <2>3 DEF Copies
  <2> QED BY <1>1, <1>2, <2>1, <2>2, <2>4, NothingCopied
<1>6. ASSUME NEW ok \in BOOLEAN, CycleColor(ok)
      PROVE  NoEcho' /\ Copies'
  <2> DEFINE there == {p \in MarkedPages : Marked(p) # {}}
             old == CHOOSE h \in Marked(Min(there)) : TRUE
             new == [old EXCEPT !.color = NextColor(@)]
  <2>1. there # {}
    BY <1>6 DEF CycleColor
  <2>2. old \in Known /\ old \in Highlight
    BY <1>2, <2>1, CycledIs DEF Known
  <2>3. DbAdd(new, ok) /\ Revives(new, ok) /\ UNCHANGED <<open, fileVars>>
    BY <1>6 DEF CycleColor
  <2>4. new = [old EXCEPT !.color = NextColor(@)]
    OBVIOUS
  <2> HIDE DEF new, old, there
  <2> QED BY <1>5, <2>2, <2>3, <2>4
<1>7. ASSUME NEW ok \in BOOLEAN, NEW h \in Highlight, PanelCycle(h, ok)
      PROVE  NoEcho' /\ Copies'
  <2> DEFINE new == [h EXCEPT !.color = NextColor(@)]
  <2>1. h \in Known /\ DbAdd(new, ok) /\ Revives(new, ok) /\ UNCHANGED <<open, fileVars>>
    BY <1>7 DEF PanelCycle, Known, Listed
  <2>2. new = [h EXCEPT !.color = NextColor(@)]
    OBVIOUS
  <2> HIDE DEF new
  <2> QED BY <1>5, <2>1, <2>2
<1> QED BY <1>1, <1>2, <1>3, <1>4, <1>6, <1>7, EchoConfirm, EchoImport, EchoExport, EchoMake
        DEF Next
-----------------------------------------------------------------------------
(***************************************************************************)
(* What the document loses.                                                *)
(***************************************************************************)
\* While the document is open it is y alone that takes an annotation from it.
LEMMA OnlyConfirmDeletes ==
    ASSUME TypeOK, [Next]_vars, open, open', NEW a \in annots, a \notin annots'
    PROVE  \E seen \in Readings, o \in Outcomes : ConfirmAnnotation(o, seen)
<1>1. CASE \/ Close \/ \E seen \in Readings : Open(seen) \/ TogglePanel(seen)
           \/ AskAboutEmbedded \/ AnswerNothing \/ Cancel
           \/ \E o \in Outcomes : ConfirmNote(o)
           \/ \E h \in shown : ClickHighlight(h)
           \/ \E b \in annots : ClickAnnotation(b)
           \/ \E p \in Pages : ClickNote(p) \/ ClickElsewhere(p)
           \/ \E ok \in BOOLEAN :
                \/ \E p \in Pages, g \in Geos, c \in 0 .. NumColors - 1 : MakeHighlight(p, g, c, ok)
                \/ DeleteMarked(ok) \/ CycleColor(ok)
                \/ \E h \in Highlight : PanelDelete(h, ok) \/ PanelCycle(h, ok)
           \/ \E seen \in Readings, lost \in SUBSET annots : Import(lost, seen)
           \/ UNCHANGED vars
  <2>1. ~open \/ ~open' \/ annots' = annots
    BY <1>1 DEF Open, Close, TogglePanel, AskAboutEmbedded, AnswerNothing, Cancel, ConfirmNote,
                ClickHighlight, ClickAnnotation, ClickNote, ClickElsewhere, MakeHighlight,
                DeleteMarked, CycleColor, PanelDelete, PanelCycle, Import, vars, fileVars
  <2> QED BY <2>1
<1>2. ASSUME NEW refused \in SUBSET Pages, NEW seen \in Readings,
             NEW saved \in BOOLEAN, NEW own \in BOOLEAN,
             Export(refused, saved, own, seen)
      PROVE  FALSE
  BY <1>2, ExportProperties
<1> QED BY <1>1, <1>2 DEF Next

\* The annotation that y takes is where x asked about it.
LEMMA ConfirmedIsAsked ==
    ASSUME TypeOK, NEW seen \in Readings, NEW o \in Outcomes, ConfirmAnnotation(o, seen),
           NEW a \in annots, a \notin annots'
    PROVE  /\ question # None /\ question \in Question
           /\ question = [page |-> a.page, geo |-> a.geo]
           /\ ~failed' =>
                /\ rows' = rows \ Twins(question) /\ ~failed
                /\ shown' = {h \in shown : \/ h.page # question.page
                                           \/ h.id \notin {r.id : r \in Twins(question)}}
<1> DEFINE there == {b \in annots : Match(b, question, 0)}
           deleted == there # {} /\ o # "undeleted"
           twins == IF deleted THEN Twins(question) \cap seen ELSE {}
<1>1. /\ question # None
      /\ IF deleted THEN \E b \in there : annots' = annots \ {b} ELSE annots' = annots
      /\ DbRemove(twins, o # "undone in database")
      /\ failed' = (failed \/ o \in {"undone in database", "unread"})
      /\ seen = rows \/ o = "unread"
      /\ shown' = {h \in shown : h.page # question.page \/ h.id \notin {r.id : r \in twins}}
  BY Zenon DEF ConfirmAnnotation
<1>2. deleted /\ a \in there
  BY <1>1
<1>3. question \in Question /\ a \in Annotation
  BY <1>1 DEF TypeOK
<1>4. a.page = question.page /\ a.geo = question.geo
  BY <1>2, <1>3, MatchExactly
<1>5. question = [page |-> a.page, geo |-> a.geo]
  BY <1>3, <1>4 DEF Question
<1>6. ~failed' => ~failed /\ twins = Twins(question) /\ DbRemove(twins, TRUE)
  <2>1. Twins(question) \subseteq rows
    BY DEF Twins
  <2> QED BY <1>1, <1>2, <2>1
<1> HIDE DEF twins
<1> QED BY <1>1, <1>3, <1>5, <1>6 DEF DbRemove

LEMMA AskedOnlyStep ==
    ASSUME ListsInv, [Next]_vars, open, open', NEW a \in annots \ annots'
    PROVE  [page |-> a.page, geo |-> a.geo] \in asked.annots /\ question # None
<1>1. PICK seen \in Readings, o \in Outcomes : ConfirmAnnotation(o, seen)
  BY OnlyConfirmDeletes DEF ListsInv, WellFormed
<1>2. question # None /\ question = [page |-> a.page, geo |-> a.geo]
  BY <1>1, ConfirmedIsAsked DEF ListsInv, WellFormed
<1> QED BY <1>2 DEF ListsInv, QuestionAsked

LEMMA EverywhereStep ==
    ASSUME ListsInv, [Next]_vars, open, open', NEW a \in annots \ annots'
    PROVE  /\ failed' \/ ~MatchedIn(rows', a, DeleteEps)
           /\ failed' \/ revived \/ ~MatchedIn(shown', a, DeleteEps)
<1>1. PICK seen \in Readings, o \in Outcomes : ConfirmAnnotation(o, seen)
  BY OnlyConfirmDeletes DEF ListsInv, WellFormed
<1>2. /\ question \in Question
      /\ question = [page |-> a.page, geo |-> a.geo]
      /\ ~failed' =>
           /\ rows' = rows \ Twins(question) /\ ~failed
           /\ shown' = {h \in shown : \/ h.page # question.page
                                      \/ h.id \notin {r.id : r \in Twins(question)}}
  BY <1>1, ConfirmedIsAsked DEF ListsInv, WellFormed
<1>3. a.page = question.page /\ a.geo = question.geo
  BY <1>2
<1>4. a.geo \in Int /\ \A h \in Highlight : h.geo \in Int
  <2>1. a.geo \in Geos /\ \A h \in Highlight : h.geo \in Geos
    BY DEF ListsInv, WellFormed, TypeOK, Annotation, Highlight
  <2> QED BY <2>1, GeosAssumption, Zenon
<1>5. \A h \in Highlight : Match(a, h, DeleteEps) <=> Match(h, question, DeleteEps)
  <2>1. \A h \in Highlight : Match(a, h, DeleteEps) <=> Match(h, a, DeleteEps)
    BY <1>4, MatchSymmetric, EpsAssumption
  <2> QED BY <1>3, <2>1 DEF Match
<1>6. rows \subseteq Highlight /\ shown \subseteq Highlight
  BY DEF ListsInv, WellFormed, TypeOK
<1>7. \A r \in rows : Match(a, r, DeleteEps) => r \in Twins(question)
  BY <1>5, <1>6 DEF Twins
<1>8. failed' \/ ~MatchedIn(rows', a, DeleteEps)
  BY <1>2, <1>7 DEF MatchedIn
<1>9. ASSUME ~failed', ~revived
      PROVE  ~MatchedIn(shown', a, DeleteEps)
  <2>1. shown = rows
    BY <1>2, <1>9 DEF ListsInv, WellFormed, ListsAgree
  <2>2. \A h \in Twins(question) : h.page = question.page /\ h \notin shown'
    BY <1>2, <1>9 DEF Twins, Match
  <2>3. shown' \subseteq shown
    BY <1>2, <1>9
  <2> QED BY <1>7, <2>1, <2>2, <2>3 DEF MatchedIn
<1> QED BY <1>8, <1>9

-----------------------------------------------------------------------------
(***************************************************************************)
(* The theorems.                                                           *)
(***************************************************************************)
\* The inductive invariant of the lists.
LEMMA ListsInvariant == Spec => []ListsInv
  BY ListsInit, ListsStep, PTL DEF Spec

\* What the pages show is what the database has, colours included, through keys,
\* questions, panel, import and reopening, unless the database failed (to write a row,
\* or to read them for the document or for y) or a change of colour brought a deleted
\* row back (document_open, sc_delete_highlight, sc_highlight,
\* cb_highlights_key_press, cmd_highlights_import).
THEOREM PagesShowRows == Spec => []WellFormed
<1>1. ListsInv => WellFormed
  BY DEF ListsInv
<1> QED BY <1>1, ListsInvariant, PTL

\* No two rows are of one highlight: what cmd_highlights_export writes
\* cmd_highlights_import does not take for new, nor the other way round, whatever was
\* deleted, saved or reopened between, as long as every import was given all the rows.
THEOREM NoSecondHighlight == Spec => []NoEcho
<1>1. EchoInv => NoEcho
  BY DEF EchoInv
<1> QED BY <1>1, ListsInvariant, EchoInit, EchoStep, PTL DEF Spec

\* The document loses an annotation only by y, and only one x has asked about since
\* Escape (sc_confirm_embedded_delete, sc_abort).
THEOREM LosesOnlyAsked == Spec => DeletesOnlyAsked
<1>1. ListsInv /\ [Next]_vars =>
        [open /\ open' => \A a \in annots \ annots' :
           /\ [page |-> a.page, geo |-> a.geo] \in asked.annots
           /\ question # None]_vars
  BY AskedOnlyStep
<1> QED BY <1>1, ListsInvariant, PTL DEF Spec, DeletesOnlyAsked

\* With the annotation go the highlights that match it, from the database and, if they
\* were as the database, from the pages, unless the database fails to give or to remove
\* them (sc_confirm_embedded_delete).
THEOREM LosesEverywhere == Spec => DeletedEverywhere
<1>1. ListsInv /\ [Next]_vars =>
        [open /\ open' => \A a \in annots \ annots' :
           /\ failed' \/ ~MatchedIn(rows', a, DeleteEps)
           /\ failed' \/ revived \/ ~MatchedIn(shown', a, DeleteEps)]_vars
  BY EverywhereStep
<1> QED BY <1>1, ListsInvariant, PTL DEF Spec, DeletedEverywhere
=============================================================================
