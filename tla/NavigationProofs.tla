-------------------------- MODULE NavigationProofs --------------------------
(***************************************************************************)
(* Proofs about where the reader is: about the jump list and the bisection *)
(* first, then about the view, up from the fractions that its positions    *)
(* are.                                                                    *)
(*                                                                         *)
(* View holds by one invariant, Laid.  It has two halves.  Sound is about  *)
(* geometry: the grid is in the document, fills the window at any zoom, and*)
(* the value is in the bounds, which are those of the grid unless GTK has  *)
(* yet to lay the window out.  Synced is about the position: the value is  *)
(* the one that shows it, unless the code did not set it.  The heart of it *)
(* are RatioShows (the position read from a value is shown by it) and      *)
(* SetShows (a value set for a position, in a grid that covers it, shows   *)
(* it), and RenderRangeCovers, that a new grid does cover it.              *)
(***************************************************************************)
EXTENDS JumpList, View, SequenceTheorems, NaturalsInduction, WellFoundedInduction, TLAPS

Jumps == [list : Seq(Pages), cur : Nat]

Alternating(l) == \A i \in 1 .. Len(l) - 1 : l[i] # l[i + 1]

\* What the list's own operations keep.
Good(j, max) ==
    /\ j \in Jumps
    /\ Len(j.list) <= max /\ j.cur <= Len(j.list)
    /\ (j.cur = 0) <=> (j.list = <<>>)
    /\ Alternating(j.list)

-----------------------------------------------------------------------------

\* A document has a first page.
LEMMA ZeroIsAPage == 0 \in Pages
  BY PagesAssumption DEF Pages

\* Trim keeps the last entries, as many as fit, and a cursor among them.
LEMMA TrimProperties ==
    ASSUME NEW j \in Jumps, j.cur <= Len(j.list), (j.cur = 0) <=> (j.list = <<>>),
           NEW max \in Nat
    PROVE  LET k == Trim(j, max)
               n == Len(j.list)
               m == Len(k.list)
           IN  /\ k \in Jumps /\ k.cur <= m
               /\ (k.cur = 0) <=> (k.list = <<>>)
               /\ m = IF n > max THEN max ELSE n
               /\ \A i \in 1 .. m : k.list[i] = j.list[i + n - m]
<1> DEFINE l    == j.list
           n    == Len(l)
           gone == IF n > max THEN n - max ELSE 0
           kept == SubSeq(l, gone + 1, n)
           at   == IF kept = <<>> THEN 0
                   ELSE IF j.cur <= gone THEN 1
                   ELSE j.cur - gone
<1>1. l \in Seq(Pages) /\ n \in Nat /\ j.cur \in Nat
  BY LenProperties DEF Jumps
<1>2. gone \in 0 .. n /\ n - gone = (IF n > max THEN max ELSE n)
  BY <1>1
<1>3. /\ kept \in Seq(Pages) /\ Len(kept) = n - gone
      /\ \A i \in 1 .. n - gone : kept[i] = l[i + gone]
  <2> HIDE DEF l, gone
  <2>1. \A i \in gone + 1 .. n : l[i] \in Pages
    BY <1>1, <1>2
  <2>2. gone + 1 \in Int /\ n \in Int /\ gone + 1 - 1 <= n
    BY <1>1, <1>2
  <2> QED BY <1>1, <1>2, <2>1, <2>2
<1>4. Trim(j, max) = [list |-> kept, cur |-> at]
  BY DEF Trim
<1>5. kept = <<>> <=> n - gone = 0
  <2> HIDE DEF kept
  <2> QED BY <1>3
<1>6. at \in Nat /\ at <= n - gone /\ (at = 0 <=> kept = <<>>)
  <2> HIDE DEF kept, gone, n
  <2>1. j.cur <= n
    BY DEF n
  <2>2. CASE kept = <<>>
    <3>1. at = 0
      BY <2>2
    <3> HIDE DEF at
    <3> QED BY <1>1, <1>2, <1>5, <2>2, <3>1
  <2>3. CASE kept # <<>> /\ j.cur <= gone
    BY <1>1, <1>2, <1>5, <2>3
  <2>4. CASE kept # <<>> /\ ~(j.cur <= gone)
    BY <1>1, <1>2, <1>5, <2>1, <2>4
  <2> QED BY <2>2, <2>3, <2>4
<1> HIDE DEF kept, at, gone
<1>7. Trim(j, max).list = kept /\ Trim(j, max).cur = at
  BY <1>4
<1>8. Trim(j, max) \in Jumps
  BY <1>3, <1>4, <1>6 DEF Jumps
<1>9. n - (n - gone) = gone
  BY <1>1, <1>2
<1> QED BY <1>2, <1>3, <1>6, <1>7, <1>8, <1>9

\* A smaller size, a load and a growth of the list all trim.
LEMMA TrimIsGood ==
    ASSUME NEW j \in Jumps, j.cur <= Len(j.list), (j.cur = 0) <=> (j.list = <<>>),
           Alternating(j.list), NEW max \in Nat
    PROVE  Good(Trim(j, max), max)
<1> DEFINE k == Trim(j, max)
           n == Len(j.list)
           m == Len(k.list)
<1>1. /\ k \in Jumps /\ k.cur <= m
      /\ (k.cur = 0) <=> (k.list = <<>>)
      /\ m = IF n > max THEN max ELSE n
      /\ \A i \in 1 .. m : k.list[i] = j.list[i + n - m]
  BY TrimProperties
<1>2. n \in Nat /\ m \in Nat
  BY <1>1, LenProperties DEF Jumps
<1>. HIDE DEF k, n, m
<1>3. ASSUME NEW i \in 1 .. m - 1
      PROVE  k.list[i] # k.list[i + 1]
  <2>1. i \in 1 .. m /\ i + 1 \in 1 .. m /\ i + n - m \in 1 .. n - 1
    BY <1>1, <1>2
  <2>2. k.list[i] = j.list[i + n - m] /\ k.list[i + 1] = j.list[i + 1 + n - m]
    BY <1>1, <2>1
  <2>3. i + 1 + n - m = (i + n - m) + 1
    BY <1>2
  <2> QED BY <2>1, <2>2, <2>3 DEF Alternating, n
<1>4. m <= max
  BY <1>1, <1>2
<1> QED BY <1>1, <1>3, <1>4 DEF Good, Alternating, k, m

\* What is saved at the cursor.
LEMMA SaveJumpProperties ==
    ASSUME NEW j \in Jumps, j.cur \in 1 .. Len(j.list), NEW p \in Pages
    PROVE  LET k == SaveJump(j, p)
           IN  /\ k \in Jumps /\ k.cur = j.cur /\ Len(k.list) = Len(j.list)
               /\ k.list[j.cur] = p
               /\ \A i \in 1 .. Len(j.list) : i # j.cur => k.list[i] = j.list[i]
<1> DEFINE l == [j.list EXCEPT ![j.cur] = p]
<1>1. j.list \in Seq(Pages) /\ j.cur \in Nat /\ j.cur # 0
  BY DEF Jumps
<1>2. l \in Seq(Pages) /\ Len(l) = Len(j.list) /\ l[j.cur] = p
  BY <1>1
<1>3. \A i \in 1 .. Len(j.list) : i # j.cur => l[i] = j.list[i]
  BY <1>1
<1> HIDE DEF l
<1>4. SaveJump(j, p) = [list |-> l, cur |-> j.cur]
  BY <1>1 DEF SaveJump, Jumps, l
<1> QED BY <1>1, <1>2, <1>3, <1>4 DEF Jumps

\* zathura_jumplist_add: the list ends with the page and the cursor is there,
\* and where there is room the entry before it is the one that was last.
LEMMA AddJumpProperties ==
    ASSUME NEW max \in Nat, NEW j, Good(j, max), NEW p \in Pages
    PROVE  LET k == AddJump(j, p, max)
               n == Len(j.list)
               m == Len(k.list)
           IN  /\ Good(k, max) /\ k.cur = m
               /\ max > 0 => m > 0 /\ k.list[m] = p
               /\ max > 1 /\ n > 0 /\ j.list[n] # p => m > 1 /\ k.list[m - 1] = j.list[n]
<1> DEFINE end   == ResetCurrent(j)
           l     == j.list
           n     == Len(l)
           new   == [list |-> Append(l, 0), cur |-> IF l = <<>> THEN 1 ELSE end.cur]
           trim  == Trim(new, max)
           reset == ResetCurrent(trim)
           m     == Len(trim.list)
           k     == SaveJump(reset, p)
<1>1. j \in Jumps /\ l \in Seq(Pages) /\ n \in Nat /\ n <= max /\ (n = 0 <=> l = <<>>)
  BY DEF Good, Jumps
<1>2. end \in Jumps /\ end.list = l /\ end.cur = n
  <2>1. CASE j.cur = 0
    BY <1>1, <2>1 DEF Good, ResetCurrent
  <2>2. CASE j.cur # 0
    BY <1>1, <2>2 DEF ResetCurrent, Jumps
  <2> QED BY <2>1, <2>2
<1>3. CASE n # 0 /\ l[n] = p
  <2>1. AddJump(j, p, max) = end
    BY <1>2, <1>3 DEF AddJump
  <2>2. Good(end, max)
    BY <1>1, <1>2 DEF Good
  <2> QED BY <1>1, <1>2, <1>3, <2>1, <2>2
<1>4. CASE ~(n # 0 /\ l[n] = p)
  <2>1. AddJump(j, p, max) = k
    <3>1. AppendJump(end, max) = trim
      BY <1>2 DEF AppendJump
    <3> QED BY <1>2, <1>4, <3>1 DEF AddJump
  <2>2. /\ Append(l, 0) \in Seq(Pages) /\ Len(Append(l, 0)) = n + 1
        /\ \A i \in 1 .. n : Append(l, 0)[i] = l[i]
    BY <1>1, ZeroIsAPage, AppendProperties
  <2>3. /\ new \in Jumps /\ new.list = Append(l, 0)
        /\ new.cur \in 1 .. n + 1 /\ new.list # <<>>
    <3> DEFINE grown == Append(l, 0)
               at    == IF l = <<>> THEN 1 ELSE end.cur
    <3>1. at \in 1 .. n + 1
      <4> HIDE DEF n, end
      <4> QED BY <1>1, <1>2
    <3>2. grown # <<>>
      <4>1. Len(grown) = n + 1
        BY <2>2
      <4> HIDE DEF grown, n
      <4> QED BY <1>1, <4>1
    <3>3. new = [list |-> grown, cur |-> at]
      OBVIOUS
    <3>4. at \in Nat
      <4> HIDE DEF at
      <4> QED BY <1>1, <3>1
    <3> HIDE DEF grown, at, new
    <3>5. new.list = grown /\ new.cur = at /\ new \in Jumps
      BY <2>2, <3>3, <3>4 DEF Jumps, grown
    <3> QED BY <3>1, <3>2, <3>5 DEF grown
  <2>4. /\ trim \in Jumps /\ trim.cur <= m /\ ((trim.cur = 0) <=> (trim.list = <<>>))
        /\ m = IF n + 1 > max THEN max ELSE n + 1
        /\ \A i \in 1 .. m : trim.list[i] = new.list[i + (n + 1) - m]
    <3> HIDE DEF new
    <3>1. Len(new.list) = n + 1 /\ new.cur <= Len(new.list) /\ new.cur # 0
      BY <1>1, <2>2, <2>3
    <3>2. /\ trim \in Jumps /\ trim.cur <= m /\ ((trim.cur = 0) <=> (trim.list = <<>>))
          /\ m = IF Len(new.list) > max THEN max ELSE Len(new.list)
          /\ \A i \in 1 .. m : trim.list[i] = new.list[i + Len(new.list) - m]
      <4>1. new.cur <= Len(new.list) /\ ((new.cur = 0) <=> (new.list = <<>>))
        BY <2>3, <3>1
      <4> QED BY <2>3, <4>1, TrimProperties
    <3> HIDE DEF trim, m, n
    <3> QED BY <3>1, <3>2
  <2> HIDE DEF trim, n
  <2>5. trim.list \in Seq(Pages) /\ trim.cur \in Nat /\ m \in Nat /\ (m = 0 <=> trim.list = <<>>)
    BY <2>4 DEF Jumps
  <2> HIDE DEF m
  <2>6. reset \in Jumps /\ reset.list = trim.list /\ reset.cur = m
    <3>1. CASE trim.cur = 0
      BY <2>4, <2>5, <3>1 DEF ResetCurrent, m
    <3>2. CASE trim.cur # 0
      BY <2>4, <2>5, <3>2 DEF ResetCurrent, Jumps, m
    <3> QED BY <3>1, <3>2
  <2>7. CASE max = 0
    <3>1. m = 0 /\ n = 0
      BY <1>1, <2>4, <2>7
    <3>2. k = reset
      BY <2>6, <3>1 DEF SaveJump
    <3>3. Good(k, max)
      BY <2>5, <2>6, <2>7, <3>1, <3>2 DEF Good, Alternating, m
    <3> QED BY <2>1, <2>6, <2>7, <3>1, <3>2, <3>3 DEF m
  <2>8. CASE max > 0
    <3>1. m \in 1 .. n + 1 /\ m <= max /\ (m = n + 1 \/ m = n)
      BY <1>1, <2>4, <2>5, <2>8
    <3>2. /\ k \in Jumps /\ k.cur = m /\ Len(k.list) = m
          /\ k.list[m] = p
          /\ \A i \in 1 .. m - 1 : k.list[i] = trim.list[i]
      <4> HIDE DEF reset
      <4>0. Len(reset.list) = m
        BY <2>6 DEF m
      <4>1. reset.cur \in 1 .. Len(reset.list)
        BY <1>1, <2>6, <3>1, <4>0
      <4>2. \A i \in 1 .. m - 1 : i \in 1 .. m /\ i # m
        BY <3>1
      <4> QED BY <2>6, <4>0, <4>1, <4>2, SaveJumpProperties
    <3> DEFINE d == n + 1 - m
    <3>3. d \in 0 .. 1 /\ m - 1 + d = n
      BY <1>1, <3>1
    <3>4. \A i \in 1 .. m - 1 : k.list[i] = l[i + d]
      <4>1. TAKE i \in 1 .. m - 1
      <4>2. i \in 1 .. m /\ i + d \in 1 .. n /\ i + (n + 1) - m = i + d
        BY <1>1, <3>1
      <4>3. trim.list[i] = Append(l, 0)[i + d]
        BY <2>3, <2>4, <4>2
      <4> QED BY <2>2, <3>2, <4>2, <4>3
    <3> HIDE DEF d, k
    <3>5. ASSUME NEW i \in 1 .. m - 1
          PROVE  k.list[i] # k.list[i + 1]
      <4>1. i \in Nat /\ m \in Nat /\ n \in Nat
        BY <1>1, <2>5
      <4>2. CASE i = m - 1
        <5>1. i + d = n /\ n # 0 /\ i + 1 = m
          BY <3>1, <3>3, <4>1, <4>2
        <5> QED BY <1>4, <3>2, <3>4, <5>1
      <4>3. CASE i # m - 1
        <5>1. i + 1 \in 1 .. m - 1 /\ i + d \in 1 .. n - 1 /\ (i + 1) + d = (i + d) + 1
          BY <3>1, <3>3, <4>1, <4>3
        <5>2. k.list[i] = l[i + d] /\ k.list[i + 1] = l[(i + d) + 1]
          BY <3>4, <5>1
        <5>3. l[i + d] # l[(i + d) + 1]
          BY <5>1 DEF Good, Alternating, n
        <5> QED BY <5>2, <5>3
      <4> QED BY <4>2, <4>3
    <3>6. k.list # <<>> /\ k.cur # 0
      BY <3>1, <3>2, <2>5
    <3>7. Good(k, max)
      BY <3>1, <3>2, <3>5, <3>6 DEF Good, Alternating
    <3>8. max > 1 /\ n > 0 => m > 1 /\ k.list[m - 1] = l[n]
      <4>1. SUFFICES ASSUME max > 1, n > 0 PROVE m > 1 /\ k.list[m - 1] = l[n]
        OBVIOUS
      <4>2. m > 1 /\ m - 1 \in 1 .. m - 1
        BY <1>1, <2>4, <2>5, <4>1
      <4> QED BY <3>3, <3>4, <4>2
    <3> QED BY <2>1, <2>8, <3>1, <3>2, <3>7, <3>8 DEF k, n
  <2> QED BY <2>7, <2>8
<1> QED BY <1>3, <1>4

-----------------------------------------------------------------------------
(***************************************************************************)
(* The window.                                                             *)
(***************************************************************************)

\* A list that is well formed in the window is one that the operations keep.
LEMMA WindowIsGood ==
    ASSUME WellFormed
    PROVE  /\ Good(JumpList, maxSize) /\ maxSize \in Nat
           /\ JumpList.list = list /\ JumpList.cur = cur
           /\ Alternating(stored) /\ stored \in Seq(Pages)
<1>1. maxSize \in Nat /\ Len(list) \in Nat /\ cur \in Nat
  BY SizesAssumption, LenProperties DEF WellFormed, TypeOK
<1>2. JumpList.list = list /\ JumpList.cur = cur
  BY DEF JumpList
<1>3. JumpList \in Jumps
  BY <1>1 DEF JumpList, Jumps, WellFormed, TypeOK
<1>4. Alternating(list) /\ Alternating(stored)
  BY DEF WellFormed, NoRepeats, Alternating
<1>5. cur <= Len(list) /\ Len(list) <= maxSize
  BY <1>1 DEF WellFormed, TypeOK
<1> HIDE DEF JumpList
<1> QED BY <1>1, <1>2, <1>3, <1>4, <1>5 DEF Good, WellFormed, CursorValid, TypeOK

\* And the other way round.
LEMMA GoodIsWellFormed ==
    ASSUME NEW k, SetJumpList(k), Good(k, maxSize'), maxSize' \in Sizes,
           open' \in BOOLEAN, page' \in Pages,
           bisect' \in [start : UInt, end : UInt, last : UInt],
           stored' \in Seq(Pages), Alternating(stored')
    PROVE  WellFormed'
<1>1. list' = k.list /\ cur' = k.cur /\ k \in Jumps
  BY DEF SetJumpList, Good
<1>2. k.list \in Seq(Pages) /\ k.cur \in Nat /\ Len(k.list) \in Nat
  BY <1>1, LenProperties DEF Jumps
<1>3. TypeOK'
  BY <1>1, <1>2 DEF TypeOK, Good
<1>4. CursorValid'
  BY <1>1 DEF CursorValid, Good
<1>5. NoRepeats'
  BY <1>1 DEF NoRepeats, Alternating, Good
<1> QED BY <1>3, <1>4, <1>5 DEF WellFormed

\* A jump: the place left, then the place reached.
LEMMA JumpProperties ==
    ASSUME WellFormed, NEW t, JumpFromTo(t)
    PROVE  LET left == AddJump(JumpList, page, maxSize)
               k    == AddJump(left, page', maxSize)
           IN  /\ SetJumpList(k) /\ Good(k, maxSize) /\ k.cur = Len(k.list)
               /\ page' \in Pages /\ stored' \in Seq(Pages) /\ Alternating(stored')
               /\ maxSize > 1 /\ page' # page =>
                    /\ Len(k.list) > 1 /\ k.list[Len(k.list)] = page'
                    /\ k.list[Len(k.list) - 1] = page
               /\ Continuous /\ page' # page /\ maxSize > 0 =>
                    stored' # <<>> /\ stored'[Len(stored')] = page
<1> DEFINE left == AddJump(JumpList, page, maxSize)
           k    == AddJump(left, page', maxSize)
<1>1. Good(JumpList, maxSize) /\ maxSize \in Nat /\ Alternating(stored) /\ stored \in Seq(Pages)
  BY WindowIsGood
<1>2. page \in Pages /\ page' \in Pages
  BY DEF WellFormed, TypeOK, JumpFromTo, PageSetTo
<1>3. /\ Good(left, maxSize) /\ left.cur = Len(left.list)
      /\ maxSize > 0 => Len(left.list) > 0 /\ left.list[Len(left.list)] = page
  BY <1>1, <1>2, AddJumpProperties
<1> HIDE DEF left
<1>4. /\ Good(k, maxSize) /\ k.cur = Len(k.list)
      /\ maxSize > 0 => Len(k.list) > 0 /\ k.list[Len(k.list)] = page'
      /\ maxSize > 1 /\ Len(left.list) > 0 /\ left.list[Len(left.list)] # page' =>
           Len(k.list) > 1 /\ k.list[Len(k.list) - 1] = left.list[Len(left.list)]
  BY <1>1, <1>2, <1>3, AddJumpProperties
<1> HIDE DEF k
<1>5. SetJumpList(k) /\ PageSetTo(t, left.list)
  BY DEF JumpFromTo, left, k
<1>6. left.list \in Seq(Pages) /\ Alternating(left.list)
  BY <1>3 DEF Good, Jumps
<1>7. stored' \in Seq(Pages) /\ Alternating(stored')
  BY <1>1, <1>5, <1>6 DEF PageSetTo
<1>8. Continuous /\ page' # page => stored' = left.list
  BY <1>5 DEF PageSetTo
<1>9. left.list = <<>> => Len(left.list) = 0
  OBVIOUS
<1>10. maxSize > 1 => maxSize > 0
  BY <1>1
<1> QED BY <1>2, <1>3, <1>4, <1>5, <1>7, <1>8, <1>9, <1>10 DEF k, left

\* A jump by position makes the same two entries and writes nothing.
LEMMA FollowProperties ==
    ASSUME WellFormed, NEW p \in Pages, FollowTo(p)
    PROVE  LET k == AddJump(AddJump(JumpList, page, maxSize), p, maxSize)
           IN  /\ SetJumpList(k) /\ Good(k, maxSize) /\ k.cur = Len(k.list)
               /\ maxSize > 1 /\ p # page =>
                    /\ Len(k.list) > 1 /\ k.list[Len(k.list)] = p
                    /\ k.list[Len(k.list) - 1] = page
<1> DEFINE left == AddJump(JumpList, page, maxSize)
           k    == AddJump(left, p, maxSize)
<1>1. Good(JumpList, maxSize) /\ maxSize \in Nat /\ page \in Pages
  BY WindowIsGood DEF WellFormed, TypeOK
<1>2. SetJumpList(k)
  BY DEF FollowTo
<1>3. /\ Good(left, maxSize) /\ left.cur = Len(left.list)
      /\ maxSize > 0 => Len(left.list) > 0 /\ left.list[Len(left.list)] = page
  BY <1>1, AddJumpProperties
<1> HIDE DEF left
<1>4. /\ Good(k, maxSize) /\ k.cur = Len(k.list)
      /\ maxSize > 0 => Len(k.list) > 0 /\ k.list[Len(k.list)] = p
      /\ maxSize > 1 /\ Len(left.list) > 0 /\ left.list[Len(left.list)] # p =>
           Len(k.list) > 1 /\ k.list[Len(k.list) - 1] = left.list[Len(left.list)]
  BY <1>1, <1>3, AddJumpProperties
<1> HIDE DEF k
<1>5. maxSize > 1 => maxSize > 0
  BY <1>1
<1> QED BY <1>2, <1>3, <1>4, <1>5 DEF k, left

\* Halving a range of unsigned numbers gives one.
LEMMA HalfwayIsUInt ==
    ASSUME page \in Pages, NEW d, NEW r \in [start : UInt, end : UInt, last : UInt]
    PROVE  Halfway(d, r) \in UInt
<1>1. NumPages \in Nat /\ UIntRange \in Nat /\ NumPages < UIntRange
  BY PagesAssumption, UIntAssumption
<1>2. \A p \in Pages, e \in UInt : (p + e) \div 2 \in UInt
  BY <1>1 DEF Pages, UInt
<1>3. \A p \in Pages : p \in UInt /\ p + 1 \in UInt
  BY <1>1 DEF Pages, UInt
<1>4. \A h \in Int : h % UIntRange \in UInt
  BY <1>1 DEF UInt
<1>5. r.start \in UInt /\ r.end \in UInt
  OBVIOUS
<1>6. page - 1 \in Int
  BY <1>1 DEF Pages
<1> QED BY <1>2, <1>3, <1>4, <1>5, <1>6 DEF Halfway

\* The range of a bisection is one of unsigned numbers.
LEMMA RangeIsUInt ==
    ASSUME WellFormed, NEW d, NEW t \in Nat
    PROVE  BisectRange(d, t) \in [start : UInt, end : UInt, last : UInt]
<1>1. NumPages \in Nat \ {0} /\ UIntRange \in Nat /\ NumPages < UIntRange
  BY PagesAssumption, UIntAssumption
<1>2. \A p, q, e \in UInt : Spanning(p, q, e) \in [start : UInt, end : UInt, last : UInt]
  BY DEF Spanning
<1>3. page \in UInt /\ 0 \in UInt /\ NumPages - 1 \in UInt /\ bisect.last \in UInt
  BY <1>1 DEF WellFormed, TypeOK, Pages, UInt
<1>4. t \in 1 .. NumPages => t - 1 \in UInt
  BY <1>1 DEF UInt
<1>5. PreviousJump(d) \in UInt
  <2>1. cur > 1 => list[cur - 1] \in Pages
    <3>1. cur \in Nat /\ Len(list) \in Nat /\ cur <= Len(list) /\ list \in Seq(Pages)
      BY LenProperties DEF WellFormed, TypeOK
    <3>2. cur > 1 => cur - 1 \in 1 .. Len(list)
      BY <3>1
    <3> QED BY <3>1, <3>2
  <2>2. Pages \subseteq UInt
    BY <1>1 DEF Pages, UInt
  <2> QED BY <1>3, <2>1, <2>2 DEF PreviousJump
<1>6. bisect \in [start : UInt, end : UInt, last : UInt]
  BY DEF WellFormed, TypeOK
<1> QED BY <1>2, <1>3, <1>4, <1>5, <1>6 DEF BisectRange

\* Where sc_jumplist stops is an entry.
LEMMA WalkIsGood ==
    ASSUME NEW j, NEW max \in Nat, Good(j, max), j.list # <<>>, NEW n \in Nat,
           NEW k \in {Forward(j, n), Backward(j, n)}
    PROVE  Good(k, max) /\ k.list = j.list /\ k.cur \in 1 .. Len(k.list)
<1> DEFINE m == Len(j.list)
<1>1. j \in Jumps /\ m \in Nat \ {0} /\ j.cur \in 1 .. m /\ m <= max
  <2>1. j \in Jumps /\ m \in Nat /\ j.cur \in Nat /\ j.cur <= m /\ j.cur # 0 /\ m <= max
    BY LenProperties DEF Good, Jumps
  <2> QED BY <2>1
<1> DEFINE f == IF j.cur + n > m THEN m ELSE j.cur + n
           b == IF j.cur - n < 1 THEN 1 ELSE j.cur - n
<1>2. f \in 1 .. m /\ b \in 1 .. m
  <2> HIDE DEF m
  <2> QED BY <1>1
<1>3. Forward(j, n) = [j EXCEPT !.cur = f] /\ Backward(j, n) = [j EXCEPT !.cur = b]
  BY <1>1 DEF Forward, Backward, Jumps
<1> HIDE DEF f, b
<1>4. k = [j EXCEPT !.cur = f] \/ k = [j EXCEPT !.cur = b]
  BY <1>3
<1>5. k \in Jumps /\ k.list = j.list /\ k.cur \in 1 .. m
  BY <1>1, <1>2, <1>4 DEF Jumps
<1> QED BY <1>1, <1>5 DEF Good

\* Nothing is in the list at first.
LEMMA WellFormedInit == Init => WellFormed
<1> SUFFICES ASSUME Init
             PROVE  WellFormed
  OBVIOUS
<1>1. maxSize \in Nat /\ 0 \in Pages /\ 0 \in UInt
  BY SizesAssumption, ZeroIsAPage, PagesAssumption, UIntAssumption DEF Init, UInt
<1>2. list \in Seq(Pages) /\ stored \in Seq(Pages) /\ Len(list) = 0 /\ Len(stored) = 0
  BY DEF Init
<1>3. list = <<>> /\ stored = <<>> /\ cur = 0
  BY DEF Init
<1>4. TypeOK
  <2>1. bisect \in [start : UInt, end : UInt, last : UInt]
    BY <1>1 DEF Init
  <2>2. maxSize \in Sizes /\ open \in BOOLEAN /\ page \in Pages
    BY <1>1 DEF Init
  <2>3. Len(list) <= maxSize
    BY <1>1, <1>2
  <2>4. cur \in 0 .. Len(list)
    BY <1>2, <1>3
  <2> QED BY <1>2, <2>1, <2>2, <2>3, <2>4 DEF TypeOK
<1> QED BY <1>2, <1>3, <1>4 DEF WellFormed, CursorValid, NoRepeats

\* Every operation keeps the list well formed.
LEMMA WellFormedNext == WellFormed /\ [Next]_vars => WellFormed'
<1> SUFFICES ASSUME WellFormed, [Next]_vars
             PROVE  WellFormed'
  OBVIOUS
<1>1. /\ Good(JumpList, maxSize) /\ maxSize \in Nat /\ maxSize \in Sizes
      /\ JumpList.list = list /\ JumpList.cur = cur
      /\ Alternating(stored) /\ stored \in Seq(Pages)
  BY WindowIsGood DEF WellFormed, TypeOK
<1>2. /\ open \in BOOLEAN /\ page \in Pages
      /\ bisect \in [start : UInt, end : UInt, last : UInt]
  BY DEF WellFormed, TypeOK
<1>3. \A m \in Sizes : m \in Nat
  BY SizesAssumption
<1>4. Alternating(list) /\ list \in Seq(Pages) /\ Len(list) \in Nat
  BY <1>1 DEF Good, Jumps
<1>5. Pages \subseteq UInt /\ NumPages - 1 \in UInt /\ 0 \in UInt
  BY PagesAssumption, UIntAssumption DEF Pages, UInt
<1>6. /\ [list |-> <<>>, cur |-> 0] \in Jumps
      /\ \A max \in Nat : Good([list |-> <<>>, cur |-> 0], max)
  <2>1. [list |-> <<>>, cur |-> 0].list = <<>> /\ [list |-> <<>>, cur |-> 0].cur = 0
    OBVIOUS
  <2>2. [list |-> <<>>, cur |-> 0] \in Jumps
    BY DEF Jumps
  <2> QED BY <2>1, <2>2 DEF Good, Alternating
<1>7. ASSUME NEW p \in Pages, Open(p)
      PROVE  WellFormed'
  <2> DEFINE j == [list |-> stored, cur |-> Len(stored)]
  <2>1. /\ j \in Jumps /\ j.list = stored /\ j.cur = Len(stored)
        /\ ((j.cur = 0) <=> (j.list = <<>>))
    BY <1>1 DEF Jumps
  <2>2. Len(stored) <= Len(stored)
    BY <1>1
  <2> HIDE DEF j
  <2>3. Good(Trim(j, maxSize), maxSize)
    BY <1>1, <2>1, <2>2, TrimIsGood
  <2>4. SetJumpList(Trim(j, maxSize)) /\ UNCHANGED <<maxSize, stored>>
    BY <1>7 DEF Open, j
  <2>5. open' \in BOOLEAN /\ page' \in Pages /\ bisect' \in [start : UInt, end : UInt, last : UInt]
    BY <1>5, <1>7 DEF Open
  <2> QED BY <1>1, <2>3, <2>4, <2>5, GoodIsWellFormed
<1>8. CASE Close \/ Crash
  <2> DEFINE k == [list |-> <<>>, cur |-> 0]
  <2>1. SetJumpList(k) /\ maxSize' \in Sizes /\ open' \in BOOLEAN /\ UNCHANGED <<page, bisect>>
    BY <1>1, <1>8 DEF Close, Crash, SetJumpList
  <2>2. stored' \in Seq(Pages) /\ Alternating(stored')
    BY <1>1, <1>4, <1>8 DEF Close, Crash
  <2>3. Good(k, maxSize')
    BY <1>3, <1>6, <2>1
  <2> HIDE DEF k
  <2> QED BY <1>2, <2>1, <2>2, <2>3, GoodIsWellFormed
<1>9. ASSUME NEW p \in Pages, Scroll(p)
      PROVE  WellFormed'
  <2>1. SetJumpList(JumpList) /\ UNCHANGED <<maxSize, open, bisect, stored>> /\ page' \in Pages
    BY <1>1, <1>9 DEF Scroll, SetJumpList
  <2> QED BY <1>1, <1>2, <2>1, GoodIsWellFormed
<1>10. ASSUME NEW t, JumpFromTo(t), maxSize' = maxSize, open' = open,
              bisect' \in [start : UInt, end : UInt, last : UInt]
       PROVE  WellFormed'
  BY <1>1, <1>2, <1>10, JumpProperties, GoodIsWellFormed
<1>11. ASSUME NEW t, JumpTo(t)
       PROVE  WellFormed'
  BY <1>2, <1>10, <1>11 DEF JumpTo
<1>17. ASSUME NEW p \in Pages, FollowTo(p)
       PROVE  WellFormed'
  <2> DEFINE k == AddJump(AddJump(JumpList, page, maxSize), p, maxSize)
  <2>1. SetJumpList(k) /\ Good(k, maxSize)
    BY <1>17, FollowProperties
  <2>2. page' = p /\ UNCHANGED <<maxSize, open, bisect, stored>>
    BY <1>17 DEF FollowTo
  <2> HIDE DEF k
  <2> QED BY <1>1, <1>2, <2>1, <2>2, GoodIsWellFormed
<1>18. ASSUME NEW p \in Pages, TurnTo(p)
       PROVE  WellFormed'
  <2>1. SetJumpList(JumpList) /\ UNCHANGED <<maxSize, open, bisect>>
    BY <1>1, <1>18 DEF TurnTo, SetJumpList
  <2>2. page' \in Pages /\ stored' \in Seq(Pages) /\ Alternating(stored')
    BY <1>1, <1>2, <1>4, <1>18 DEF TurnTo, PageSetTo
  <2> QED BY <1>1, <1>2, <2>1, <2>2, GoodIsWellFormed
<1>12. CASE RememberPlace
  <2> DEFINE k == AddJump(JumpList, page, maxSize)
  <2>1. Good(k, maxSize)
    BY <1>1, <1>2, AddJumpProperties
  <2>2. SetJumpList(k) /\ UNCHANGED <<maxSize, open, page, bisect, stored>>
    BY <1>12 DEF RememberPlace
  <2> HIDE DEF k
  <2> QED BY <1>1, <1>2, <2>1, <2>2, GoodIsWellFormed
<1>13. ASSUME NEW d \in Directions, NEW n \in 1 .. 2, Walk(d, n)
       PROVE  WellFormed'
  <2> DEFINE k == IF d = "forward" THEN Forward(JumpList, n) ELSE Backward(JumpList, n)
  <2>1. /\ JumpList.list # <<>> /\ k \in {Forward(JumpList, n), Backward(JumpList, n)}
        /\ n \in Nat
    BY <1>1, <1>13 DEF Walk
  <2>2. Good(k, maxSize) /\ k.list = list /\ k.cur \in 1 .. Len(k.list)
    BY <1>1, <2>1, WalkIsGood
  <2>3. /\ SetJumpList(k) /\ UNCHANGED <<maxSize, open, bisect>>
        /\ IF k.cur = cur THEN UNCHANGED <<page, stored>> ELSE PageSetTo(k.list[k.cur], k.list)
    BY <1>13 DEF Walk
  <2> HIDE DEF k
  <2>4. page' \in Pages /\ stored' \in Seq(Pages) /\ Alternating(stored')
    BY <1>1, <1>2, <1>4, <2>2, <2>3 DEF PageSetTo
  <2> QED BY <1>1, <1>2, <2>2, <2>3, <2>4, GoodIsWellFormed
<1>14. ASSUME NEW d \in Directions, NEW t \in Counts, Bisect(d, t)
       PROVE  WellFormed'
  <2> DEFINE r    == BisectRange(d, t)
             way  == BisectDirection(d, t)
             next == IF t - 1 = page THEN page ELSE Halfway(way, r)
  <2>1. r \in [start : UInt, end : UInt, last : UInt]
    BY RangeIsUInt, PrefixAssumption
  <2>2. next \in UInt
    BY <1>2, <1>5, <2>1, HalfwayIsUInt
  <2>3. CASE r.start = r.end \/ next = page
    <3>1. bisect' = r /\ UNCHANGED <<list, cur, page, stored, maxSize, open>>
      BY <1>14, <2>3 DEF Bisect
    <3>2. SetJumpList(JumpList)
      BY <1>1, <3>1 DEF SetJumpList
    <3> HIDE DEF r
    <3> QED BY <1>1, <1>2, <2>1, <3>1, <3>2, GoodIsWellFormed
  <2>4. CASE ~(r.start = r.end \/ next = page)
    <3>1. /\ JumpFromTo(next) /\ UNCHANGED <<maxSize, open>>
          /\ bisect' = [start |-> IF way = "forward" THEN page ELSE r.start,
                        end   |-> IF way = "backward" THEN page ELSE r.end,
                        last  |-> next]
      BY <1>14, <2>4 DEF Bisect
    <3> HIDE DEF r, way, next
    <3>2. bisect' \in [start : UInt, end : UInt, last : UInt]
      BY <1>2, <1>5, <2>1, <2>2, <3>1
    <3> QED BY <1>10, <3>1, <3>2
  <2> QED BY <2>3, <2>4
<1>15. ASSUME NEW m \in Sizes, SetMaxSize(m)
       PROVE  WellFormed'
  <2> DEFINE k == IF list = <<>> THEN JumpList ELSE Trim(JumpList, m)
  <2>1. SetJumpList(k) /\ maxSize' = m /\ m \in Nat /\ UNCHANGED <<open, page, bisect, stored>>
    BY <1>3, <1>15 DEF SetMaxSize
  <2>2. Good(k, m)
    <3>1. CASE list = <<>>
      BY <1>1, <2>1, <3>1 DEF Good
    <3>2. CASE list # <<>>
      <4>1. Good(Trim(JumpList, m), m)
        BY <1>1, <2>1, TrimIsGood DEF Good
      <4> QED BY <3>2, <4>1
    <3> QED BY <3>1, <3>2
  <2> HIDE DEF k
  <2> QED BY <1>1, <1>2, <2>1, <2>2, GoodIsWellFormed
<1>16. CASE UNCHANGED vars
  <2>1. SetJumpList(JumpList)
    BY <1>1, <1>16 DEF vars, SetJumpList
  <2> QED BY <1>1, <1>2, <1>16, <2>1, GoodIsWellFormed DEF vars
<1> QED BY <1>7, <1>8, <1>9, <1>11, <1>12, <1>13, <1>14, <1>15, <1>16, <1>17, <1>18 DEF Next

-----------------------------------------------------------------------------
(***************************************************************************)
(* The range that is bisected, as long as no numeric prefix sets it: with  *)
(* one, sc_bisect may leave last_jump where it was, outside the range.     *)
(***************************************************************************)
NoPrefix == Counts \cap 1 .. NumPages = {}

\* A range that can be taken up again where its last jump was.
Bisectable(r) == r.start <= r.last /\ r.last <= r.end /\ r.end < NumPages

\* What the comment in sc_bisect says of the range and the page.
LEMMA RangeAroundPage ==
    ASSUME WellFormed, Bisectable(bisect), NEW d, NEW t \in Nat, t \notin 1 .. NumPages
    PROVE  LET r == BisectRange(d, t)
           IN  r.start <= page /\ page <= r.end /\ Bisectable(r)
<1>1. /\ NumPages \in Nat \ {0} /\ page \in Pages /\ Pages = 0 .. NumPages - 1
      /\ bisect.start \in Nat /\ bisect.end \in Nat /\ bisect.last \in Nat
  BY PagesAssumption, UIntAssumption DEF WellFormed, TypeOK, Pages, UInt
<1>2. CASE cur = 0
  <2>1. BisectRange(d, t) = [start |-> 0, end |-> NumPages - 1, last |-> bisect.last]
    <3>1. Spanning(0, NumPages - 1, bisect.last)
            = [start |-> 0, end |-> NumPages - 1, last |-> bisect.last]
      BY <1>1 DEF Spanning
    <3> QED BY <1>2, <3>1 DEF BisectRange, BisectIsCurrent
  <2>2. bisect.last \in 0 .. NumPages - 1
    BY <1>1 DEF Bisectable
  <2> QED BY <1>1, <2>1, <2>2 DEF Bisectable
<1>3. CASE cur # 0 /\ BisectIsCurrent
  <2>1. BisectRange(d, t) = bisect /\ page = bisect.last
    BY <1>3 DEF BisectRange, BisectIsCurrent
  <2> QED BY <1>1, <2>1 DEF Bisectable
<1>4. CASE cur # 0 /\ ~BisectIsCurrent
  <2> DEFINE q == PreviousJump(d)
  <2>1. q \in Pages
    <3>1. cur > 1 => list[cur - 1] \in Pages
      <4>1. cur \in Nat /\ Len(list) \in Nat /\ cur <= Len(list) /\ list \in Seq(Pages)
        BY LenProperties DEF WellFormed, TypeOK
      <4>2. cur > 1 => cur - 1 \in 1 .. Len(list)
        BY <4>1
      <4> QED BY <4>1, <4>2
    <3> QED BY <1>1, <3>1 DEF PreviousJump
  <2>2. BisectRange(d, t) = Spanning(q, page, page)
    BY <1>4 DEF BisectRange
  <2> HIDE DEF q
  <2>3. Spanning(q, page, page) = [start |-> IF q < page THEN q ELSE page,
                                   end |-> IF q < page THEN page ELSE q, last |-> page]
    BY DEF Spanning
  <2> QED BY <1>1, <2>1, <2>2, <2>3 DEF Bisectable
<1> QED BY <1>2, <1>3, <1>4

\* Where a bisection goes stays on its side of the page, within the range.
LEMMA HalfwayBetween ==
    ASSUME page \in Pages, NEW d \in Directions, NEW r \in [start : UInt, end : UInt, last : UInt],
           r.start <= page, page <= r.end, Halfway(d, r) # page
    PROVE  /\ d = "forward" => page <= Halfway(d, r) /\ Halfway(d, r) <= r.end
           /\ d = "backward" => r.start <= Halfway(d, r) /\ Halfway(d, r) <= page
<1>1. page \in Nat /\ r.start \in Nat /\ r.end \in Nat
  BY PagesAssumption, UIntAssumption DEF Pages, UInt
<1>2. CASE d = "forward"
  <2>1. page # r.end
    BY <1>2 DEF Halfway
  <2> DEFINE h == (page + r.end) \div 2
  <2>2. Halfway(d, r) = IF h = page THEN h + 1 ELSE h
    BY <1>2, <2>1 DEF Halfway
  <2>3. \A p, e \in Nat : p < e => p <= (p + e) \div 2 /\ (p + e) \div 2 < e
    OBVIOUS
  <2>4. page <= h /\ h < r.end /\ h \in Int
    BY <1>1, <2>1, <2>3
  <2> HIDE DEF h
  <2> QED BY <1>1, <1>2, <2>2, <2>4
<1>3. CASE d = "backward"
  <2>1. page # r.start
    BY <1>3 DEF Halfway
  <2> DEFINE h == (page + r.start) \div 2
  <2>2. \A p, e \in Nat : e < p => e <= (p + e) \div 2 /\ (p + e) \div 2 < p
    OBVIOUS
  <2>3. r.start <= h /\ h < page /\ h \in Int
    BY <1>1, <2>1, <2>2
  <2>4. Halfway(d, r) = IF h = page THEN (h - 1) % UIntRange ELSE h
    BY <1>3, <2>1 DEF Halfway
  <2> HIDE DEF h
  <2> QED BY <1>1, <1>3, <2>3, <2>4
<1> QED BY <1>2, <1>3 DEF Directions

\* Every step keeps the three numbers of a bisection in order.
LEMMA BisectableNext ==
    ASSUME NoPrefix, WellFormed, Bisectable(bisect), [Next]_vars
    PROVE  Bisectable(bisect')
<1>1. NumPages \in Nat \ {0} /\ Pages = 0 .. NumPages - 1 /\ page \in Pages
  BY PagesAssumption DEF Pages, WellFormed, TypeOK
<1>2. ASSUME NEW p \in Pages, Open(p)
      PROVE  Bisectable(bisect')
  <2>1. bisect' = [start |-> 0, end |-> NumPages - 1, last |-> p]
    BY <1>2 DEF Open
  <2> QED BY <1>1, <2>1 DEF Bisectable
<1>3. ASSUME NEW d \in Directions, NEW t \in Counts, Bisect(d, t)
      PROVE  Bisectable(bisect')
  <2> DEFINE r    == BisectRange(d, t)
             next == IF t - 1 = page THEN page ELSE Halfway(d, r)
  <2>1. t \in Nat /\ t \notin 1 .. NumPages
    BY PrefixAssumption DEF NoPrefix
  <2>2. r \in [start : UInt, end : UInt, last : UInt]
    BY <2>1, RangeIsUInt
  <2>3. r.start <= page /\ page <= r.end /\ Bisectable(r)
    BY <2>1, RangeAroundPage
  <2>4. BisectDirection(d, t) = d
    BY <2>1 DEF BisectDirection
  <2>5. CASE r.start = r.end \/ next = page
    <3>1. bisect' = r
      BY <1>3, <2>4, <2>5 DEF Bisect
    <3> QED BY <2>3, <3>1
  <2>6. CASE ~(r.start = r.end \/ next = page)
    <3>1. bisect' = [start |-> IF d = "forward" THEN page ELSE r.start,
                     end   |-> IF d = "backward" THEN page ELSE r.end,
                     last  |-> next]
      BY <1>3, <2>4, <2>6 DEF Bisect
    <3>2. next = Halfway(d, r) /\ next # page
      BY <2>6
    <3> HIDE DEF r, next
    <3>3. /\ d = "forward" => page <= next /\ next <= r.end
          /\ d = "backward" => r.start <= next /\ next <= page
      BY <1>1, <2>2, <2>3, <3>2, HalfwayBetween
    <3>4. d \in {"forward", "backward"} /\ r.start \in Int /\ r.end \in Int
      BY <2>2, UIntAssumption DEF Directions, UInt
    <3> QED BY <1>1, <2>3, <3>1, <3>3, <3>4 DEF Bisectable
  <2> QED BY <2>5, <2>6
<1>4. CASE \/ \E p \in Pages : Scroll(p) \/ TurnTo(p) \/ FollowTo(p)
           \/ \E t \in 0 .. NumPages : JumpTo(t)
           \/ \E d \in Directions, n \in 1 .. 2 : Walk(d, n)
           \/ \E m \in Sizes : SetMaxSize(m)
           \/ RememberPlace \/ Close \/ Crash \/ UNCHANGED vars
  <2>1. bisect' = bisect
    BY <1>4 DEF Scroll, TurnTo, FollowTo, JumpTo, Walk, SetMaxSize, RememberPlace, Close, Crash, vars
  <2> QED BY <2>1
<1> QED BY <1>2, <1>3, <1>4 DEF Next

-----------------------------------------------------------------------------
(***************************************************************************)
(* Theorems.                                                               *)
(***************************************************************************)

\* Whatever trims the list, the cursor is an entry of it, which sc_jumplist
\* dereferences unchecked, the size is kept and no place is there twice running.
THEOREM ListWellFormed == Spec => []WellFormed
BY WellFormedInit, WellFormedNext, PTL DEF Spec

\* One step backward after a jump is the place it left, one more forward the
\* place it went to.
THEOREM WayBack == Spec => LeavesAWayBack
<1>1. WellFormed /\ [Next]_vars =>
        [\A t \in Pages :
           (JumpTo(t) \/ FollowTo(t)) /\ t # page /\ maxSize >= 2
             => /\ cur' = Len(list') /\ cur' >= 2
                /\ list'[cur' - 1] = page /\ list'[cur'] = t]_vars
  <2>1. SUFFICES ASSUME WellFormed, NEW t \in Pages, JumpTo(t) \/ FollowTo(t),
                        t # page, maxSize >= 2
                 PROVE  /\ cur' = Len(list') /\ cur' >= 2
                        /\ list'[cur' - 1] = page /\ list'[cur'] = t
    OBVIOUS
  <2>2. maxSize \in Nat /\ maxSize > 1
    BY <2>1, WindowIsGood
  <2> DEFINE k == AddJump(AddJump(JumpList, page, maxSize), t, maxSize)
  <2>3. /\ SetJumpList(k) /\ k.cur = Len(k.list) /\ Len(k.list) > 1
        /\ k.list[Len(k.list)] = t /\ k.list[Len(k.list) - 1] = page
        /\ k \in Jumps
    <3>1. CASE JumpTo(t)
      <4>1. JumpFromTo(t) /\ page' = t
        BY <3>1 DEF JumpTo, JumpFromTo, PageSetTo
      <4> QED BY <2>1, <2>2, <4>1, JumpProperties DEF Good
    <3>2. CASE FollowTo(t)
      BY <2>1, <2>2, <3>2, FollowProperties DEF Good
    <3> QED BY <2>1, <3>1, <3>2
  <2> HIDE DEF k
  <2>4. list' = k.list /\ cur' = Len(k.list) /\ Len(k.list) \in Nat
    BY <2>3, LenProperties DEF SetJumpList, Jumps
  <2> QED BY <2>3, <2>4
<1> QED BY <1>1, ListWellFormed, PTL DEF Spec, LeavesAWayBack

\* With "continuous-hist-save" the place left by a jump or a bisection that sets
\* the page is in the database when it is over: a crash after it does not lose it.
THEOREM DepartureIsSaved == Spec => DepartureSaved
<1>1. WellFormed /\ [Next]_vars =>
        [\A t \in Pages, d \in Directions, c \in Counts :
           (JumpTo(t) \/ Bisect(d, c)) /\ Continuous /\ page' # page /\ maxSize > 0
             => stored' # <<>> /\ stored'[Len(stored')] = page]_vars
  <2>1. SUFFICES ASSUME WellFormed, Continuous, page' # page, maxSize > 0,
                        NEW t \in Pages, NEW d \in Directions, NEW c \in Counts,
                        JumpTo(t) \/ Bisect(d, c)
                 PROVE  stored' # <<>> /\ stored'[Len(stored')] = page
    OBVIOUS
  <2>2. Bisect(d, c) => \E u : JumpFromTo(u)
    BY <2>1 DEF Bisect
  <2>3. PICK u : JumpFromTo(u)
    BY <2>1, <2>2 DEF JumpTo
  <2> QED BY <2>1, <2>3, JumpProperties
<1> QED BY <1>1, ListWellFormed, PTL DEF Spec, DepartureSaved

\* Without a numeric prefix the page is within the range that sc_bisect halves, however
\* the reader walked, scrolled and jumped since: the comment there, next_start <=
\* next_page <= next_end, and no page below 0 is asked for.
THEOREM BisectionInRange ==
    ASSUME NoPrefix
    PROVE  Spec => []BisectBounds
<1>1. Init => Bisectable(bisect)
  BY PagesAssumption DEF Init, Bisectable
<1>2. WellFormed /\ Bisectable(bisect) /\ [Next]_vars => Bisectable(bisect)'
  BY BisectableNext
<1>3. WellFormed /\ Bisectable(bisect) => BisectBounds
  <2> SUFFICES ASSUME WellFormed, Bisectable(bisect), NEW d \in Directions, NEW t \in Counts
               PROVE  LET r == BisectRange(d, t)
                      IN  r.start <= page /\ page <= r.end
    BY DEF BisectBounds
  <2>1. t \in Nat /\ t \notin 1 .. NumPages
    BY PrefixAssumption DEF NoPrefix
  <2> QED BY <2>1, RangeAroundPage
<1> QED BY <1>1, <1>2, <1>3, ListWellFormed, PTL DEF Spec

-----------------------------------------------------------------------------
(***************************************************************************)
(* The greatest common divisor, which lowest terms are made with.          *)
(***************************************************************************)

\* A set of numbers that is not empty has a least one.
LEMMA LeastNumber ==
    ASSUME NEW S \in SUBSET Nat, S # {}
    PROVE  \E m \in S : \A k \in S : m <= k
<1>1. \E m \in S : \A k \in S : ~(<<k, m>> \in OpToRel(<, Nat))
  BY WFMin, NatLessThanWellFounded, Zenon
<1>2. \A m, k \in S : <<k, m>> \in OpToRel(<, Nat) <=> k < m
  BY DEF OpToRel
<1>3. \E m \in S : \A k \in S : ~(k < m)
  BY <1>1, <1>2, Zenon
<1> QED BY <1>3

\* g is a divisor of a.
Divides(g, a) == \E q \in Nat : a = g * q

\* What divides two numbers divides a sum of multiples of them.
LEMMA DividesSum ==
    ASSUME NEW g \in Nat, NEW a \in Nat, NEW b \in Nat, NEW k \in Nat,
           Divides(g, a), Divides(g, b)
    PROVE  Divides(g, a * k + b)
<1>1. PICK p \in Nat : a = g * p
  BY DEF Divides
<1>2. PICK q \in Nat : b = g * q
  BY DEF Divides
<1>3. p * k + q \in Nat
  OBVIOUS
<1>4. a * k + b = g * (p * k + q)
  BY <1>1, <1>2
<1> QED BY <1>3, <1>4 DEF Divides

\* What divides a sum and one of its parts divides the other.
LEMMA DividesRest ==
    ASSUME NEW g \in Nat, NEW a \in Nat, NEW b \in Nat, NEW k \in Nat,
           Divides(g, a), Divides(g, a * k + b)
    PROVE  Divides(g, b)
<1>1. PICK p \in Nat : a = g * p
  BY DEF Divides
<1>2. PICK q \in Nat : a * k + b = g * q
  BY DEF Divides
<1>3. b = g * (q - p * k)
  BY <1>1, <1>2
<1>4. CASE g = 0
  BY <1>1, <1>2, <1>4 DEF Divides
<1>5. CASE g # 0
  <2>1. q - p * k \in Int /\ g > 0 /\ b >= 0
    BY <1>5
  <2>2. q - p * k \in Nat
    BY <1>3, <2>1
  <2> QED BY <1>3, <2>1, <2>2 DEF Divides
<1> QED BY <1>4, <1>5

\* Numbers that divide each other are equal.
LEMMA DividesEachOther ==
    ASSUME NEW g \in Nat, NEW a \in Nat, Divides(g, a), Divides(a, g)
    PROVE  g = a
<1>1. PICK p \in Nat : a = g * p
  BY DEF Divides
<1>2. PICK q \in Nat : g = a * q
  BY DEF Divides
<1>3. CASE g = 0 \/ a = 0
  BY <1>1, <1>2, <1>3
<1>4. CASE g > 0 /\ a > 0
  <2>1. p > 0 /\ q > 0
    BY <1>1, <1>2, <1>4
  <2>2. g * p >= g /\ a * q >= a
    BY <1>4, <2>1
  <2> QED BY <1>1, <1>2, <2>2
<1> QED BY <1>3, <1>4

\* Division with a rest, from a number.
LEMMA Quotient ==
    ASSUME NEW a \in Nat, NEW b \in Nat, b # 0
    PROVE  /\ a \div b \in Nat /\ a % b \in Nat /\ a % b < b
           /\ a = b * (a \div b) + (a % b)
OBVIOUS

\* Gcd solves its equation, because the greatest common divisor, by any other
\* definition, does.
Solves(f) == f = [b \in Nat |-> [a \in Nat |-> IF b = 0 THEN a ELSE f[a % b][b]]]

\* The common divisors of two numbers, and the number whose divisors they are.
Commons(a, b) == {g \in Nat : Divides(g, a) /\ Divides(g, b)}
Common(a, b) == CHOOSE g : g \in Nat /\ {h \in Nat : Divides(h, g)} = Commons(a, b)

\* The common divisors of two numbers are those of one and the rest: Euclid's step.
LEMMA CommonsOfRest ==
    ASSUME NEW a \in Nat, NEW b \in Nat, b # 0
    PROVE  Commons(a, b) = Commons(b, a % b)
<1>0. /\ a \div b \in Nat /\ a % b \in Nat
      /\ a = b * (a \div b) + (a % b)
  BY Quotient
<1>1. ASSUME NEW g \in Nat, Divides(g, b)
      PROVE  Divides(g, a) <=> Divides(g, a % b)
  <2> DEFINE k == a \div b
             r == a % b
  <2>1. k \in Nat /\ r \in Nat /\ a = b * k + r
    BY <1>0
  <2> HIDE DEF k, r
  <2>2. Divides(g, b * k + r) <=> Divides(g, r)
    BY <1>1, <2>1, DividesSum, DividesRest
  <2> QED BY <2>1, <2>2 DEF r
<1> QED BY <1>1 DEF Commons

\* Of a number and 0, the greatest common divisor is the number.
LEMMA CommonOfNought ==
    ASSUME NEW a \in Nat
    PROVE  Common(a, 0) = a
<1>1. \A g \in Nat : Divides(g, 0) /\ Divides(g, g)
  <2> TAKE g \in Nat
  <2>1. 0 = g * 0 /\ g = g * 1
    OBVIOUS
  <2> QED BY <2>1 DEF Divides
<1>2. {h \in Nat : Divides(h, a)} = Commons(a, 0)
  BY <1>1 DEF Commons
<1>3. ASSUME NEW g \in Nat, {h \in Nat : Divides(h, g)} = Commons(a, 0)
      PROVE  g = a
  <2>1. Divides(g, a) /\ Divides(a, g)
    BY <1>1, <1>2, <1>3
  <2> QED BY <2>1, DividesEachOther
<1> DEFINE P(g) == g \in Nat /\ {h \in Nat : Divides(h, g)} = Commons(a, 0)
<1>4. P(a) /\ \A g : P(g) => g = a
  BY <1>2, <1>3
<1>5. Common(a, 0) = CHOOSE g : P(g)
  BY DEF Common
<1> HIDE DEF P
<1> QED BY <1>4, <1>5

\* The recursion of Gcd has a solution, so that Gcd is one.
LEMMA GcdSolves == Solves(Gcd)
<1> DEFINE f == [b \in Nat |-> [a \in Nat |-> Common(a, b)]]
<1>1. ASSUME NEW a \in Nat, NEW b \in Nat
      PROVE  f[b][a] = IF b = 0 THEN a ELSE f[a % b][b]
  <2>1. CASE b = 0
    BY <2>1, CommonOfNought
  <2>2. CASE b # 0
    <3>1. a % b \in Nat /\ Common(a, b) = Common(b, a % b)
      BY <2>2, Quotient, CommonsOfRest DEF Common
    <3> QED BY <2>2, <3>1
  <2> QED BY <2>1, <2>2
<1>2. f = [b \in Nat |-> [a \in Nat |-> f[b][a]]]
  OBVIOUS
<1> HIDE DEF f
<1>3. Solves(f)
  <2> DEFINE row(b, a) == IF b = 0 THEN a ELSE f[a % b][b]
  <2>1. \A a, b \in Nat : f[b][a] = row(b, a)
    BY <1>1
  <2> HIDE DEF row
  <2>2. \A b \in Nat : [a \in Nat |-> f[b][a]] = [a \in Nat |-> row(b, a)]
    BY <2>1
  <2>3. f = [b \in Nat |-> [a \in Nat |-> row(b, a)]]
    BY <1>2, <2>2, Zenon
  <2> QED BY <2>3, Zenon DEF Solves, row
<1>4. Gcd = CHOOSE g : Solves(g)
  BY DEF Gcd, Solves
<1> QED BY <1>3, <1>4, Zenon

\* One step of the recursion.
LEMMA GcdStep ==
    ASSUME NEW a \in Nat, NEW b \in Nat
    PROVE  Gcd[b][a] = IF b = 0 THEN a ELSE Gcd[a % b][b]
<1> DEFINE row(b1, a1) == IF b1 = 0 THEN a1 ELSE Gcd[a1 % b1][b1]
<1>1. Gcd = [b1 \in Nat |-> [a1 \in Nat |-> row(b1, a1)]]
  BY GcdSolves, Zenon DEF Solves
<1> HIDE DEF row
<1>2. Gcd[b][a] = row(b, a)
  BY <1>1
<1> QED BY <1>2 DEF row

\* It is a common divisor.
LEMMA GcdDivides ==
    ASSUME NEW b \in Nat
    PROVE  \A a \in Nat : /\ Gcd[b][a] \in Nat
                          /\ Divides(Gcd[b][a], a) /\ Divides(Gcd[b][a], b)
                          /\ b # 0 => Gcd[b][a] # 0
<1> DEFINE Goal(m) == \A a \in Nat : /\ Gcd[m][a] \in Nat
                                     /\ Divides(Gcd[m][a], a) /\ Divides(Gcd[m][a], m)
                                     /\ m # 0 => Gcd[m][a] # 0
           Bad == {m \in Nat : ~Goal(m)}
<1>1. ASSUME NEW m \in Nat, \A k \in Nat : k < m => Goal(k)
      PROVE  Goal(m)
  <2> SUFFICES ASSUME NEW a \in Nat
               PROVE  /\ Gcd[m][a] \in Nat
                      /\ Divides(Gcd[m][a], a) /\ Divides(Gcd[m][a], m)
                      /\ m # 0 => Gcd[m][a] # 0
    OBVIOUS
  <2>1. CASE m = 0
    <3>1. Gcd[m][a] = a
      BY <2>1, GcdStep
    <3>2. a = a * 1 /\ 0 = a * 0
      OBVIOUS
    <3> QED BY <2>1, <3>1, <3>2 DEF Divides
  <2>2. CASE m # 0
    <3> DEFINE k == a \div m
               r == a % m
               g == Gcd[r][m]
    <3>1. k \in Nat /\ r \in Nat /\ r < m /\ a = m * k + r
      BY <2>2, Quotient
    <3>2. Gcd[m][a] = g
      BY <2>2, GcdStep
    <3>3. g \in Nat /\ Divides(g, m) /\ Divides(g, r) /\ (r # 0 => g # 0)
      <4> HIDE DEF r
      <4> QED BY <1>1, <3>1
    <3>4. Divides(g, a)
      <4> HIDE DEF k, r, g
      <4>1. Divides(g, m * k + r)
        BY <3>1, <3>3, DividesSum
      <4> QED BY <3>1, <4>1
    <3>5. g # 0
      <4> HIDE DEF g
      <4>1. PICK q \in Nat : m = g * q
        BY <3>3 DEF Divides
      <4> QED BY <2>2, <3>3, <4>1
    <3> QED BY <3>2, <3>3, <3>4, <3>5
  <2> QED BY <2>1, <2>2
<1>2. Bad = {}
  <2>1. ASSUME NEW m \in Bad, \A k \in Bad : m <= k
        PROVE  FALSE
    <3> HIDE DEF Goal
    <3>1. \A k \in Nat : k < m => Goal(k)
      BY <2>1
    <3> QED BY <1>1, <3>1
  <2> HIDE DEF Bad
  <2>2. Bad \in SUBSET Nat
    BY DEF Bad
  <2> QED BY <2>1, <2>2, LeastNumber
<1>3. Goal(b)
  <2> HIDE DEF Goal
  <2> QED BY <1>2
<1> QED BY <1>3

\* Quotient and rest are unique.
LEMMA QuotientIs ==
    ASSUME NEW a \in Int, NEW b \in Nat, b # 0, NEW q \in Int, NEW r \in Nat, r < b, a = b * q + r
    PROVE  a \div b = q /\ a % b = r
<1>1. /\ a \div b \in Int /\ a % b \in Nat /\ a % b < b
      /\ a = b * (a \div b) + (a % b)
  OBVIOUS
<1> DEFINE k == a \div b
           s == a % b
<1>2. b * (k - q) = r - s
  BY <1>1
<1>3. k \in Int /\ s \in Nat /\ s < b
  BY <1>1
<1> HIDE DEF k, s
<1>4. ~(k - q >= 1) /\ ~(k - q <= -1)
  <2>1. k - q >= 1 => b * (k - q) >= b
    BY <1>3
  <2>2. k - q <= -1 => b * (k - q) <= -b
    BY <1>3
  <2> QED BY <1>2, <1>3, <2>1, <2>2
<1>5. k = q
  BY <1>3, <1>4
<1>6. s = r
  BY <1>2, <1>3, <1>5
<1> QED BY <1>5, <1>6 DEF k, s

\* The rest of multiples is the multiple of the rest.
LEMMA RestScales ==
    ASSUME NEW a \in Nat, NEW b \in Nat, b # 0, NEW k \in Nat, k # 0
    PROVE  (k * a) % (k * b) = k * (a % b)
<1> DEFINE q == a \div b
           r == a % b
<1>1. q \in Nat /\ r \in Nat /\ r < b /\ a = b * q + r
  BY Quotient
<1> HIDE DEF q, r
<1>2. /\ k * a \in Int /\ k * b \in Nat /\ k * b # 0 /\ k * r \in Nat /\ k * r < k * b
      /\ k * a = (k * b) * q + k * r
  BY <1>1
<1>3. (k * a) % (k * b) = k * r
  <2> DEFINE ka == k * a
             kb == k * b
             kr == k * r
  <2>1. ka \in Int /\ kb \in Nat /\ kb # 0 /\ kr \in Nat /\ kr < kb /\ ka = kb * q + kr
    BY <1>2
  <2> HIDE DEF ka, kb, kr
  <2>2. ka % kb = kr
    BY <1>1, <2>1, QuotientIs
  <2> QED BY <2>2 DEF ka, kb, kr
<1> QED BY <1>3 DEF r

\* The greatest common divisor of multiples is the multiple of it.
LEMMA GcdScales ==
    ASSUME NEW k \in Nat, k # 0, NEW b \in Nat
    PROVE  \A a \in Nat : Gcd[k * b][k * a] = k * Gcd[b][a]
<1> DEFINE Goal(m) == \A a \in Nat : Gcd[k * m][k * a] = k * Gcd[m][a]
           Bad == {m \in Nat : ~Goal(m)}
<1>1. ASSUME NEW m \in Nat, \A n \in Nat : n < m => Goal(n)
      PROVE  Goal(m)
  <2> SUFFICES ASSUME NEW a \in Nat
               PROVE  Gcd[k * m][k * a] = k * Gcd[m][a]
    OBVIOUS
  <2>0. k * m \in Nat /\ k * a \in Nat /\ (m # 0 => k * m # 0) /\ k * 0 = 0
    OBVIOUS
  <2>1. CASE m = 0
    BY <2>0, <2>1, GcdStep
  <2>2. CASE m # 0
    <3> DEFINE r == a % m
    <3>1. r \in Nat /\ r < m
      BY <2>2, Quotient
    <3>2. Gcd[m][a] = Gcd[r][m]
      BY <2>2, GcdStep
    <3>3. Gcd[k * m][k * a] = Gcd[(k * a) % (k * m)][k * m]
      BY <2>0, <2>2, GcdStep
    <3>4. (k * a) % (k * m) = k * r
      BY <2>2, RestScales
    <3>5. Gcd[k * r][k * m] = k * Gcd[r][m]
      <4> HIDE DEF r
      <4> QED BY <1>1, <3>1
    <3> QED BY <3>2, <3>3, <3>4, <3>5
  <2> QED BY <2>1, <2>2
<1>2. Bad = {}
  <2>1. ASSUME NEW m \in Bad, \A n \in Bad : m <= n
        PROVE  FALSE
    <3> HIDE DEF Goal
    <3>1. \A n \in Nat : n < m => Goal(n)
      BY <2>1
    <3> QED BY <1>1, <3>1
  <2> HIDE DEF Bad
  <2>2. Bad \in SUBSET Nat
    BY DEF Bad
  <2> QED BY <2>1, <2>2, LeastNumber
<1>3. Goal(b)
  <2> HIDE DEF Goal
  <2> QED BY <1>2
<1> QED BY <1>3

-----------------------------------------------------------------------------
(***************************************************************************)
(* Fractions: what the operators of Fractions do to values n / d.          *)
(***************************************************************************)

\* Denominators.
Positive == Nat \ {0}

\* What the lowest terms of n / d are.
LEMMA LowestTerms ==
    ASSUME NEW n \in Int, NEW d \in Positive
    PROVE  \E g \in Positive, p \in Int, q \in Positive :
              Frac(n, d) = <<p, q>> /\ n = g * p /\ d = g * q
<1> DEFINE g == Gcd[d][Size(n)]
<1>1. Size(n) \in Nat /\ d \in Nat /\ d # 0
  BY DEF Size, Positive
<1>2. g \in Positive /\ Divides(g, Size(n)) /\ Divides(g, d)
  BY <1>1, GcdDivides DEF Positive
<1>3. Frac(n, d) = <<n \div g, d \div g>>
  BY DEF Frac, Divided
<1> HIDE DEF g
<1>4. PICK a \in Nat : Size(n) = g * a
  BY <1>2 DEF Divides
<1>5. PICK q \in Nat : d = g * q
  BY <1>2 DEF Divides
<1> DEFINE p == IF n < 0 THEN -a ELSE a
<1>6. p \in Int /\ n = g * p
  BY <1>4, <1>2 DEF Size, Positive
<1> HIDE DEF p
<1>7. q \in Positive
  BY <1>1, <1>2, <1>5 DEF Positive
<1>8. g \in Nat /\ g # 0 /\ 0 \in Nat /\ 0 < g /\ n = g * p + 0 /\ d = g * q + 0
  BY <1>2, <1>5, <1>6 DEF Positive
<1>9. n \div g = p /\ d \div g = q
  BY <1>6, <1>7, <1>8, QuotientIs DEF Positive
<1> QED BY <1>2, <1>3, <1>5, <1>6, <1>7, <1>9

\* A fraction is the same when both of its terms are multiplied.
LEMMA FracScales ==
    ASSUME NEW k \in Positive, NEW n \in Int, NEW d \in Positive
    PROVE  Frac(k * n, k * d) = Frac(n, d)
<1> DEFINE g == Gcd[d][Size(n)]
<1>1. Size(n) \in Nat /\ d \in Nat /\ d # 0 /\ k \in Nat /\ k # 0
  BY DEF Size, Positive
<1>2. Size(k * n) = k * Size(n)
  <2>1. n < 0 => k * n < 0 /\ -(k * n) = k * (-n)
    BY <1>1
  <2>2. ~(n < 0) => ~(k * n < 0)
    BY <1>1
  <2> QED BY <2>1, <2>2 DEF Size
<1>3. Gcd[k * d][Size(k * n)] = k * g
  <2>1. \A a \in Nat : Gcd[k * d][k * a] = k * Gcd[d][a]
    BY <1>1, GcdScales
  <2> QED BY <1>1, <1>2, <2>1
<1>4. g \in Nat /\ g # 0 /\ Divides(g, Size(n)) /\ Divides(g, d)
  BY <1>1, GcdDivides
<1> HIDE DEF g
<1>5. PICK p \in Int, q \in Nat : n = g * p /\ d = g * q
  <2>1. PICK a \in Nat : Size(n) = g * a
    BY <1>4 DEF Divides
  <2>2. PICK b \in Nat : d = g * b
    BY <1>4 DEF Divides
  <2>3. CASE n < 0
    <3>1. -a \in Int /\ n = g * (-a)
      BY <1>4, <2>1, <2>3 DEF Size
    <3> QED BY <2>2, <3>1
  <2>4. CASE ~(n < 0)
    BY <2>1, <2>2, <2>4 DEF Size
  <2> QED BY <2>3, <2>4
<1>6. n \div g = p /\ d \div g = q
  <2>1. 0 \in Nat /\ 0 < g /\ n = g * p + 0 /\ d = g * q + 0 /\ q \in Int /\ d \in Int
    BY <1>1, <1>4, <1>5
  <2> QED BY <1>1, <1>4, <2>1, QuotientIs
<1>7. (k * n) \div (k * g) = p /\ (k * d) \div (k * g) = q
  <2> DEFINE kg == k * g
             kn == k * n
             kd == k * d
  <2>1. /\ kg \in Nat /\ kg # 0 /\ 0 \in Nat /\ 0 < kg /\ kn \in Int /\ kd \in Int /\ q \in Int
        /\ kn = kg * p + 0 /\ kd = kg * q + 0
    BY <1>1, <1>4, <1>5
  <2> HIDE DEF kg, kn, kd
  <2>2. kn \div kg = p /\ kd \div kg = q
    BY <2>1, QuotientIs
  <2> QED BY <2>2 DEF kg, kn, kd
<1>8. Frac(n, d) = <<n \div g, d \div g>>
  BY DEF Frac, Divided, g
<1>9. Frac(k * n, k * d) = <<(k * n) \div (k * g), (k * d) \div (k * g)>>
  BY <1>3 DEF Frac, Divided
<1> QED BY <1>6, <1>7, <1>8, <1>9

\* Fractions of the same value are equal.
LEMMA FracEqual ==
    ASSUME NEW n \in Int, NEW d \in Positive, NEW m \in Int, NEW e \in Positive,
           n * e = m * d
    PROVE  Frac(n, d) = Frac(m, e)
<1>1. Frac(e * n, e * d) = Frac(n, d)
  BY FracScales
<1>2. Frac(d * m, d * e) = Frac(m, e)
  BY FracScales
<1>3. e * n = d * m /\ e * d = d * e
  BY DEF Positive
<1> QED BY <1>1, <1>2, <1>3

\* A number is a fraction in lowest terms.
LEMMA WholeIsFrac ==
    ASSUME NEW n \in Int
    PROVE  Whole(n) = Frac(n, 1)
<1>1. Size(n) \in Nat /\ Size(n) % 1 = 0
  BY DEF Size
<1>2. Gcd[1][Size(n)] = Gcd[0][1] /\ Gcd[0][1] = 1
  BY <1>1, GcdStep
<1>3. n \div 1 = n /\ 1 \div 1 = 1
  OBVIOUS
<1> QED BY <1>2, <1>3 DEF Whole, Frac, Divided

\* Adding and subtracting fractions.
LEMMA FracPlus ==
    ASSUME NEW a \in Int, NEW b \in Positive, NEW c \in Int, NEW d \in Positive
    PROVE  /\ Plus(Frac(a, b), Frac(c, d)) = Frac(a * d + c * b, b * d)
           /\ Minus(Frac(a, b), Frac(c, d)) = Frac(a * d - c * b, b * d)
<1>1. PICK g \in Positive, p \in Int, q \in Positive :
         Frac(a, b) = <<p, q>> /\ a = g * p /\ b = g * q
  BY LowestTerms
<1>2. PICK h \in Positive, r \in Int, s \in Positive :
         Frac(c, d) = <<r, s>> /\ c = h * r /\ d = h * s
  BY LowestTerms
<1>3. /\ g * h \in Positive /\ q * s \in Positive
      /\ p * s + r * q \in Int /\ p * s - r * q \in Int
  BY <1>1, <1>2 DEF Positive
<1>4. /\ a * d + c * b = (g * h) * (p * s + r * q)
      /\ a * d - c * b = (g * h) * (p * s - r * q)
      /\ b * d = (g * h) * (q * s)
  BY <1>1, <1>2 DEF Positive
<1>5. /\ Plus(Frac(a, b), Frac(c, d)) = Frac(p * s + r * q, q * s)
      /\ Minus(Frac(a, b), Frac(c, d)) = Frac(p * s - r * q, q * s)
  BY <1>1, <1>2 DEF Plus, Minus
<1> QED BY <1>3, <1>4, <1>5, FracScales

\* Multiplying and dividing one.
LEMMA FracScaled ==
    ASSUME NEW a \in Int, NEW b \in Positive, NEW m \in Int, NEW k \in Positive
    PROVE  /\ Scaled(Frac(a, b), m, k) = Frac(a * m, b * k)
           /\ Over(Frac(a, b), k) = Frac(a, b * k)
<1>1. PICK g \in Positive, p \in Int, q \in Positive :
         Frac(a, b) = <<p, q>> /\ a = g * p /\ b = g * q
  BY LowestTerms
<1>2. q * k \in Positive /\ p * m \in Int
  BY <1>1 DEF Positive
<1>3. a * m = g * (p * m) /\ b * k = g * (q * k)
  BY <1>1 DEF Positive
<1>4. Scaled(Frac(a, b), m, k) = Frac(p * m, q * k) /\ Over(Frac(a, b), k) = Frac(p, q * k)
  BY <1>1 DEF Scaled, Over
<1> QED BY <1>1, <1>2, <1>3, <1>4, FracScales

\* Comparing them.
LEMMA FracLess ==
    ASSUME NEW a \in Int, NEW b \in Positive, NEW c \in Int, NEW d \in Positive
    PROVE  Less(Frac(a, b), Frac(c, d)) <=> a * d < c * b
<1>1. PICK g \in Positive, p \in Int, q \in Positive :
         Frac(a, b) = <<p, q>> /\ a = g * p /\ b = g * q
  BY LowestTerms
<1>2. PICK h \in Positive, r \in Int, s \in Positive :
         Frac(c, d) = <<r, s>> /\ c = h * r /\ d = h * s
  BY LowestTerms
<1>3. a * d = (g * h) * (p * s) /\ c * b = (g * h) * (r * q)
  BY <1>1, <1>2 DEF Positive
<1>4. Less(Frac(a, b), Frac(c, d)) <=> p * s < r * q
  BY <1>1, <1>2 DEF Less
<1> DEFINE x == p * s
           y == r * q
           k == g * h
<1>5. x \in Int /\ y \in Int /\ k \in Nat /\ k > 0
  BY <1>1, <1>2 DEF Positive
<1>6. a * d = k * x /\ c * b = k * y
  BY <1>3
<1> HIDE DEF x, y, k
<1>7. k * x < k * y <=> x < y
  BY <1>5
<1> QED BY <1>4, <1>6, <1>7 DEF x, y

\* The number below one.
LEMMA FracFloor ==
    ASSUME NEW a \in Int, NEW b \in Positive
    PROVE  Floor(Frac(a, b)) = a \div b
<1>1. PICK g \in Positive, p \in Int, q \in Positive :
         Frac(a, b) = <<p, q>> /\ a = g * p /\ b = g * q
  BY LowestTerms
<1> DEFINE k == p \div q
           r == p % q
<1>2. k \in Int /\ r \in Nat /\ r < q /\ p = q * k + r
  BY <1>1 DEF Positive
<1>3. Floor(Frac(a, b)) = k
  BY <1>1 DEF Floor
<1> HIDE DEF k, r
<1>4. g * r \in Nat /\ g * r < b /\ a = b * k + g * r
  BY <1>1, <1>2 DEF Positive
<1>5. a \div b = k
  <2> DEFINE s == g * r
  <2>1. s \in Nat /\ s < b /\ a = b * k + s /\ b \in Nat /\ b # 0
    BY <1>4 DEF Positive
  <2> HIDE DEF s
  <2> QED BY <1>2, <2>1, QuotientIs
<1> QED BY <1>3, <1>5

-----------------------------------------------------------------------------
(***************************************************************************)
(* The layout: the row a position is in, and the rows a grid holds.        *)
(***************************************************************************)

\* The fractions in lowest terms.
Fracs == {Frac(n, d) : n \in Int, d \in Positive}

\* The documents there are, at any zoom and position.
Docs == [cell : Cells, view : Windows, ncol : 1 .. 2, first : 1 .. 2, x : Columns,
         page : Pages, adjust : Adjusts, pos : Fracs]

\* The greater of two numbers.
LEMMA MaxOfTwo ==
    ASSUME NEW a \in Int, NEW b \in Int
    PROVE  Max({a, b}) = IF a >= b THEN a ELSE b
<1> DEFINE m == IF a >= b THEN a ELSE b
<1>1. m \in {a, b} /\ \A y \in {a, b} : m >= y
  OBVIOUS
<1>2. \A x \in {a, b} : (\A y \in {a, b} : x >= y) => x = m
  OBVIOUS
<1> HIDE DEF m
<1>3. Max({a, b}) = m
  BY <1>1, <1>2 DEF Max
<1> QED BY <1>3 DEF m

\* The lesser.
LEMMA MinOfTwo ==
    ASSUME NEW a \in Int, NEW b \in Int
    PROVE  Min({a, b}) = IF a <= b THEN a ELSE b
<1> DEFINE m == IF a <= b THEN a ELSE b
<1>1. m \in {a, b} /\ \A y \in {a, b} : m <= y
  OBVIOUS
<1>2. \A x \in {a, b} : (\A y \in {a, b} : x <= y) => x = m
  OBVIOUS
<1> HIDE DEF m
<1>3. Min({a, b}) = m
  BY <1>1, <1>2 DEF Min
<1> QED BY <1>3 DEF m

\* The sizes of a document.
LEMMA DocumentSizes ==
    ASSUME NEW d \in Docs
    PROVE  /\ d.cell \in Positive /\ Padding \in Positive /\ d.cell >= 2 * Padding
           /\ d.view \in Positive
           /\ RowStep(d) \in Positive /\ RowStep(d) = d.cell + Padding
           /\ FirstColumn(d) \in 1 .. d.ncol
           /\ Rows(d) \in 1 .. NumPages
           /\ DocumentHeight(d) \in Positive
           /\ DocumentHeight(d) = Rows(d) * RowStep(d) - Padding
           /\ WrapRows(d) \in Nat /\ Rows(d) <= WrapRows(d)
           /\ RenderRows(d) = Rows(d)
<1>0. /\ NumPages \in Nat /\ NumPages # 0
      /\ Padding \in Positive
      /\ d.cell \in Positive /\ d.cell >= 2 * Padding /\ d.view \in Positive
      /\ d.ncol \in 1 .. 2 /\ d.first \in 1 .. 2
  BY PagesAssumption, LayoutAssumption, ViewAssumption DEF Docs, Positive
<1>1. RowStep(d) \in Positive /\ RowStep(d) = d.cell + Padding
  BY <1>0 DEF RowStep, Positive
<1>2. FirstColumn(d) \in 1 .. d.ncol
  BY <1>0 DEF FirstColumn
<1>5. /\ Rows(d) \in 1 .. NumPages /\ RenderRows(d) = Rows(d)
      /\ WrapRows(d) \in Nat /\ Rows(d) <= WrapRows(d)
  <2>1. CASE d.ncol = 1
    <3>1. FirstColumn(d) = 1
      BY <1>2, <2>1
    <3> QED BY <1>0, <2>1, <3>1 DEF Rows, WrapRows, RenderRows, PageToRow
  <2>2. CASE d.ncol = 2 /\ FirstColumn(d) = 1
    <3>1. Rows(d) = (NumPages + 1) \div 2 /\ WrapRows(d) = (NumPages + 1) \div 2
          /\ RenderRows(d) = (NumPages + 1) \div 2
      BY <1>0, <2>2 DEF Rows, WrapRows, RenderRows, PageToRow
    <3> QED BY <1>0, <3>1
  <2>3. CASE d.ncol = 2 /\ FirstColumn(d) = 2
    <3>1. Rows(d) = (NumPages + 2) \div 2 /\ WrapRows(d) = 1 + (NumPages + 2) \div 2
          /\ RenderRows(d) = (NumPages + 2) \div 2
      BY <1>0, <2>3 DEF Rows, WrapRows, RenderRows, PageToRow
    <3> QED BY <1>0, <3>1
  <2> QED BY <1>0, <1>2, <2>1, <2>2, <2>3
<1>6. DocumentHeight(d) = Rows(d) * RowStep(d) - Padding
  BY <1>0, <1>1, <1>5 DEF DocumentHeight, Height, Positive
<1>7. Rows(d) * RowStep(d) >= RowStep(d)
  <2> DEFINE r == Rows(d)
             s == RowStep(d)
  <2>1. r \in Nat /\ r >= 1 /\ s \in Nat
    BY <1>0, <1>1, <1>5 DEF Positive
  <2> HIDE DEF r, s
  <2>2. r * s >= s
    BY <2>1
  <2> QED BY <2>2 DEF r, s
<1>8. DocumentHeight(d) \in Positive
  BY <1>0, <1>1, <1>5, <1>6, <1>7 DEF Positive
<1> QED BY <1>0, <1>1, <1>2, <1>5, <1>6, <1>8

\* The page in a cell, and its row.
LEMMA RowOfCell ==
    ASSUME NEW d \in Docs, NEW n \in Int
    PROVE  /\ PageInCell(d, n) \in Pages
           /\ \A r \in 0 .. Rows(d) - 1, c \in 0 .. d.ncol - 1 :
                 n = d.ncol * r + c => PageToRow(d, PageInCell(d, n)) = r
<1>0. /\ NumPages \in Nat /\ NumPages # 0 /\ d.ncol \in 1 .. 2
      /\ FirstColumn(d) \in 1 .. d.ncol /\ Rows(d) \in Nat
  BY PagesAssumption, DocumentSizes DEF Docs
<1> DEFINE i == n - (FirstColumn(d) - 1)
           p == IF i < 0 THEN 0 ELSE IF i > NumPages - 1 THEN NumPages - 1 ELSE i
<1>1. PageInCell(d, n) = p
  <2>1. i \in Int /\ NumPages - 1 \in Int
    BY <1>0
  <2>2. Min({i, NumPages - 1}) = IF i <= NumPages - 1 THEN i ELSE NumPages - 1
    BY <2>1, MinOfTwo
  <2> DEFINE m == Min({i, NumPages - 1})
  <2>3. m \in Int /\ PageInCell(d, n) = Max({0, m})
    BY <2>1, <2>2 DEF PageInCell
  <2> HIDE DEF m
  <2>4. Max({0, m}) = IF 0 >= m THEN 0 ELSE m
    BY <2>3, MaxOfTwo
  <2> QED BY <1>0, <2>2, <2>3, <2>4 DEF m
<1>2. p \in Pages
  BY <1>0 DEF Pages
<1>3. ASSUME NEW r \in 0 .. Rows(d) - 1, NEW c \in 0 .. d.ncol - 1, n = d.ncol * r + c
      PROVE  PageToRow(d, p) = r
  <2>1. CASE d.ncol = 1
    BY <1>0, <1>3, <2>1 DEF PageToRow, Rows
  <2>2. CASE d.ncol = 2 /\ FirstColumn(d) = 1
    <3>1. Rows(d) = (NumPages + 1) \div 2 /\ n = 2 * r + c /\ c \in 0 .. 1 /\ r \in Nat
      BY <1>0, <1>3, <2>2 DEF Rows
    <3> QED BY <1>0, <1>3, <2>2, <3>1 DEF PageToRow
  <2>3. CASE d.ncol = 2 /\ FirstColumn(d) = 2
    <3>1. Rows(d) = (NumPages + 2) \div 2 /\ n = 2 * r + c /\ c \in 0 .. 1 /\ r \in Nat
      BY <1>0, <1>3, <2>3 DEF Rows
    <3> QED BY <1>0, <1>3, <2>3, <3>1 DEF PageToRow
  <2> QED BY <1>0, <2>1, <2>2, <2>3
<1> QED BY <1>1, <1>2, <1>3

\* The ends of a document are fractions.
LEMMA Constants ==
    /\ Top = Frac(0, 1) /\ Bottom = Frac(1, 1)
    /\ Top \in Fracs /\ Bottom \in Fracs /\ 1 \in Positive
<1>1. Whole(0) = Frac(0, 1) /\ Whole(1) = Frac(1, 1) /\ 1 \in Positive /\ 0 \in Int /\ 1 \in Int
  BY WholeIsFrac DEF Positive
<1> QED BY <1>1 DEF Top, Bottom, Whole, Fracs

\* A position is in the row whose pixels it is between.
LEMMA PositionRow ==
    ASSUME NEW d \in Docs, NEW x \in Columns, NEW a \in Nat, NEW b \in Positive, a <= b
    PROVE  LET r == PageToRow(d, PositionToPage(d, x, Frac(a, b)))
           IN  /\ r \in 0 .. Rows(d) - 1
               /\ b * (r * RowStep(d)) <= a * DocumentHeight(d)
               /\ a * DocumentHeight(d) < b * ((r + 1) * RowStep(d))
<1> DEFINE h == DocumentHeight(d)
           s == RowStep(d)
           n == Rows(d)
<1>0. /\ h \in Positive /\ s \in Positive /\ n \in Nat /\ n >= 1 /\ Padding \in Positive
      /\ h = n * s - Padding /\ WrapRows(d) \in Nat /\ n <= WrapRows(d)
      /\ d.ncol \in 1 .. 2
  BY DocumentSizes DEF Docs
<1> DEFINE num == a * h
           den == b * s
           q == num \div den
           rest == num % den
<1>1. num \in Nat /\ den \in Nat /\ den # 0
  BY <1>0 DEF Positive
<1>2. q \in Nat /\ rest \in Nat /\ rest < den /\ num = den * q + rest
  <2> HIDE DEF num, den
  <2> QED BY <1>1, Quotient
<1>3. num < den * n
  <2>1. a * h <= b * h
    BY <1>0 DEF Positive
  <2>2. b * h = b * (n * s) - b * Padding /\ b * Padding > 0
    <3>1. b * h = b * (n * s - Padding)
      BY <1>0
    <3> QED BY <1>0, <3>1 DEF Positive
  <2>3. b * (n * s) = den * n
    BY <1>0 DEF Positive
  <2> HIDE DEF h
  <2> QED BY <1>0, <2>1, <2>2, <2>3 DEF Positive
<1>4. Floor(Scaled(Frac(a, b), h, s)) = q
  <2>0. a \in Int /\ h \in Int /\ s \in Positive
    BY <1>0 DEF Positive
  <2>1. Scaled(Frac(a, b), h, s) = Frac(a * h, b * s)
    <3> HIDE DEF h, s
    <3> QED BY <2>0, FracScaled
  <2>2. den \in Positive /\ num \in Int
    BY <1>1 DEF Positive
  <2>3. Scaled(Frac(a, b), h, s) = Frac(num, den)
    BY <2>1
  <2> HIDE DEF num, den
  <2> QED BY <2>2, <2>3, FracFloor
<1> HIDE DEF q, rest
<1>5. q < n
  <2> HIDE DEF num, den
  <2>1. ~(q >= n)
    <3>1. q >= n => den * q >= den * n
      BY <1>0, <1>1, <1>2
    <3> QED BY <1>0, <1>1, <1>2, <1>3, <3>1
  <2> QED BY <1>0, <1>2, <2>1
<1>6. q % WrapRows(d) = q
  <2>1. q < WrapRows(d) /\ WrapRows(d) # 0 /\ q = WrapRows(d) * 0 + q
    BY <1>0, <1>2, <1>5
  <2> QED BY <1>0, <1>2, <2>1, QuotientIs
<1> DEFINE c == ColumnAt(d, x)
<1>7. c \in 0 .. d.ncol - 1
  BY <1>0 DEF ColumnAt
<1>8. PositionToPage(d, x, Frac(a, b)) = PageInCell(d, d.ncol * q + c)
  BY <1>4, <1>6 DEF PositionToPage
<1> HIDE DEF c
<1>9. PageToRow(d, PositionToPage(d, x, Frac(a, b))) = q
  <2>1. d.ncol * q + c \in Int /\ q \in 0 .. Rows(d) - 1
    BY <1>0, <1>2, <1>5, <1>7
  <2> QED BY <1>7, <1>8, <2>1, RowOfCell
<1>10. b * (q * s) = den * q /\ b * ((q + 1) * s) = den * q + den
  BY <1>0, <1>2 DEF Positive
<1>11. b * (q * s) <= num /\ num < b * ((q + 1) * s)
  <2> HIDE DEF num, den
  <2> QED BY <1>1, <1>2, <1>10
<1> QED BY <1>0, <1>2, <1>5, <1>9, <1>11

\* There is a page at every position, even beyond the document.
LEMMA PositionPage ==
    ASSUME NEW d \in Docs, NEW x \in Columns, NEW y \in Fracs
    PROVE  PositionToPage(d, x, y) \in Pages
<1>1. PICK a \in Int, b \in Positive : y = Frac(a, b)
  BY DEF Fracs
<1>2. DocumentHeight(d) \in Positive /\ RowStep(d) \in Positive /\ d.ncol \in 1 .. 2
      /\ WrapRows(d) \in Nat /\ WrapRows(d) # 0
  BY DocumentSizes DEF Docs
<1> DEFINE num == a * DocumentHeight(d)
           den == b * RowStep(d)
           f == Floor(Scaled(y, DocumentHeight(d), RowStep(d)))
<1>3. num \in Int /\ den \in Positive
  BY <1>2 DEF Positive
<1>4. f = num \div den
  <2>1. DocumentHeight(d) \in Int
    BY <1>2 DEF Positive
  <2>2. Scaled(y, DocumentHeight(d), RowStep(d)) = Frac(num, den)
    BY <1>1, <1>2, <2>1, FracScaled
  <2> HIDE DEF num, den
  <2> QED BY <1>3, <2>2, FracFloor
<1>5. f \in Int
  <2> HIDE DEF num, den
  <2> QED BY <1>3, <1>4 DEF Positive
<1>6. ColumnAt(d, x) \in Int
  BY DEF ColumnAt
<1> DEFINE n == d.ncol * (f % WrapRows(d)) + ColumnAt(d, x)
<1>7. n \in Int
  <2> HIDE DEF f
  <2>1. f % WrapRows(d) \in Int
    BY <1>2, <1>5
  <2> QED BY <1>2, <1>6, <2>1
<1>8. PositionToPage(d, x, y) = PageInCell(d, n)
  BY DEF PositionToPage
<1> HIDE DEF n
<1> QED BY <1>7, <1>8, RowOfCell

\* The row at a position, which is brought into the document.
LEMMA RowAtBounds ==
    ASSUME NEW d \in Docs, NEW a \in Int, NEW b \in Positive
    PROVE  LET r == RowAt(d, Frac(a, b))
               at(s) == b * (s * RowStep(d))
               y == a * DocumentHeight(d)
           IN  /\ r \in 0 .. Rows(d) - 1
               /\ \A s \in 0 .. Rows(d) - 1 : s <= r <=> (s = 0 \/ at(s) <= y)
<1> DEFINE h == DocumentHeight(d)
           step == RowStep(d)
           n == Rows(d)
           r == RowAt(d, Frac(a, b))
<1>0. /\ h \in Positive /\ step \in Positive /\ n \in Nat /\ n >= 1 /\ Padding \in Positive
      /\ h = n * step - Padding /\ d.x \in Columns
      /\ d.cell \in Positive /\ step = d.cell + Padding
  BY DocumentSizes DEF Docs
<1>1. /\ Less(Frac(a, b), Top) <=> a < 0
      /\ Less(Bottom, Frac(a, b)) <=> b < a
  <2>1. Less(Frac(a, b), Frac(0, 1)) <=> a * 1 < 0 * b
    BY Constants, FracLess
  <2>2. Less(Frac(1, 1), Frac(a, b)) <=> 1 * b < a * 1
    BY Constants, FracLess
  <2> QED BY <2>1, <2>2, Constants DEF Positive
<1> HIDE DEF h, step, n
<1>2. CASE a < 0
  <2>1. r = PageToRow(d, PositionToPage(d, d.x, Frac(0, 1)))
    BY <1>1, <1>2, Constants DEF RowAt, Clamped
  <2>2. 0 \in Nat /\ 1 \in Positive /\ 0 <= 1
    BY Constants
  <2>3. /\ r \in 0 .. n - 1 /\ 1 * (r * step) <= 0 * h
    BY <1>0, <2>1, <2>2, PositionRow DEF h, step, n
  <2>4. r = 0
    <3>1. r \in Nat /\ r * step <= 0
      BY <1>0, <2>3 DEF Positive
    <3>2. r >= 1 => r * step >= step
      BY <1>0, <3>1 DEF Positive
    <3> QED BY <1>0, <3>1, <3>2 DEF Positive
  <2>5. a * h < 0
    BY <1>0, <1>2 DEF Positive
  <2>6. ASSUME NEW s \in 0 .. n - 1
        PROVE  b * (s * step) >= 0
    BY <1>0 DEF Positive
  <2>7. \A s \in 0 .. n - 1 : b * (s * step) \in Int /\ a * h \in Int
    BY <1>0 DEF Positive
  <2>8. \A s \in 0 .. n - 1 : s <= 0 <=> (s = 0 \/ b * (s * step) <= a * h)
    BY <1>0, <2>5, <2>6, <2>7
  <2> QED BY <1>0, <2>4, <2>8 DEF h, step, n
<1>3. CASE a >= 0 /\ a <= b
  <2>1. r = PageToRow(d, PositionToPage(d, d.x, Frac(a, b)))
    BY <1>1, <1>3 DEF RowAt, Clamped, Positive
  <2>2. a \in Nat
    BY <1>3
  <2>3. /\ r \in 0 .. n - 1 /\ b * (r * step) <= a * h /\ a * h < b * ((r + 1) * step)
    BY <1>0, <1>3, <2>1, <2>2, PositionRow DEF h, step, n
  <2> HIDE DEF r
  <2>4. ASSUME NEW s \in 0 .. n - 1
        PROVE  s <= r <=> (s = 0 \/ b * (s * step) <= a * h)
    <3> DEFINE bs == b * step
               y == a * h
    <3>1. /\ b * (s * step) = s * bs /\ b * (r * step) = r * bs
          /\ b * ((r + 1) * step) = (r + 1) * bs /\ bs \in Nat /\ bs > 0 /\ y \in Int
      BY <1>0, <2>3 DEF Positive
    <3> HIDE DEF bs, y
    <3>2. r * bs <= y /\ y < (r + 1) * bs
      BY <2>3, <3>1 DEF y
    <3>3. s <= r => s * bs <= r * bs
      BY <1>0, <2>3, <3>1
    <3>4. ~(s <= r) => s >= r + 1 /\ s * bs >= (r + 1) * bs
      BY <1>0, <2>3, <3>1
    <3>5. s * bs \in Int /\ r * bs \in Int /\ (r + 1) * bs \in Int
      BY <1>0, <2>3, <3>1
    <3>6. s <= r <=> (s = 0 \/ s * bs <= y)
      BY <1>0, <2>3, <3>1, <3>2, <3>3, <3>4, <3>5
    <3> QED BY <3>1, <3>6 DEF y
  <2> QED BY <2>3, <2>4 DEF h, step, n, r
<1>4. CASE a > b
  <2>1. r = PageToRow(d, PositionToPage(d, d.x, Frac(1, 1)))
    <3>1. ~(a < 0) /\ b < a
      BY <1>4 DEF Positive
    <3> QED BY <1>1, <3>1, Constants DEF RowAt, Clamped
  <2>2. 1 \in Nat /\ 1 \in Positive /\ 1 <= 1
    BY Constants
  <2>3. /\ r \in 0 .. n - 1 /\ 1 * h < 1 * ((r + 1) * step)
    BY <1>0, <2>1, <2>2, PositionRow DEF h, step, n
  <2> HIDE DEF r
  <2>4. r = n - 1
    <3>1. r + 1 < n => (r + 1) * step <= (n - 1) * step
      BY <1>0, <2>3 DEF Positive
    <3>2. (n - 1) * step = n * step - step /\ n * step \in Int /\ (r + 1) * step \in Int
      BY <1>0, <2>3 DEF Positive
    <3>3. h < (r + 1) * step
      BY <1>0, <2>3, <3>2 DEF Positive
    <3> QED BY <1>0, <2>3, <3>1, <3>2, <3>3 DEF Positive
  <2>5. ASSUME NEW s \in 0 .. n - 1
        PROVE  s <= n - 1 /\ b * (s * step) <= a * h
    <3>1. s * step <= (n - 1) * step
      BY <1>0 DEF Positive
    <3>2. (n - 1) * step = n * step - step /\ n * step \in Int /\ s * step \in Nat
      BY <1>0 DEF Positive
    <3>3. s * step <= h
      BY <1>0, <3>1, <3>2 DEF Positive
    <3>4. b * (s * step) <= b * h
      <4> DEFINE t == s * step
      <4>1. t \in Nat /\ t <= h
        BY <3>2, <3>3
      <4> HIDE DEF t
      <4>2. b * t <= b * h
        BY <1>0, <4>1 DEF Positive
      <4> QED BY <4>2 DEF t
    <3>5. b * h <= a * h
      BY <1>0, <1>4 DEF Positive
    <3>6. b * h \in Int /\ a * h \in Int /\ b * (s * step) \in Int
      BY <1>0 DEF Positive
    <3> QED BY <1>0, <3>4, <3>5, <3>6
  <2> QED BY <1>0, <2>4, <2>5 DEF h, step, n, r
<1> QED BY <1>2, <1>3, <1>4 DEF Positive

\* The grids.
Grids == [start : Nat, count : Nat, stale : BOOLEAN]

\* The rows the grid holds are the document's.
Inside(g, d) == g.count >= 1 /\ g.start + g.count <= Rows(d)

\* A positive factor can be left out of a comparison.
LEMMA Cancel ==
    ASSUME NEW h \in Positive, NEW u \in Int, NEW v \in Int
    PROVE  (h * u <= h * v <=> u <= v) /\ (h * u < h * v <=> u < v) /\ (h * u = h * v <=> u = v)
  BY DEF Positive

\* The grid covers a position if its pixels are half a view and a cell away from
\* either end of the grid that is not an end of the document.
LEMMA CoversMeans ==
    ASSUME NEW d \in Docs, NEW g \in Grids, Inside(g, d),
           NEW p \in Int, NEW q \in Positive, d.pos = Frac(p, q)
    PROVE  LET at == 2 * (p * DocumentHeight(d))
               around == q * (d.view + d.cell)
           IN  Covers(g, d) <=>
                  /\ g.start = 0 \/ 2 * (q * (g.start * RowStep(d))) <= at - around
                  /\ \/ g.start + g.count = Rows(d)
                     \/ at + around < 2 * (q * ((g.start + g.count) * RowStep(d)))
<1> DEFINE h == DocumentHeight(d)
           step == RowStep(d)
           n == Rows(d)
           w == d.view + d.cell
           e == g.start + g.count
           b == q * (2 * h)
           low == p * (2 * h) - w * q
           high == p * (2 * h) + w * q
           rl == RowAt(d, Minus(d.pos, Reach(d)))
           rh == RowAt(d, Plus(d.pos, Reach(d)))
<1>0. /\ h \in Positive /\ step \in Positive /\ n \in Nat /\ n >= 1 /\ w \in Nat
      /\ g.start \in Nat /\ g.count \in Nat /\ g.count >= 1 /\ e \in Nat /\ e <= n
      /\ g.start \in 0 .. n - 1
  BY DocumentSizes DEF Grids, Inside, Positive
<1>1. /\ 2 * h \in Positive /\ b \in Positive /\ low \in Int /\ high \in Int
  BY <1>0 DEF Positive
<1>2. rl = RowAt(d, Frac(low * 1, b)) /\ rh = RowAt(d, Frac(high, b))
  <2>1. Reach(d) = Frac(w, 2 * h) /\ w \in Int
    BY <1>0 DEF Reach
  <2>2. /\ Minus(Frac(p, q), Frac(w, 2 * h)) = Frac(low, b)
        /\ Plus(Frac(p, q), Frac(w, 2 * h)) = Frac(high, b)
    <3> HIDE DEF h, w
    <3> QED BY <1>1, <2>1, FracPlus
  <2>3. low * 1 = low
    BY <1>1
  <2> QED BY <2>1, <2>2, <2>3
<1>3. low * 1 = low
  BY <1>1
<1>4. /\ rl \in 0 .. n - 1
      /\ \A s \in 0 .. n - 1 : s <= rl <=> (s = 0 \/ b * (s * step) <= low * h)
  BY <1>1, <1>2, <1>3, RowAtBounds
<1>5. /\ rh \in 0 .. n - 1
      /\ \A s \in 0 .. n - 1 : s <= rh <=> (s = 0 \/ b * (s * step) <= high * h)
  BY <1>1, <1>2, RowAtBounds
<1>6. Covers(g, d) <=> g.start <= rl /\ rh < e
  BY DEF Covers
<1> HIDE DEF rl, rh
<1>7. ASSUME NEW s \in Nat, NEW y \in Int
      PROVE  b * (s * step) <= y * h <=> 2 * (q * (s * step)) <= y
  <2>1. b * (s * step) = h * (2 * (q * (s * step))) /\ y * h = h * y
    BY <1>0, <1>7 DEF Positive
  <2>2. 2 * (q * (s * step)) \in Int
    BY <1>0, <1>7 DEF Positive
  <2> HIDE DEF h, step, b
  <2> QED BY <1>0, <1>7, <2>1, <2>2, Cancel
<1>8. low = 2 * (p * h) - q * w /\ high = 2 * (p * h) + q * w
  BY <1>0 DEF Positive
<1> HIDE DEF low, high, b, h, step, n, w, e
<1>9. g.start <= rl <=> (g.start = 0 \/ 2 * (q * (g.start * step)) <= low)
  BY <1>0, <1>1, <1>4, <1>7
<1>10. rh < e <=> (e = n \/ high < 2 * (q * (e * step)))
  <2>1. CASE e = n
    BY <1>0, <1>5, <2>1
  <2>2. CASE e # n
    <3>1. e \in 0 .. n - 1 /\ e # 0
      BY <1>0, <2>2 DEF e
    <3>2. e <= rh <=> 2 * (q * (e * step)) <= high
      BY <1>0, <1>1, <1>5, <1>7, <3>1
    <3>3. 2 * (q * (e * step)) \in Int
      BY <1>0 DEF Positive
    <3> QED BY <1>0, <1>1, <1>5, <2>2, <3>2, <3>3
  <2> QED BY <2>1, <2>2
<1> QED BY <1>6, <1>8, <1>9, <1>10 DEF h, step, n, w, e

\* At any zoom the rows of the grid fill the window, if they are not all there are.
Fills(g, d) ==
    \/ g.count = Rows(d)
    \/ \A cell \in Cells, height \in Windows : g.count * (cell + Padding) >= height + Padding

\* A fraction is in the document if it is between 0 and 1.
LEMMA InDocumentMeans ==
    ASSUME NEW p \in Int, NEW q \in Positive
    PROVE  InDocument(Frac(p, q)) <=> p >= 0 /\ p <= q
<1>1. Less(Frac(p, q), Frac(0, 1)) <=> p * 1 < 0 * q
  BY Constants, FracLess
<1>2. Less(Frac(1, 1), Frac(p, q)) <=> 1 * q < p * 1
  BY Constants, FracLess
<1> QED BY <1>1, <1>2, Constants DEF InDocument, AtMost, Positive

\* The rows around a position that a new grid begins and ends with.
LEMMA RenderStartAround ==
    ASSUME NEW n \in Nat, NEW m \in Nat, NEW r \in 0 .. n - 1, m >= 3
    PROVE  LET count == IF n <= m THEN n ELSE m
               start == RenderStart(n, count, r)
               k == (m - 1) \div 2
           IN  /\ start \in Nat /\ start + count <= n
               /\ start = 0 \/ start <= r - k
               /\ start + count = n \/ start + count >= r + k + 1
<1>1. CASE n <= m
  <2>1. RenderStart(n, n, r) = 0
    BY <1>1 DEF RenderStart
  <2> QED BY <1>1, <2>1
<1>2. CASE ~(n <= m)
  <2> DEFINE k == (m - 1) \div 2
             h == m \div 2
  <2>1. k \in Nat /\ h \in Nat /\ h + k + 1 = m /\ k <= h
    OBVIOUS
  <2>2. RenderStart(n, m, r) = IF n <= r + h THEN n - m ELSE IF r < h THEN 0 ELSE r - h
    BY DEF RenderStart
  <2> HIDE DEF k, h
  <2>3. LET start == RenderStart(n, m, r)
        IN  /\ start \in Nat /\ start + m <= n
            /\ start = 0 \/ start <= r - k
            /\ start + m = n \/ start + m >= r + k + 1
    BY <1>2, <2>1, <2>2
  <2> QED BY <1>2, <2>3 DEF k
<1> QED BY <1>1, <1>2

\* A new grid, zathura_document_widget_render, is in the document, fills any
\* window, and covers the position it is made for.
LEMMA RenderRangeCovers ==
    ASSUME SurfaceIsHigh, NEW d \in Docs
    PROVE  LET g == RenderRange(d)
           IN  /\ g \in Grids /\ ~g.stale
               /\ Inside(g, d) /\ Fills(g, d)
               /\ InDocument(d.pos) => Covers(g, d)
<1> DEFINE h == DocumentHeight(d)
           step == RowStep(d)
           n == Rows(d)
           w == d.view + d.cell
           m == SurfaceRows(d.cell)
           k == (m - 1) \div 2
           r == PageToRow(d, PositionToPage(d, d.x, d.pos))
           c == RenderCount(d)
           s == RenderStart(n, c, r)
           g == RenderRange(d)
<1>0. /\ h \in Positive /\ step \in Positive /\ n \in Nat /\ n >= 1 /\ w \in Positive
      /\ d.x \in Columns /\ d.pos \in Fracs /\ d.cell \in Cells /\ d.view \in Windows
      /\ RenderRows(d) = n /\ step = d.cell + Padding /\ d.cell \in Positive
      /\ Padding \in Positive
  BY DocumentSizes DEF Docs, Positive
<1>1. m \in Nat
  <2>1. MaxSize \in Nat /\ d.cell + 2 * Padding \in Nat /\ d.cell + 2 * Padding # 0
    BY <1>0, LayoutAssumption DEF Positive
  <2> QED BY <2>1, Quotient DEF SurfaceRows
<1>2. /\ 2 * (k * step) >= w
      /\ \A cell \in Cells, height \in Windows : m * (cell + Padding) >= height + Padding
  BY <1>0 DEF SurfaceIsHigh
<1>3. m >= 3
  <2>1. k \in Int /\ (k >= 1 => m >= 3)
    BY <1>1
  <2>2. ~(k <= 0)
    <3> HIDE DEF k
    <3>1. k <= 0 => k * step <= 0 /\ k * step \in Int
      BY <1>0, <2>1 DEF Positive
    <3> QED BY <1>0, <1>2, <2>1, <3>1 DEF Positive
  <2> QED BY <2>1, <2>2
<1>4. c = IF n <= m THEN n ELSE m
  <2> HIDE DEF n, m
  <2>1. Min({n, m}) = IF n <= m THEN n ELSE m
    BY <1>0, <1>1, MinOfTwo
  <2> QED BY <1>0, <2>1 DEF RenderCount, m, n
<1>5. r \in 0 .. n - 1
  <2>1. PositionToPage(d, d.x, d.pos) \in Pages
    BY <1>0, PositionPage
  <2> DEFINE leaf == PositionToPage(d, d.x, d.pos)
  <2> HIDE DEF leaf
  <2>2. leaf \in 0 .. NumPages - 1 /\ NumPages \in Nat /\ d.ncol \in 1 .. 2
        /\ FirstColumn(d) \in 1 .. d.ncol
    BY <2>1, PagesAssumption, DocumentSizes DEF Pages, leaf, Docs
  <2>3. PageToRow(d, leaf) \in 0 .. Rows(d) - 1
    <3>1. CASE d.ncol = 1
      BY <2>2, <3>1 DEF PageToRow, Rows
    <3>2. CASE d.ncol = 2 /\ FirstColumn(d) = 1
      BY <2>2, <3>2 DEF PageToRow, Rows
    <3>3. CASE d.ncol = 2 /\ FirstColumn(d) = 2
      BY <2>2, <3>3 DEF PageToRow, Rows
    <3> QED BY <2>2, <3>1, <3>2, <3>3
  <2> QED BY <2>3 DEF leaf
<1>6. g = [start |-> s, count |-> c, stale |-> FALSE]
  BY <1>0 DEF RenderRange
<1> HIDE DEF g, s, c, r, k, m, w, n, step, h
<1>7. /\ s \in Nat /\ s + c <= n
      /\ s = 0 \/ s <= r - k
      /\ s + c = n \/ s + c >= r + k + 1
  BY <1>0, <1>1, <1>3, <1>4, <1>5, RenderStartAround DEF s, k
<1>8. c \in Nat /\ c >= 1
  BY <1>0, <1>1, <1>3, <1>4
<1>9. g \in Grids /\ ~g.stale /\ Inside(g, d)
  BY <1>6, <1>7, <1>8 DEF Grids, Inside, n
<1>10. Fills(g, d)
  BY <1>2, <1>4, <1>6 DEF Fills, n
<1>11. ASSUME InDocument(d.pos)
       PROVE  Covers(g, d)
  <2>1. PICK p \in Int, q \in Positive : d.pos = Frac(p, q)
    BY <1>0 DEF Fracs
  <2>2. p >= 0 /\ p <= q /\ p \in Nat
    BY <1>11, <2>1, InDocumentMeans
  <2>3. q * (r * step) <= p * h /\ p * h < q * ((r + 1) * step)
    BY <1>0, <2>1, <2>2, PositionRow DEF r, h, step
  <2>4. k \in Nat
    BY <1>1, <1>3 DEF k
  <2> DEFINE at == p * h
             qs == q * step
             qw == q * w
  <2>5. /\ at \in Int /\ qs \in Nat /\ qw \in Int
        /\ q * (r * step) = r * qs /\ q * ((r + 1) * step) = (r + 1) * qs
        /\ q * (s * step) = s * qs /\ q * ((s + c) * step) = (s + c) * qs
        /\ qw <= 2 * (k * qs)
    <3>1. q * w <= q * (2 * (k * step))
      <4> DEFINE x == 2 * (k * step)
      <4>1. x \in Int /\ x >= w
        BY <1>0, <1>2, <2>4 DEF Positive
      <4> HIDE DEF x
      <4>2. q * w <= q * x
        BY <1>0, <4>1 DEF Positive
      <4> QED BY <4>2 DEF x
    <3>2. q * (2 * (k * step)) = 2 * (k * (q * step))
      BY <1>0, <2>4 DEF Positive
    <3> QED BY <1>0, <1>5, <1>7, <1>8, <3>1, <3>2 DEF Positive
  <2> HIDE DEF at, qs, qw
  <2>6. r * qs <= at /\ at < (r + 1) * qs
    BY <2>3, <2>5 DEF at
  <2>7. s = 0 \/ 2 * (s * qs) <= 2 * at - qw
    <3>1. CASE s <= r - k
      <4>1. s * qs <= (r - k) * qs
        BY <1>5, <1>7, <2>4, <2>5, <3>1
      <4>2. (r - k) * qs = r * qs - k * qs
        BY <1>5, <2>4, <2>5
      <4>3. s * qs \in Int /\ r * qs \in Int /\ k * qs \in Int
        BY <1>5, <1>7, <2>4, <2>5
      <4> QED BY <2>5, <2>6, <4>1, <4>2, <4>3
    <3> QED BY <1>7, <3>1
  <2>8. s + c = n \/ 2 * at + qw < 2 * ((s + c) * qs)
    <3>1. CASE s + c >= r + k + 1
      <4>1. (r + k + 1) * qs <= (s + c) * qs
        BY <1>5, <1>7, <1>8, <2>4, <2>5, <3>1
      <4>2. (r + k + 1) * qs = (r + 1) * qs + k * qs
        BY <1>5, <2>4, <2>5
      <4>3. (s + c) * qs \in Int /\ (r + 1) * qs \in Int /\ k * qs \in Int
        BY <1>5, <1>7, <1>8, <2>4, <2>5
      <4> QED BY <2>5, <2>6, <4>1, <4>2, <4>3
    <3> QED BY <1>7, <3>1
  <2>9. g.start = s /\ g.count = c
    BY <1>6
  <2> QED
    BY <1>9, <2>1, <2>5, <2>7, <2>8, <2>9, CoversMeans DEF at, qw, h, step, n, w
<1> QED BY <1>9, <1>10, <1>11 DEF g

-----------------------------------------------------------------------------
(***************************************************************************)
(* Views, and what it is for a value to show a position.                   *)
(***************************************************************************)

\* The adjustments, and the views.
Adjs == [size : Windows, upper : Nat, value : Fracs]
Views == [doc : Docs, grid : Grids, adj : Adjs, queued : BOOLEAN, skipped : BOOLEAN,
          mode : {"normal", "index", "presentation"}]

\* GTK clamps the value of an adjustment.
ValueInBounds(adj) ==
    /\ adj.size <= adj.upper
    /\ AtMost(Top, adj.value) /\ AtMost(adj.value, Whole(adj.upper - adj.size))

\* The value shows the position, as ShowsPosition says it.
Shows(d, g, adj, pos) ==
    Plus(Whole(GridOffset(d, g)), adj.value)
      = Clamped(Minus(Scaled(pos, DocumentHeight(d), 1), Frac(adj.size, 2)),
                Top, Whole(Max({0, DocumentHeight(d) - adj.size})))

\* The operators of Fractions give fractions.
LEMMA FracsClosed ==
    ASSUME NEW x \in Fracs, NEW y \in Fracs
    PROVE  /\ Plus(x, y) \in Fracs /\ Minus(x, y) \in Fracs
           /\ \A m \in Int, k \in Positive : Scaled(x, m, k) \in Fracs /\ Over(x, k) \in Fracs
           /\ Least(x, y) \in Fracs /\ Greatest(x, y) \in Fracs
           /\ \A z \in Fracs : Clamped(z, x, y) \in Fracs
<1>1. PICK a \in Int, b \in Positive : x = Frac(a, b)
  BY DEF Fracs
<1>2. PICK c \in Int, d \in Positive : y = Frac(c, d)
  BY DEF Fracs
<1>3. Plus(x, y) \in Fracs /\ Minus(x, y) \in Fracs
  <2>1. a * d + c * b \in Int /\ a * d - c * b \in Int /\ b * d \in Positive
    BY DEF Positive
  <2> QED BY <1>1, <1>2, <2>1, FracPlus DEF Fracs
<1>4. ASSUME NEW m \in Int, NEW k \in Positive
      PROVE  Scaled(x, m, k) \in Fracs /\ Over(x, k) \in Fracs
  <2>1. a * m \in Int /\ b * k \in Positive
    BY DEF Positive
  <2> QED BY <1>1, <2>1, FracScaled DEF Fracs
<1> QED BY <1>3, <1>4 DEF Least, Greatest, Clamped

\* Numbers are fractions.
LEMMA WholeInFracs ==
    ASSUME NEW n \in Int
    PROVE  Whole(n) \in Fracs
  BY WholeIsFrac, Constants DEF Fracs

\* So are halves of them.
LEMMA HalfInFracs ==
    ASSUME NEW n \in Int
    PROVE  Frac(n, 2) \in Fracs
  BY DEF Fracs, Positive

\* And one half.
LEMMA MiddleIsFrac == Middle = Frac(1, 2) /\ <<1, 2>> = Frac(1, 2) /\ Middle \in Fracs
<1>1. Gcd[2][1] = Gcd[1][2] /\ Gcd[1][2] = Gcd[0][1] /\ Gcd[0][1] = 1
  <2>1. 1 % 2 = 1 /\ 2 % 1 = 0
    OBVIOUS
  <2>2. Gcd[2][1] = Gcd[1 % 2][2] /\ Gcd[1][2] = Gcd[2 % 1][1] /\ Gcd[0][1] = 1
    BY GcdStep
  <2> QED BY <2>1, <2>2
<1>2. Size(1) = 1 /\ 1 \div 1 = 1 /\ 2 \div 1 = 2
  BY DEF Size
<1>3. Frac(1, 2) = <<1, 2>>
  BY <1>1, <1>2 DEF Frac, Divided
<1> QED BY <1>3, HalfInFracs DEF Middle

\* Nothing but 0 is between 0 and 0.
LEMMA ClampedToNought ==
    ASSUME NEW z \in Fracs
    PROVE  Clamped(z, Top, Top) = Top
<1>1. PICK a \in Int, b \in Positive : z = Frac(a, b)
  BY DEF Fracs
<1>2. (Less(z, Top) <=> a * 1 < 0 * b) /\ (Less(Top, z) <=> 0 * b < a * 1)
  BY <1>1, Constants, FracLess
<1>3. a = 0 => z = Top
  <2>1. a = 0 => a * 1 = 0 * b
    BY DEF Positive
  <2> QED BY <1>1, <2>1, FracEqual, Constants
<1> QED BY <1>2, <1>3 DEF Clamped, Positive

\* Where the top of a page is aligned: half of the view below it, or in its
\* middle if it is lower than the view.
LEMMA PlaceAtTop ==
    ASSUME NEW d \in Docs, NEW leaf, PageToRow(d, leaf) \in Nat
    PROVE  LET x == 2 * PageToRow(d, leaf) * RowStep(d) + d.cell - Excess(d)
           IN  x \in Int /\ PageToPosition(d, leaf, Top) = Frac(x, 2 * DocumentHeight(d))
<1> DEFINE h == DocumentHeight(d)
           step == RowStep(d)
           excess == Excess(d)
           row == PageToRow(d, leaf)
           y == 2 * row * step + d.cell
           x == y - excess
<1>0. /\ h \in Positive /\ step \in Positive /\ excess \in Int
      /\ d.cell \in Positive
  BY DocumentSizes DEF Excess, Positive
<1>1. y \in Int
  BY <1>0 DEF Positive
<1>11. x = 2 * PageToRow(d, leaf) * RowStep(d) + d.cell - Excess(d)
  <2> DEFINE z == 2 * row * step
  <2>1. z \in Int
    BY <1>0 DEF Positive
  <2> HIDE DEF z
  <2>2. z + d.cell - excess = (z + d.cell) - excess
    BY <1>0, <2>1 DEF Positive
  <2> QED BY <2>2 DEF z
<1> HIDE DEF y, h, excess, step
<1>2. Minus(Frac(0, 1), Frac(1, 2)) = Frac(0 * 2 - 1 * 1, 1 * 2)
  <2>1. 0 \in Int /\ 1 \in Int /\ 1 \in Positive /\ 2 \in Positive
    BY DEF Positive
  <2> QED BY <2>1, FracPlus
<1>3. Minus(Top, <<1, 2>>) = Frac(-1, 2)
  BY <1>2, Constants, MiddleIsFrac
<1>4. Scaled(Frac(-1, 2), excess, 1) = Frac((-1) * excess, 2 * 1)
  <2>1. -1 \in Int /\ 2 \in Positive /\ 1 \in Positive
    BY DEF Positive
  <2> QED BY <1>0, <2>1, FracScaled
<1>5. Scaled(Frac(-1, 2), excess, 1) = Frac(-excess, 2)
  <2>1. (-1) * excess = -excess /\ 2 * 1 = 2
    BY <1>0
  <2> QED BY <1>4, <2>1
<1>6. Plus(Frac(y, 2), Frac(-excess, 2)) = Frac(y * 2 + (-excess) * 2, 2 * 2)
  <2>1. -excess \in Int /\ 2 \in Positive
    BY <1>0 DEF Positive
  <2> QED BY <1>1, <2>1, FracPlus
<1>7. Frac(y * 2 + (-excess) * 2, 2 * 2) = Frac(y - excess, 2)
  <2>1. y * 2 + (-excess) * 2 = 2 * (y - excess) /\ y - excess \in Int /\ 2 \in Positive
    BY <1>0, <1>1 DEF Positive
  <2> QED BY <2>1, FracScales
<1>8. Over(Frac(y - excess, 2), h) = Frac(y - excess, 2 * h)
  <2>1. y - excess \in Int /\ 2 \in Positive /\ 1 \in Int
    BY <1>0, <1>1 DEF Positive
  <2> QED BY <1>0, <2>1, FracScaled
<1>9. PageToPosition(d, leaf, Top) = Over(Plus(Frac(y, 2), Scaled(Minus(Top, <<1, 2>>), excess, 1)), h)
  BY DEF PageToPosition, y, h, excess, row, step
<1>10. PageToPosition(d, leaf, Top) = Frac(x, 2 * h) /\ x \in Int
  BY <1>0, <1>1, <1>3, <1>5, <1>6, <1>7, <1>8, <1>9
<1> HIDE DEF x
<1> QED BY <1>10, <1>11, Zenon DEF h

\* The grid begins as many pixels down the document as GridOffset says.
LEMMA GridStartIs ==
    ASSUME NEW d \in Docs, NEW g \in Grids, Inside(g, d)
    PROVE  GridStart(d, g) = Frac(GridOffset(d, g), DocumentHeight(d))
<1> DEFINE h == DocumentHeight(d)
           step == RowStep(d)
           excess == Excess(d)
           x(row) == 2 * row * step + d.cell - excess
           at(row) == Over(Plus(Frac(2 * row * step + d.cell, 2),
                                Scaled(Minus(Top, <<1, 2>>), excess, 1)), h)
<1>0. /\ h \in Positive /\ step \in Positive /\ excess \in Int
      /\ d.cell \in Positive /\ d.ncol \in 1 .. 2 /\ FirstColumn(d) \in 1 .. d.ncol
      /\ g.start \in Nat
  BY DocumentSizes DEF Docs, Excess, Positive, Grids
<1>1. PageToRow(d, 0) = 0 /\ PageToRow(d, RowFirstPage(d, g.start)) = g.start
  <2>1. CASE d.ncol = 1
    BY <1>0, <2>1 DEF PageToRow, RowFirstPage
  <2>2. CASE d.ncol = 2 /\ FirstColumn(d) = 1
    BY <1>0, <2>2 DEF PageToRow, RowFirstPage
  <2>3. CASE d.ncol = 2 /\ FirstColumn(d) = 2
    BY <1>0, <2>3 DEF PageToRow, RowFirstPage
  <2> QED BY <1>0, <2>1, <2>2, <2>3
<1>2. GridStart(d, g) = Minus(at(g.start), at(0))
  BY <1>1 DEF GridStart, PageToPosition
<1>3. /\ at(g.start) = PageToPosition(d, RowFirstPage(d, g.start), Top)
      /\ at(0) = PageToPosition(d, 0, Top)
  BY <1>1 DEF PageToPosition
<1> HIDE DEF at
<1>4. at(g.start) = Frac(x(g.start), 2 * h) /\ at(0) = Frac(x(0), 2 * h)
      /\ x(g.start) \in Int /\ x(0) \in Int
  <2>1. 0 \in Nat
    OBVIOUS
  <2> QED BY <1>0, <1>1, <1>3, <2>1, PlaceAtTop
<1> DEFINE a == x(g.start)
           b == x(0)
           k == 2 * h
           off == g.start * step
<1>5. a - b = 2 * off /\ a \in Int /\ b \in Int /\ k \in Positive /\ off \in Int
  BY <1>0, <1>4 DEF Positive
<1>6. at(g.start) = Frac(a, k) /\ at(0) = Frac(b, k)
  BY <1>4
<1>7. k = 2 * h
  OBVIOUS
<1> HIDE DEF a, b, k, off, h, x
<1>8. Minus(Frac(a, k), Frac(b, k)) = Frac(a * k - b * k, k * k)
  BY <1>5, FracPlus
<1>9. Frac(a * k - b * k, k * k) = Frac(off, h)
  <2>1. a * k - b * k = (2 * k) * off
    <3>1. a * k - b * k = (a - b) * k
      BY <1>5 DEF Positive
    <3> QED BY <1>5, <3>1 DEF Positive
  <2>2. k * k = (2 * k) * h
    BY <1>0, <1>7 DEF Positive
  <2>3. 2 * k \in Positive
    BY <1>5 DEF Positive
  <2> QED BY <1>0, <1>5, <2>1, <2>2, <2>3, FracScales
<1> QED BY <1>2, <1>6, <1>8, <1>9 DEF off, h, GridOffset

-----------------------------------------------------------------------------
(***************************************************************************)
(* The value that GTK has, and the position that is taken from it.         *)
(***************************************************************************)

\* A grid in a document, and an adjustment with its bounds.
Fitted(d, g, adj) ==
    /\ d \in Docs /\ g \in Grids /\ adj \in Adjs
    /\ Inside(g, d) /\ Fills(g, d) /\ ValueInBounds(adj)
    /\ adj.upper = Max({GridHeight(d, g), adj.size})

\* The grid is in the document, and the view in the grid, or the grid is all of
\* the document and lower than the view.
LEMMA FittedSizes ==
    ASSUME NEW d, NEW g, NEW adj, Fitted(d, g, adj)
    PROVE  LET height == GridHeight(d, g)
               off == GridOffset(d, g)
           IN  /\ height \in Positive /\ off \in Nat /\ adj.size \in Positive
               /\ height = g.count * RowStep(d) - Padding /\ off = g.start * RowStep(d)
               /\ off + height <= DocumentHeight(d)
               /\ g.start + g.count = Rows(d) => off + height = DocumentHeight(d)
               /\ \/ height >= adj.size /\ adj.upper = height
                  \/ /\ height < adj.size /\ adj.upper = adj.size /\ adj.value = Top
                     /\ g.start = 0 /\ off = 0 /\ height = DocumentHeight(d)
<1> DEFINE step == RowStep(d)
           n == Rows(d)
           c == g.count
           s == g.start
           height == GridHeight(d, g)
           off == GridOffset(d, g)
           size == adj.size
<1>0. /\ d \in Docs /\ c \in Nat /\ c >= 1 /\ s \in Nat /\ s + c <= n
      /\ n \in Nat /\ step \in Positive /\ step = d.cell + Padding
      /\ d.cell \in Cells /\ d.cell \in Positive /\ Padding \in Positive
      /\ DocumentHeight(d) = n * step - Padding
      /\ size \in Windows /\ size \in Positive /\ adj.upper \in Nat /\ adj.value \in Fracs
  <2>1. /\ d \in Docs /\ g \in Grids /\ adj \in Adjs
        /\ c >= 1 /\ s + c <= n
    BY DEF Fitted, Inside
  <2>2. d.cell \in Cells /\ c \in Nat /\ s \in Nat
        /\ size \in Windows /\ adj.upper \in Nat /\ adj.value \in Fracs
    BY <2>1 DEF Docs, Grids, Adjs
  <2>3. /\ d.cell \in Positive /\ Padding \in Positive
        /\ step \in Positive /\ step = d.cell + Padding
        /\ n \in 1 .. NumPages /\ DocumentHeight(d) = n * step - Padding
    BY <2>1, DocumentSizes
  <2>4. size \in Positive
    BY <2>2, ViewAssumption DEF Positive
  <2>5. n \in Nat
    BY <2>3, PagesAssumption
  <2> QED BY <2>1, <2>2, <2>3, <2>4, <2>5
<1>1. height = c * step - Padding /\ off = s * step
  BY <1>0 DEF GridHeight, GridOffset, Height, RowStep, Positive
<1>2. c * step >= step /\ c * step \in Nat /\ s * step \in Nat
      /\ (s + c) * step = s * step + c * step /\ (s + c) * step <= n * step /\ n * step \in Nat
  <2> HIDE DEF c, s, n, step
  <2> QED BY <1>0 DEF Positive
<1>3. height \in Positive /\ off \in Nat
  BY <1>0, <1>1, <1>2 DEF Positive
<1>4. off + height <= DocumentHeight(d)
  BY <1>0, <1>1, <1>2 DEF Positive
<1>5. s + c = n => off + height = DocumentHeight(d)
  BY <1>0, <1>1, <1>2 DEF Positive
<1>6. adj.upper = IF height >= size THEN height ELSE size
  <2>1. height \in Int /\ size \in Int /\ adj.upper = Max({height, size})
    BY <1>0, <1>3 DEF Fitted, Positive
  <2> HIDE DEF height, size
  <2> QED BY <2>1, MaxOfTwo
<1>7. ASSUME height < size
      PROVE  adj.upper = size /\ adj.value = Top /\ s = 0 /\ off = 0 /\ height = DocumentHeight(d)
  <2>1. adj.upper = size
    BY <1>0, <1>3, <1>6, <1>7 DEF Positive
  <2>2. adj.value = Top
    <3>1. adj.upper - adj.size = 0
      BY <1>0, <2>1 DEF Positive
    <3>2. Whole(0) = Top
      BY DEF Whole, Top
    <3>3. ~Less(adj.value, Top) /\ ~Less(Top, adj.value)
      BY <3>1, <3>2 DEF Fitted, ValueInBounds, AtMost
    <3> QED BY <1>0, <3>3, ClampedToNought DEF Clamped
  <2>3. c = n
    <3>1. c # n => c * step >= size + Padding
      BY <1>0 DEF Fitted, Fills
    <3> QED BY <1>0, <1>1, <1>2, <1>7, <3>1 DEF Positive
  <2>4. s = 0
    BY <1>0, <2>3
  <2>5. off = 0
    BY <1>0, <1>1, <2>4 DEF Positive
  <2>6. height = DocumentHeight(d)
    BY <1>0, <1>1, <2>3
  <2> QED BY <2>1, <2>2, <2>4, <2>5, <2>6
<1>8. height >= size \/ height < size
  BY <1>0, <1>3 DEF Positive
<1> QED BY <1>0, <1>1, <1>3, <1>4, <1>5, <1>6, <1>7, <1>8

\* A grid lower than the view is the whole document, and begins at its top.
LEMMA LowGridShows ==
    ASSUME NEW d, NEW g, NEW adj, Fitted(d, g, adj), GridHeight(d, g) < adj.size,
           NEW pos \in Fracs
    PROVE  Shows(d, g, adj, pos)
<1>1. /\ GridOffset(d, g) = 0 /\ adj.value = Top /\ adj.size \in Positive
      /\ GridHeight(d, g) = DocumentHeight(d) /\ DocumentHeight(d) \in Positive
      /\ d \in Docs
  BY FittedSizes DEF Fitted, Positive
<1>2. Max({0, DocumentHeight(d) - adj.size}) = 0
  <2>1. DocumentHeight(d) - adj.size \in Int /\ DocumentHeight(d) - adj.size < 0
    BY <1>1 DEF Positive
  <2> QED BY <2>1, MaxOfTwo
<1>3. Whole(0) = Top
  BY DEF Whole, Top
<1>4. Plus(Top, Top) = Top
  <2>1. 0 \in Int /\ 1 \in Positive
    BY DEF Positive
  <2>2. Plus(Frac(0, 1), Frac(0, 1)) = Frac(0 * 1 + 0 * 1, 1 * 1)
    BY <2>1, FracPlus
  <2> QED BY <2>2, Constants
<1> DEFINE z == Minus(Scaled(pos, DocumentHeight(d), 1), Frac(adj.size, 2))
<1>5. z \in Fracs
  <2>1. DocumentHeight(d) \in Int /\ 1 \in Positive /\ adj.size \in Int
    BY <1>1 DEF Positive
  <2>2. Scaled(pos, DocumentHeight(d), 1) \in Fracs /\ Frac(adj.size, 2) \in Fracs
    BY <2>1, FracsClosed, HalfInFracs
  <2> QED BY <2>2, FracsClosed
<1> HIDE DEF z
<1>6. Clamped(z, Top, Top) = Top
  BY <1>5, ClampedToNought
<1> QED BY <1>1, <1>2, <1>3, <1>4, <1>6 DEF Shows, z

\* The position taken from a value is the one the value shows.
LEMMA RatioShows ==
    ASSUME NEW d, NEW g, NEW adj, Fitted(d, g, adj)
    PROVE  LET pos == Plus(Scaled(Plus(adj.value, Frac(adj.size, 2)), GridHeight(d, g),
                                  adj.upper * DocumentHeight(d)),
                           GridStart(d, g))
           IN  pos \in Fracs /\ Shows(d, g, adj, pos)
<1> DEFINE h == DocumentHeight(d)
           gh == GridHeight(d, g)
           off == GridOffset(d, g)
           s == adj.size
           up == adj.upper
           pos == Plus(Scaled(Plus(adj.value, Frac(s, 2)), gh, up * h), GridStart(d, g))
<1>0. /\ d \in Docs /\ g \in Grids /\ Inside(g, d) /\ adj.value \in Fracs
      /\ h \in Positive /\ gh \in Positive /\ off \in Nat /\ s \in Positive
      /\ off + gh <= h
  BY FittedSizes, DocumentSizes DEF Fitted, Adjs
<1>1. \/ gh >= s /\ up = gh
      \/ gh < s /\ up = s
  BY FittedSizes
<1>2. up \in Positive /\ up * h \in Positive
  BY <1>0, <1>1 DEF Positive
<1>3. GridStart(d, g) = Frac(off, h)
  BY <1>0, GridStartIs
<1>4. pos \in Fracs
  <2>1. Frac(off, h) \in Fracs /\ Frac(s, 2) \in Fracs
    <3>1. off \in Int /\ s \in Int
      BY <1>0 DEF Positive
    <3> HIDE DEF off, h, s
    <3> QED BY <1>0, <3>1, HalfInFracs DEF Fracs
  <2>2. gh \in Int
    BY <1>0 DEF Positive
  <2>3. Plus(adj.value, Frac(s, 2)) \in Fracs
    BY <1>0, <2>1, FracsClosed
  <2>4. Scaled(Plus(adj.value, Frac(s, 2)), gh, up * h) \in Fracs
    BY <1>2, <2>2, <2>3, FracsClosed
  <2> QED BY <1>3, <2>1, <2>4, FracsClosed
<1>5. CASE gh < s
  BY <1>4, <1>5, LowGridShows
<1>6. CASE gh >= s
  <2>0. up = gh
    BY <1>0, <1>1, <1>6 DEF Positive
  <2>1. PICK a \in Int, b \in Positive : adj.value = Frac(a, b)
    BY <1>0 DEF Fracs
  <2>2. 0 <= a /\ a <= (up - s) * b
    <3>1. ~Less(Frac(a, b), Frac(0, 1)) /\ ~Less(Frac(up - s, 1), Frac(a, b))
      BY <1>0, <1>2, <2>1, Constants, WholeIsFrac DEF Fitted, ValueInBounds, AtMost, Positive
    <3>2. up - s \in Int /\ 1 \in Positive /\ 0 \in Int
      BY <1>0, <1>2 DEF Positive
    <3>3. ~(a * 1 < 0 * b) /\ ~((up - s) * b < a * 1)
      BY <3>1, <3>2, FracLess
    <3> QED BY <3>2, <3>3 DEF Positive
  <2> DEFINE x == a * 2 + s * b
             m == a + off * b
  <2> HIDE DEF h, gh, off, s, up, pos
  <2>3. x \in Int /\ m \in Int /\ b * 2 \in Positive /\ 2 \in Positive /\ s \in Int /\ gh \in Int
    BY <1>0 DEF Positive
  <2>4. Plus(adj.value, Frac(s, 2)) = Frac(x, b * 2)
    BY <2>1, <2>3, FracPlus
  <2>5. Scaled(Frac(x, b * 2), gh, up * h) = Frac(x, (b * 2) * h)
    <3>1. Scaled(Frac(x, b * 2), gh, up * h) = Frac(x * gh, (b * 2) * (up * h))
      <4> HIDE DEF x
      <4> QED BY <1>2, <2>3, FracScaled
    <3>2. x * gh = gh * x /\ (b * 2) * (up * h) = gh * ((b * 2) * h) /\ (b * 2) * h \in Positive
      <4> HIDE DEF x
      <4> QED BY <1>0, <2>0, <2>3 DEF Positive
    <3>3. Frac(gh * x, gh * ((b * 2) * h)) = Frac(x, (b * 2) * h)
      <4> HIDE DEF x
      <4> QED BY <1>0, <2>3, <3>2, FracScales
    <3> QED BY <3>1, <3>2, <3>3
  <2>6. Plus(Frac(x, (b * 2) * h), Frac(off, h)) = Frac(x + off * (b * 2), (b * 2) * h)
    <3> DEFINE k == b * 2
    <3> HIDE DEF x, k
    <3>0. k \in Positive /\ x \in Int /\ k * h \in Positive /\ off \in Int
      BY <1>0, <2>3 DEF k, Positive
    <3>1. Plus(Frac(x, k * h), Frac(off, h)) = Frac(x * h + off * (k * h), (k * h) * h)
      BY <1>0, <3>0, FracPlus
    <3>2. x * h + off * (k * h) = h * (x + off * k) /\ (k * h) * h = h * (k * h)
          /\ x + off * k \in Int
      BY <1>0, <3>0 DEF Positive
    <3>3. Frac(h * (x + off * k), h * (k * h)) = Frac(x + off * k, k * h)
      BY <1>0, <3>0, <3>2, FracScales
    <3> QED BY <3>1, <3>2, <3>3 DEF k
  <2>7. pos = Frac(x + off * (b * 2), (b * 2) * h)
    BY <1>3, <2>4, <2>5, <2>6 DEF pos, s, gh, up, h
  <2>8. Scaled(pos, h, 1) = Frac(x + off * (b * 2), b * 2)
    <3> DEFINE k == b * 2
               y == x + off * k
    <3>0. k \in Positive /\ y \in Int /\ k * h \in Positive /\ h \in Int /\ 1 \in Positive
      BY <1>0, <2>3 DEF Positive
    <3> HIDE DEF x, k, y
    <3>1. Scaled(Frac(y, k * h), h, 1) = Frac(y * h, (k * h) * 1)
      BY <3>0, FracScaled
    <3>2. y * h = h * y /\ (k * h) * 1 = h * k
      BY <3>0 DEF Positive
    <3>3. Frac(h * y, h * k) = Frac(y, k)
      BY <1>0, <3>0, FracScales
    <3> QED BY <2>7, <3>1, <3>2, <3>3 DEF k, y
  <2>9. Minus(Scaled(pos, h, 1), Frac(s, 2)) = Frac(m, b)
    <3> DEFINE k == b * 2
               y == x + off * k
    <3>0. k \in Positive /\ y \in Int
      BY <1>0, <2>3 DEF Positive
    <3>1. Minus(Frac(y, k), Frac(s, 2)) = Frac(y * 2 - s * k, k * 2)
      <4> HIDE DEF x, k, y
      <4> QED BY <2>3, <3>0, FracPlus
    <3>2. y * 2 - s * k = 4 * m /\ k * 2 = 4 * b
      BY <1>0, <2>3 DEF Positive
    <3>3. Frac(4 * m, 4 * b) = Frac(m, b)
      <4>1. 4 \in Positive
        BY DEF Positive
      <4> HIDE DEF m
      <4> QED BY <2>3, <4>1, FracScales
    <3> QED BY <2>8, <3>1, <3>2, <3>3
  <2>10. Plus(Whole(off), adj.value) = Frac(m, b)
    <3>1. off \in Int /\ 1 \in Positive
      BY <1>0 DEF Positive
    <3>2. Plus(Frac(off, 1), Frac(a, b)) = Frac(off * b + a * 1, 1 * b)
      BY <3>1, FracPlus
    <3>3. off * b + a * 1 = m /\ 1 * b = b
      BY <1>0 DEF Positive
    <3> QED BY <2>1, <3>1, <3>2, <3>3, WholeIsFrac
  <2> DEFINE last == Max({0, h - s})
  <2>11. last = h - s /\ h - s \in Nat
    <3>1. h - s \in Int /\ h - s >= 0
      BY <1>0, <1>6 DEF Positive
    <3> QED BY <3>1, MaxOfTwo
  <2>12. Clamped(Frac(m, b), Top, Whole(last)) = Frac(m, b)
    <3>1. m >= 0 /\ m <= (h - s) * b
      <4>1. off * b >= 0 /\ off * b \in Int
        BY <1>0 DEF Positive
      <4>2. (off + (up - s)) * b <= (h - s) * b
        <5>1. off + (up - s) <= h - s /\ off + (up - s) \in Int /\ h - s \in Int
          BY <1>0, <2>0 DEF Positive
        <5> DEFINE u == off + (up - s)
                   w == h - s
        <5> HIDE DEF u, w
        <5>2. u * b <= w * b
          BY <5>1 DEF Positive, u, w
        <5> QED BY <5>2 DEF u, w
      <4>3. (off + (up - s)) * b = off * b + (up - s) * b /\ (up - s) * b \in Int
            /\ (h - s) * b \in Int
        BY <1>0, <2>0 DEF Positive
      <4> QED BY <2>2, <4>1, <4>2, <4>3
    <3> HIDE DEF m
    <3>2. (Less(Frac(m, b), Frac(0, 1)) <=> m * 1 < 0 * b)
          /\ (Less(Frac(h - s, 1), Frac(m, b)) <=> (h - s) * b < m * 1)
      <4>1. 0 \in Int /\ 1 \in Positive /\ h - s \in Int
        BY <2>11 DEF Positive
      <4> QED BY <2>3, <4>1, FracLess
    <3>3. ~Less(Frac(m, b), Top) /\ ~Less(Whole(last), Frac(m, b))
      <4>1. Whole(last) = Frac(h - s, 1)
        BY <2>11, WholeIsFrac
      <4>2. ~(m * 1 < 0 * b) /\ ~((h - s) * b < m * 1)
        <5>1. (h - s) * b \in Int
          BY <2>11 DEF Positive
        <5> QED BY <2>3, <3>1, <5>1 DEF Positive
      <4> QED BY <3>2, <4>1, <4>2, Constants
    <3> QED BY <3>3 DEF Clamped
  <2>13. Plus(Whole(off), adj.value)
           = Clamped(Minus(Scaled(pos, h, 1), Frac(s, 2)), Top, Whole(Max({0, h - s})))
    BY <2>9, <2>10, <2>12
  <2>14. Shows(d, g, adj, pos)
    BY <2>13 DEF Shows, h, off, s
  <2> QED BY <1>4, <2>14 DEF pos, s, gh, up, h
<1> QED BY <1>0, <1>4, <1>5, <1>6 DEF Positive

-----------------------------------------------------------------------------
(***************************************************************************)
(* The position that a handler has, and the value that is set for it.      *)
(***************************************************************************)

\* A fraction that is brought between 0 and a number of pixels.
LEMMA ClampedIs ==
    ASSUME NEW a \in Int, NEW b \in Positive, NEW n \in Nat
    PROVE  Clamped(Frac(a, b), Top, Whole(n))
             = IF a < 0 THEN Whole(0) ELSE IF n * b < a THEN Whole(n) ELSE Frac(a, b)
<1>1. n \in Int /\ 0 \in Int /\ 1 \in Positive
  BY DEF Positive
<1>2. Top = Whole(0) /\ Whole(0) = Frac(0, 1) /\ Whole(n) = Frac(n, 1)
  BY <1>1, Constants, WholeIsFrac
<1>3. (Less(Frac(a, b), Frac(0, 1)) <=> a * 1 < 0 * b)
      /\ (Less(Frac(n, 1), Frac(a, b)) <=> n * b < a * 1)
  BY <1>1, FracLess
<1>4. (Less(Frac(a, b), Top) <=> a < 0) /\ (Less(Whole(n), Frac(a, b)) <=> n * b < a)
  BY <1>2, <1>3 DEF Positive
<1> QED BY <1>2, <1>4 DEF Clamped

\* Adding to pixels.
LEMMA PixelsPlus ==
    ASSUME NEW m \in Int, NEW a \in Int, NEW b \in Positive
    PROVE  /\ Plus(Whole(m), Frac(a, b)) = Frac(m * b + a, b)
           /\ Plus(Whole(m), Whole(a)) = Whole(m + a)
<1>1. 1 \in Positive /\ m + a \in Int
  BY DEF Positive
<1>2. Plus(Frac(m, 1), Frac(a, b)) = Frac(m * b + a * 1, 1 * b)
  BY <1>1, FracPlus
<1>3. Plus(Frac(m, 1), Frac(a, 1)) = Frac(m * 1 + a * 1, 1 * 1)
  BY <1>1, FracPlus
<1>4. m * b + a * 1 = m * b + a /\ 1 * b = b /\ m * 1 + a * 1 = m + a /\ 1 * 1 = 1
  BY DEF Positive
<1> QED BY <1>1, <1>2, <1>3, <1>4, WholeIsFrac

\* The value that shows a position: it is in the bounds of the adjustment.
LEMMA ClampedInBounds ==
    ASSUME NEW adj \in Adjs, adj.size <= adj.upper, NEW z \in Fracs
    PROVE  LET value == Clamped(z, Top, Greatest(Top, Whole(adj.upper - adj.size)))
           IN  /\ value \in Fracs
               /\ Greatest(Top, Whole(adj.upper - adj.size)) = Whole(adj.upper - adj.size)
               /\ [adj EXCEPT !.value = value] \in Adjs
               /\ ValueInBounds([adj EXCEPT !.value = value])
<1> DEFINE n == adj.upper - adj.size
           value == Clamped(z, Top, Whole(n))
<1>0. n \in Nat /\ n \in Int
  <2>1. adj.size \in Nat /\ adj.upper \in Nat
    BY ViewAssumption DEF Adjs
  <2> QED BY <2>1
<1> HIDE DEF n
<1>2. Top \in Fracs /\ Whole(n) \in Fracs
  BY <1>0, Constants, WholeInFracs
<1>3. value \in Fracs
  BY <1>2, FracsClosed
<1>4. \A x \in Int, y \in Positive :
         (Less(Frac(x, y), Top) <=> x < 0) /\ (Less(Whole(n), Frac(x, y)) <=> n * y < x)
  <2> TAKE x \in Int, y \in Positive
  <2>1. 1 \in Positive /\ Top = Frac(0, 1) /\ Whole(n) = Frac(n, 1)
    BY <1>0, Constants, WholeIsFrac
  <2>2. (Less(Frac(x, y), Frac(0, 1)) <=> x * 1 < 0 * y)
        /\ (Less(Frac(n, 1), Frac(x, y)) <=> n * y < x * 1)
    BY <1>0, <2>1, FracLess
  <2> QED BY <2>1, <2>2 DEF Positive
<1>5. ~Less(Top, Top) /\ ~Less(Whole(n), Top) /\ ~Less(Whole(n), Whole(n))
  <2>1. 1 \in Positive /\ Top = Frac(0, 1) /\ Whole(n) = Frac(n, 1) /\ 0 \in Int
    BY <1>0, Constants, WholeIsFrac
  <2> QED BY <1>0, <1>4, <2>1 DEF Positive
<1>6. ~Less(value, Top) /\ ~Less(Whole(n), value)
  <2>2. 1 \in Positive /\ Whole(n) = Frac(n, 1)
    BY <1>0, Constants, WholeIsFrac
  <2>3. ~Less(Whole(n), Top) /\ (Less(Frac(n, 1), Top) <=> n < 0)
    BY <1>0, <1>4, <2>2
  <2> QED BY <1>0, <1>5, <2>2, <2>3 DEF Clamped
<1>7. Greatest(Top, Whole(n)) = Whole(n)
  <2>1. CASE Less(Top, Whole(n))
    BY <2>1 DEF Greatest
  <2>2. CASE ~Less(Top, Whole(n))
    <3>1. 0 \in Int /\ 1 \in Positive /\ Top = Frac(0, 1) /\ Whole(n) = Frac(n, 1)
      BY <1>0, Constants, WholeIsFrac
    <3>2. Less(Frac(0, 1), Frac(n, 1)) <=> 0 * 1 < n * 1
      BY <1>0, <3>1, FracLess
    <3>3. n = 0
      BY <1>0, <2>2, <3>1, <3>2
    <3> QED BY <3>1, <3>3 DEF Greatest
  <2> QED BY <2>1, <2>2
<1>8. [adj EXCEPT !.value = value] \in Adjs
  BY <1>3 DEF Adjs
<1>9. ValueInBounds([adj EXCEPT !.value = value])
  <2> DEFINE e == [adj EXCEPT !.value = value]
  <2> HIDE DEF value
  <2>1. e.value = value /\ e.size = adj.size /\ e.upper = adj.upper
    BY DEF Adjs
  <2> HIDE DEF e
  <2>2. ValueInBounds(e)
    BY <1>6, <2>1 DEF ValueInBounds, AtMost, n
  <2> QED BY <2>2 DEF e
<1> QED BY <1>3, <1>7, <1>8, <1>9 DEF n

\* In numbers: a is what the value would be, half pixels times q; it is below
\* the bounds of a grid that covers the position only at the document's top, and
\* beyond them only at its bottom.
LEMMA CoveredClamp ==
    ASSUME NEW d \in Docs, NEW g \in Grids, Inside(g, d), Covers(g, d),
           NEW p \in Int, NEW q \in Positive, d.pos = Frac(p, q)
    PROVE  LET a == 2 * (p * DocumentHeight(d)) - q * d.view - 2 * (q * GridOffset(d, g))
           IN  /\ a < 0 => g.start = 0
               /\ 2 * (q * (GridHeight(d, g) - d.view)) < a => g.start + g.count = Rows(d)
<1> DEFINE at == p * DocumentHeight(d)
           step == RowStep(d)
           s == g.start
           c == g.count
           e == s + c
<1>0. /\ at \in Int /\ step \in Int /\ s \in Int /\ c \in Int /\ step = d.cell + Padding
      /\ d.view \in Int /\ d.cell \in Int /\ Padding \in Int /\ q \in Int
      /\ d.cell >= 2 * Padding /\ d.cell > 0 /\ q > 0
  BY DocumentSizes DEF Grids, Positive
<1>1. GridOffset(d, g) = s * step /\ GridHeight(d, g) = c * step - Padding
  BY <1>0 DEF GridOffset, GridHeight, Height
<1>2. /\ s = 0 \/ 2 * (q * (s * step)) <= 2 * at - q * (d.view + d.cell)
      /\ e = Rows(d) \/ 2 * at + q * (d.view + d.cell) < 2 * (q * (e * step))
  BY CoversMeans
<1> DEFINE qs == q * (s * step)
           qc == q * (c * step)
           qv == q * d.view
           ql == q * d.cell
           qp == q * Padding
<1>3. /\ qs \in Int /\ qc \in Int /\ qv \in Int /\ ql \in Int /\ qp \in Int
      /\ q * (d.view + d.cell) = qv + ql /\ q * (e * step) = qs + qc
      /\ q * (c * step - Padding - d.view) = qc - qp - qv
  <2> HIDE DEF step, s, c
  <2> QED BY <1>0
<1>4. ql > 0 /\ ql >= 2 * qp
  <2> DEFINE l == d.cell
             k == Padding
  <2> HIDE DEF l, k
  <2>1. l \in Int /\ k \in Int /\ l >= 2 * k /\ l > 0
    BY <1>0 DEF l, k
  <2>2. q * l > 0
    BY <1>0, <2>1
  <2>3. q * l >= q * (2 * k)
    BY <1>0, <2>1
  <2>4. q * (2 * k) = 2 * (q * k)
    BY <1>0, <2>1
  <2> QED BY <2>2, <2>3, <2>4 DEF l, k
<1> HIDE DEF at, step, s, c, e, qs, qc, qv, ql, qp
<1>5. 2 * at - qv - 2 * qs < 0 => s = 0
  BY <1>0, <1>2, <1>3, <1>4 DEF qs
<1>6. 2 * (qc - qp - qv) < 2 * at - qv - 2 * qs => e = Rows(d)
  BY <1>0, <1>2, <1>3, <1>4
<1> QED BY <1>1, <1>3, <1>5, <1>6 DEF at, s, c, e, qs, qv

\* The value set for a position, in a grid that covers it, shows it.
LEMMA SetShows ==
    ASSUME NEW d, NEW g, NEW adj, Fitted(d, g, adj), d.view = adj.size, Covers(g, d)
    PROVE  LET ratio == Scaled(Minus(d.pos, GridStart(d, g)), DocumentHeight(d), GridHeight(d, g))
               value == Clamped(Minus(Scaled(ratio, adj.upper, 1), Frac(adj.size, 2)),
                                Top, Greatest(Top, Whole(adj.upper - adj.size)))
           IN  /\ value \in Fracs
               /\ Fitted(d, g, [adj EXCEPT !.value = value])
               /\ Shows(d, g, [adj EXCEPT !.value = value], d.pos)
<1> DEFINE h == DocumentHeight(d)
           gh == GridHeight(d, g)
           off == GridOffset(d, g)
           s == adj.size
           up == adj.upper
           ratio == Scaled(Minus(d.pos, GridStart(d, g)), h, gh)
           half == Minus(Scaled(ratio, up, 1), Frac(s, 2))
           value == Clamped(half, Top, Greatest(Top, Whole(up - s)))
           new == [adj EXCEPT !.value = value]
<1>0. /\ d \in Docs /\ g \in Grids /\ Inside(g, d) /\ adj \in Adjs /\ d.pos \in Fracs
      /\ h \in Positive /\ gh \in Positive /\ off \in Nat /\ s \in Positive
      /\ off + gh <= h /\ up \in Nat /\ s <= up
      /\ g.start + g.count = Rows(d) => off + gh = h
      /\ g.start = 0 => off = 0
      /\ gh >= s => up = gh
  <2>1. d \in Docs /\ g \in Grids /\ Inside(g, d) /\ adj \in Adjs /\ s <= up
    BY DEF Fitted, ValueInBounds
  <2>2. /\ gh \in Positive /\ off \in Nat /\ s \in Positive
        /\ off = g.start * RowStep(d) /\ off + gh <= h
        /\ g.start + g.count = Rows(d) => off + gh = h
        /\ (gh >= s /\ up = gh) \/ gh < s
    BY FittedSizes
  <2>3. h \in Positive /\ RowStep(d) \in Positive
    BY <2>1, DocumentSizes
  <2>4. up \in Nat /\ d.pos \in Fracs
    BY <2>1 DEF Adjs, Docs
  <2>5. gh >= s => up = gh
    BY <2>2 DEF Positive
  <2>6. g.start = 0 => off = 0
    BY <2>2, <2>3 DEF Positive
  <2> QED BY <2>1, <2>2, <2>3, <2>4, <2>5, <2>6
<1>1. PICK p \in Int, q \in Positive : d.pos = Frac(p, q)
  BY <1>0 DEF Fracs
<1> DEFINE at == p * h
           qoff == q * off
<1>2. at \in Int /\ qoff \in Int /\ h \in Int /\ gh \in Int /\ off \in Int /\ up \in Int
      /\ s \in Int /\ q \in Int /\ 1 \in Positive /\ 2 \in Positive
  BY <1>0 DEF Positive
<1>3. ratio = Frac(at - qoff, q * gh) /\ at - qoff \in Int /\ q * gh \in Positive
  <2>1. GridStart(d, g) = Frac(off, h)
    BY <1>0, GridStartIs
  <2> HIDE DEF h, gh, off
  <2>2. Minus(Frac(p, q), Frac(off, h)) = Frac(p * h - off * q, q * h)
    BY <1>0, <1>2, FracPlus
  <2>3. p * h - off * q = at - qoff /\ q * h \in Positive /\ at - qoff \in Int
    BY <1>0, <1>2 DEF Positive
  <2> HIDE DEF at, qoff
  <2>4. Scaled(Frac(at - qoff, q * h), h, gh) = Frac((at - qoff) * h, (q * h) * gh)
    <3> DEFINE x == at - qoff
               y == q * h
    <3>1. x \in Int /\ y \in Positive /\ h \in Int
      BY <1>2, <2>3
    <3> HIDE DEF x, y
    <3>2. Scaled(Frac(x, y), h, gh) = Frac(x * h, y * gh)
      BY <1>0, <3>1, FracScaled
    <3> QED BY <3>2 DEF x, y
  <2>5. (at - qoff) * h = h * (at - qoff) /\ (q * h) * gh = h * (q * gh) /\ q * gh \in Positive
    BY <1>0, <1>2, <2>3 DEF Positive
  <2>6. Frac(h * (at - qoff), h * (q * gh)) = Frac(at - qoff, q * gh)
    BY <1>0, <2>3, <2>5, FracScales
  <2> QED BY <1>1, <2>1, <2>2, <2>3, <2>4, <2>5, <2>6 DEF h, gh, off
<1>4. half \in Fracs
  <2>1. ratio \in Fracs
    <3> HIDE DEF at, qoff, gh, ratio
    <3> QED BY <1>3 DEF Fracs
  <2> HIDE DEF ratio
  <2>2. Scaled(ratio, up, 1) \in Fracs /\ Frac(s, 2) \in Fracs
    BY <1>2, <2>1, FracsClosed, HalfInFracs
  <2> QED BY <2>2, FracsClosed
<1>5. value \in Fracs /\ Greatest(Top, Whole(up - s)) = Whole(up - s) /\ Fitted(d, g, new)
  <2> HIDE DEF half
  <2>1. /\ value \in Fracs /\ Greatest(Top, Whole(up - s)) = Whole(up - s)
        /\ new \in Adjs /\ ValueInBounds(new)
    BY <1>0, <1>4, ClampedInBounds
  <2> HIDE DEF value
  <2>2. new.size = adj.size /\ new.upper = adj.upper
    BY DEF Adjs
  <2> QED BY <2>1, <2>2 DEF Fitted
<1>6. new.size = s /\ new.value = value
  BY <1>0 DEF Adjs
<1> SUFFICES Shows(d, g, new, d.pos)
  BY <1>5
<1>7. CASE gh < s
  <2> HIDE DEF value, new
  <2> QED BY <1>0, <1>5, <1>6, <1>7, LowGridShows
<1>8. CASE gh >= s
  <2> DEFINE a == 2 * at - q * s - 2 * qoff
             b == 2 * at - q * s
             k == 2 * q
             m == gh - s
             n == h - s
  <2>0. /\ a \in Int /\ b \in Int /\ k \in Positive /\ m \in Nat /\ n \in Nat /\ up = gh
        /\ b = a + k * off /\ off + m <= n
    <3>1. 2 * qoff = k * off
      BY <1>2
    <3> QED BY <1>0, <1>2, <1>8, <3>1 DEF Positive
  <2>1. half = Frac(a, k)
    <3>0. /\ at \in Int /\ qoff \in Int /\ up \in Int /\ s \in Int /\ q \in Int
          /\ 1 \in Positive /\ 2 \in Positive /\ at - qoff \in Int /\ q * gh \in Positive
          /\ gh \in Int /\ gh \in Positive /\ up = gh /\ ratio = Frac(at - qoff, q * gh)
      BY <1>0, <1>2, <1>3, <2>0
    <3> HIDE DEF at, qoff, gh, up, s, ratio
    <3>1. Scaled(Frac(at - qoff, q * gh), up, 1) = Frac((at - qoff) * up, (q * gh) * 1)
      BY <3>0, FracScaled
    <3>2. (at - qoff) * up = gh * (at - qoff) /\ (q * gh) * 1 = gh * q
      BY <3>0
    <3>3. Frac(gh * (at - qoff), gh * q) = Frac(at - qoff, q)
      BY <3>0, FracScales
    <3>4. Minus(Frac(at - qoff, q), Frac(s, 2)) = Frac((at - qoff) * 2 - s * q, q * 2)
      <4> DEFINE x == at - qoff
      <4>1. x \in Int
        BY <3>0
      <4> HIDE DEF x
      <4>2. Minus(Frac(x, q), Frac(s, 2)) = Frac(x * 2 - s * q, q * 2)
        BY <3>0, <4>1, FracPlus
      <4> QED BY <4>2 DEF x
    <3>5. (at - qoff) * 2 - s * q = a /\ q * 2 = k
      BY <3>0
    <3> QED BY <3>0, <3>1, <3>2, <3>3, <3>4, <3>5
  <2>2. Minus(Scaled(d.pos, h, 1), Frac(s, 2)) = Frac(b, k)
    <3>0. h \in Int /\ s \in Int /\ q \in Int /\ at \in Int /\ 1 \in Positive /\ 2 \in Positive
      BY <1>2
    <3> HIDE DEF h, s
    <3>1. Scaled(Frac(p, q), h, 1) = Frac(p * h, q * 1)
      BY <3>0, FracScaled
    <3>2. q * 1 = q
      BY <3>0
    <3> HIDE DEF at
    <3>3. Minus(Frac(at, q), Frac(s, 2)) = Frac(at * 2 - s * q, q * 2)
      BY <3>0, FracPlus
    <3>4. at * 2 - s * q = b /\ q * 2 = k
      BY <3>0
    <3> QED BY <1>1, <3>1, <3>2, <3>3, <3>4 DEF at
  <2>3. /\ a < 0 => off = 0
        /\ m * k < a => off + m = n
    <3>1. LET aa == 2 * (p * DocumentHeight(d)) - q * d.view - 2 * (q * GridOffset(d, g))
          IN  /\ aa < 0 => g.start = 0
              /\ 2 * (q * (GridHeight(d, g) - d.view)) < aa => g.start + g.count = Rows(d)
      BY <1>0, <1>1, CoveredClamp
    <3>2. /\ a < 0 => g.start = 0
          /\ 2 * (q * m) < a => g.start + g.count = Rows(d)
      BY <3>1
    <3>3. 2 * (q * m) = m * k
      BY <1>2, <2>0
    <3> QED BY <1>0, <1>2, <3>2, <3>3
  <2>4. value = Clamped(Frac(a, k), Top, Whole(m))
    BY <1>5, <2>0, <2>1
  <2>5. value = IF a < 0 THEN Whole(0) ELSE IF m * k < a THEN Whole(m) ELSE Frac(a, k)
    <3> HIDE DEF a, k, m, value
    <3> QED BY <2>0, <2>4, ClampedIs
  <2>6. Max({0, h - s}) = n
    <3> HIDE DEF h, s
    <3>1. n \in Int /\ n >= 0
      BY <2>0
    <3> QED BY <3>1, MaxOfTwo
  <2>7. Clamped(Frac(b, k), Top, Whole(n))
          = IF b < 0 THEN Whole(0) ELSE IF n * k < b THEN Whole(n) ELSE Frac(b, k)
    <3> HIDE DEF b, k, n
    <3> QED BY <2>0, ClampedIs
  <2>8. Plus(Whole(off), value) = Clamped(Frac(b, k), Top, Whole(n))
    <3> HIDE DEF a, b, k, m, n, off, value
    <3>1. k \in Nat /\ k > 0 /\ off \in Nat
      BY <1>0, <2>0 DEF Positive
    <3>2. CASE a < 0
      <4>1. off = 0 /\ b < 0 /\ value = Whole(0)
        BY <2>0, <2>3, <2>5, <3>1, <3>2
      <4>2. Plus(Whole(0), Whole(0)) = Whole(0 + 0)
        BY <1>2, PixelsPlus
      <4> QED BY <2>7, <4>1, <4>2
    <3>3. CASE a >= 0 /\ m * k < a
      <4>1. off + m = n /\ value = Whole(m)
        BY <2>0, <2>3, <2>5, <3>3
      <4>2. n * k = m * k + k * off /\ k * off \in Nat /\ m * k \in Nat
        BY <2>0, <3>1, <4>1
      <4>3. n * k < b /\ ~(b < 0)
        BY <2>0, <3>3, <4>2
      <4>4. Plus(Whole(off), Whole(m)) = Whole(off + m)
        BY <1>2, <2>0, PixelsPlus
      <4> QED BY <2>7, <4>1, <4>3, <4>4
    <3>4. CASE a >= 0 /\ ~(m * k < a)
      <4>1. value = Frac(a, k)
        BY <2>0, <2>5, <3>4
      <4>2. (off + m) * k <= n * k /\ (off + m) * k = k * off + m * k
            /\ k * off \in Nat /\ m * k \in Nat /\ n * k \in Nat
        <5> DEFINE u == off + m
        <5>1. u \in Nat /\ u <= n
          BY <2>0, <3>1
        <5> HIDE DEF u
        <5>2. u * k <= n * k
          BY <2>0, <3>1, <5>1
        <5> QED BY <2>0, <3>1, <5>2 DEF u
      <4>3. ~(b < 0) /\ ~(n * k < b)
        BY <2>0, <3>4, <4>2
      <4>4. Plus(Whole(off), Frac(a, k)) = Frac(off * k + a, k)
        BY <1>2, <2>0, PixelsPlus
      <4>5. off * k + a = b
        BY <2>0, <3>1
      <4> QED BY <2>7, <4>1, <4>3, <4>4, <4>5
    <3>5. a < 0 \/ (a >= 0 /\ m * k < a) \/ (a >= 0 /\ ~(m * k < a))
      BY <2>0
    <3> QED BY <3>2, <3>3, <3>4, <3>5
  <2>9. Plus(Whole(off), new.value)
          = Clamped(Minus(Scaled(d.pos, h, 1), Frac(new.size, 2)), Top, Whole(Max({0, h - new.size})))
    BY <1>6, <2>2, <2>6, <2>8
  <2> HIDE DEF new, value
  <2>10. Shows(d, g, new, d.pos)
    BY <2>9 DEF Shows, h, off
  <2> QED BY <2>10 DEF new
<1>9. gh < s \/ gh >= s
  BY <1>2
<1> QED BY <1>7, <1>8, <1>9

-----------------------------------------------------------------------------
(***************************************************************************)
(* What the parts of a handler keep.  Sound is the layout and the bounds;  *)
(* Synced is that the position is shown, as far as the code means to.      *)
(***************************************************************************)

Typed(v) == v \in Views /\ ValueInBounds(v.adj)

Placed(v) == Inside(v.grid, v.doc) /\ Fills(v.grid, v.doc)

\* Either GTK will lay the window out, or the adjustment is as it would make it.
Ready(v, height) == v.queued \/ (InBounds(v) /\ v.adj.size = height)

Sound(v, height) == Typed(v) /\ Placed(v) /\ Ready(v, height)

\* The view shows a position, unless its value was not set, or was set to other bounds.
Shown(v, pos) ==
    InBounds(v) /\ v.doc.view = v.adj.size => v.skipped \/ Shows(v.doc, v.grid, v.adj, pos)

Synced(v) == InDocument(v.doc.pos) => Shown(v, v.doc.pos)

\* What moving about in a document leaves as it is.
Alike(u, v) ==
    /\ u.adj.size = v.adj.size /\ u.doc.view = v.doc.view /\ u.doc.cell = v.doc.cell
    /\ u.doc.ncol = v.doc.ncol /\ u.doc.first = v.doc.first /\ u.doc.adjust = v.doc.adjust
    /\ v.queued => u.queued

\* What is stored in lowest terms is a fraction.
LEMMA ReducedInFracs ==
    ASSUME NEW x, Reduced(x)
    PROVE  x \in Fracs
<1>1. x = <<x[1], x[2]>> /\ x[1] \in Int /\ x[2] \in Positive /\ Gcd[x[2]][Size(x[1])] = 1
  BY DEF Reduced, Positive
<1>2. x[1] \div 1 = x[1] /\ x[2] \div 1 = x[2]
  BY <1>1 DEF Positive
<1>3. Frac(x[1], x[2]) = x
  BY <1>1, <1>2 DEF Frac, Divided
<1> QED BY <1>1, <1>3 DEF Fracs

\* The fields of a view.
LEMMA ViewFields ==
    ASSUME NEW v \in Views
    PROVE  /\ v.doc \in Docs /\ v.grid \in Grids /\ v.adj \in Adjs
           /\ v.queued \in BOOLEAN /\ v.skipped \in BOOLEAN
           /\ v.mode \in {"normal", "index", "presentation"}
  BY DEF Views

\* The fields of a document.
LEMMA DocFields ==
    ASSUME NEW d \in Docs
    PROVE  /\ d.cell \in Cells /\ d.view \in Windows /\ d.ncol \in 1 .. 2 /\ d.first \in 1 .. 2
           /\ d.x \in Columns /\ d.page \in Pages /\ d.adjust \in Adjusts /\ d.pos \in Fracs
  BY DEF Docs

\* What is in the layout and in the bounds is fitted.
LEMMA SoundFits ==
    ASSUME NEW v, Typed(v), Placed(v), InBounds(v)
    PROVE  Fitted(v.doc, v.grid, v.adj)
  BY ViewFields DEF Typed, Placed, InBounds, Fitted

\* The grid's height, and that of the document.
LEMMA GridSizes ==
    ASSUME NEW v, Typed(v), Placed(v)
    PROVE  /\ GridHeight(v.doc, v.grid) \in Positive /\ DocumentHeight(v.doc) \in Positive
           /\ v.adj.upper \in Positive /\ v.adj.size \in Positive /\ v.adj.value \in Fracs
           /\ GridStart(v.doc, v.grid) \in Fracs
<1> DEFINE d == v.doc
           g == v.grid
           step == RowStep(d)
<1>1. d \in Docs /\ g \in Grids /\ v.adj \in Adjs /\ Inside(g, d)
  BY ViewFields DEF Typed, Placed
<1>2. g.count \in Nat /\ g.count >= 1 /\ g.start \in Nat
  BY <1>1 DEF Inside, Grids
<1>3. step \in Positive /\ step = d.cell + Padding /\ d.cell \in Positive /\ Padding \in Positive
      /\ DocumentHeight(d) \in Positive
  BY <1>1, DocumentSizes
<1> HIDE DEF d, g, step
<1>4. GridHeight(d, g) = g.count * step - Padding /\ GridOffset(d, g) = g.start * step
  BY <1>2, <1>3 DEF GridHeight, Height, GridOffset, step, Positive, RowStep
<1>5. g.count * step >= step /\ g.count * step \in Nat /\ g.start * step \in Int
  BY <1>2, <1>3 DEF Positive
<1>6. GridHeight(d, g) \in Positive
  BY <1>3, <1>4, <1>5 DEF Positive
<1>7. GridStart(d, g) \in Fracs
  BY <1>1, <1>3, <1>4, <1>5, GridStartIs DEF Fracs
<1>8. v.adj.size \in Windows /\ v.adj.upper \in Nat /\ v.adj.value \in Fracs
      /\ v.adj.size <= v.adj.upper
  BY <1>1 DEF Adjs, Typed, ValueInBounds
<1>9. v.adj.size \in Positive /\ v.adj.upper \in Positive
  <2>1. v.adj.size \in Positive
    BY <1>8, ViewAssumption DEF Positive
  <2> QED BY <1>8, <2>1 DEF Positive
<1> QED BY <1>3, <1>6, <1>7, <1>8, <1>9 DEF d, g

\* What is computed from them are fractions.
LEMMA RatioInFracs ==
    ASSUME NEW v, Typed(v), Placed(v), NEW y \in Fracs
    PROVE  /\ Ratio(v) \in Fracs
           /\ Minus(Scaled(RatioInGrid(v, y), v.adj.upper, 1), Frac(v.adj.size, 2)) \in Fracs
<1> DEFINE gh == GridHeight(v.doc, v.grid)
           h == DocumentHeight(v.doc)
           s == v.adj.size
           up == v.adj.upper
           start == GridStart(v.doc, v.grid)
<1>1. /\ gh \in Positive /\ h \in Positive /\ up \in Positive /\ s \in Positive
      /\ v.adj.value \in Fracs /\ start \in Fracs
  BY GridSizes
<1>2. /\ gh \in Int /\ h \in Int /\ up \in Int /\ s \in Int /\ 1 \in Positive
      /\ up * h \in Positive
  BY <1>1 DEF Positive
<1> HIDE DEF gh, h, s, up, start
<1>3. Frac(s, 2) \in Fracs
  BY <1>2, HalfInFracs
<1>4. Plus(v.adj.value, Frac(s, 2)) \in Fracs
  BY <1>1, <1>3, FracsClosed
<1>5. Scaled(Plus(v.adj.value, Frac(s, 2)), gh, up * h) \in Fracs
  BY <1>2, <1>4, FracsClosed
<1>6. Ratio(v) \in Fracs
  BY <1>1, <1>5, FracsClosed DEF Ratio, gh, h, s, up, start
<1>7. Minus(y, start) \in Fracs
  BY <1>1, FracsClosed
<1>8. Scaled(Minus(y, start), h, gh) \in Fracs
  BY <1>1, <1>2, <1>7, FracsClosed
<1>9. Scaled(Scaled(Minus(y, start), h, gh), up, 1) \in Fracs
  BY <1>2, <1>8, FracsClosed
<1>10. Minus(Scaled(Scaled(Minus(y, start), h, gh), up, 1), Frac(s, 2)) \in Fracs
  BY <1>3, <1>9, FracsClosed
<1> QED BY <1>6, <1>10 DEF RatioInGrid, gh, h, s, up, start

\* The grid is within the document, and so is what is taken from a value.
LEMMA GridInDocument ==
    ASSUME NEW v, Typed(v), Placed(v)
    PROVE  /\ GridOffset(v.doc, v.grid) \in Nat
           /\ GridOffset(v.doc, v.grid) + GridHeight(v.doc, v.grid) <= DocumentHeight(v.doc)
<1> DEFINE d == v.doc
           step == RowStep(d)
           n == Rows(d)
           c == v.grid.count
           s == v.grid.start
<1>1. d \in Docs /\ v.grid \in Grids /\ Inside(v.grid, d)
  BY ViewFields DEF Typed, Placed
<1>2. c \in Nat /\ s \in Nat /\ s + c <= n /\ n \in Nat /\ step \in Nat /\ Padding \in Nat
      /\ step = d.cell + Padding /\ d.cell \in Nat /\ DocumentHeight(d) = n * step - Padding
  BY <1>1, DocumentSizes DEF Inside, Grids, Positive
<1>3. GridHeight(d, v.grid) = c * step - Padding /\ GridOffset(d, v.grid) = s * step
  BY <1>2 DEF GridHeight, Height, GridOffset, RowStep
<1> HIDE DEF d, step, n, c, s
<1>4. s * step \in Nat /\ c * step \in Int /\ n * step \in Int
      /\ (s + c) * step = s * step + c * step /\ (s + c) * step <= n * step
  BY <1>2
<1> QED BY <1>2, <1>3, <1>4 DEF d

\* zathura_document_widget_get_ratio, wherever the adjustment is, gives a
\* position in the document.
LEMMA RatioIsInside ==
    ASSUME NEW v, Typed(v), Placed(v)
    PROVE  InDocument(Ratio(v))
<1> DEFINE gh == GridHeight(v.doc, v.grid)
           h == DocumentHeight(v.doc)
           off == GridOffset(v.doc, v.grid)
           s == v.adj.size
           up == v.adj.upper
<1>1. /\ gh \in Positive /\ h \in Positive /\ up \in Positive /\ s \in Positive
      /\ off \in Nat /\ off + gh <= h
  BY GridSizes, GridInDocument
<1>2. s <= up /\ v.adj.value \in Fracs /\ ~Less(v.adj.value, Top) /\ ~Less(Whole(up - s), v.adj.value)
  BY GridSizes DEF Typed, ValueInBounds, AtMost
<1>3. GridStart(v.doc, v.grid) = Frac(off, h)
  BY ViewFields, GridStartIs DEF Typed, Placed
<1>4. PICK a \in Int, b \in Positive : v.adj.value = Frac(a, b)
  BY <1>2 DEF Fracs
<1>5. Ratio(v) = Plus(Scaled(Plus(Frac(a, b), Frac(s, 2)), gh, up * h), Frac(off, h))
  BY <1>3, <1>4 DEF Ratio
<1> HIDE DEF gh, h, off, s, up
<1>6. a >= 0 /\ a <= (up - s) * b
  <2>1. up - s \in Int /\ 1 \in Positive /\ 0 \in Int
    BY <1>1 DEF Positive
  <2>2. ~(a * 1 < 0 * b) /\ ~((up - s) * b < a * 1)
    BY <1>2, <1>4, <2>1, FracLess, Constants, WholeIsFrac
  <2> DEFINE w == (up - s) * b
  <2>3. w \in Int
    BY <2>1 DEF Positive
  <2> HIDE DEF w
  <2>4. 0 * b = 0 /\ a * 1 = a
    BY DEF Positive
  <2>5. a >= 0 /\ a <= w
    BY <2>2, <2>3, <2>4 DEF w
  <2> QED BY <2>5 DEF w
<1> DEFINE x == a * 2 + s * b
           k == b * 2
           m == k * (up * h)
           num == (x * gh) * h + off * m
<1>7. /\ x \in Nat /\ k \in Positive /\ gh \in Int /\ s \in Int /\ off \in Int
      /\ up * h \in Positive /\ 2 \in Positive
  <2>1. s * b \in Nat
    BY <1>1 DEF Positive
  <2>2. k \in Positive /\ gh \in Int /\ s \in Int /\ off \in Int /\ up * h \in Positive
    BY <1>1 DEF Positive
  <2> QED BY <1>6, <2>1, <2>2 DEF Positive
<1>8. Plus(Frac(a, b), Frac(s, 2)) = Frac(x, k)
  BY <1>7, FracPlus
<1>9. x <= k * up
  <2> DEFINE w == up - s
  <2>0. w \in Int /\ up = w + s /\ b \in Int /\ s \in Int /\ s * b >= 0
    BY <1>1 DEF Positive
  <2>1. a <= w * b /\ s * b \in Int
    BY <1>6, <2>0
  <2> HIDE DEF w
  <2>2. k * up = 2 * (w * b) + 2 * (s * b) /\ w * b \in Int
    BY <2>0
  <2> QED BY <2>0, <2>1, <2>2
<1> HIDE DEF x, k
<1>10. Scaled(Frac(x, k), gh, up * h) = Frac(x * gh, m) /\ m \in Positive /\ x * gh \in Int
  <2> DEFINE w == up * h
  <2>1. w \in Positive /\ x \in Int
    BY <1>7
  <2> HIDE DEF w
  <2>2. Scaled(Frac(x, k), gh, w) = Frac(x * gh, k * w)
    BY <1>7, <2>1, FracScaled
  <2>3. k * w \in Positive
    BY <1>7, <2>1 DEF Positive
  <2>4. x * gh \in Int
    BY <1>7, <2>1
  <2> QED BY <2>2, <2>3, <2>4 DEF w
<1> HIDE DEF m
<1>11. Plus(Frac(x * gh, m), Frac(off, h)) = Frac(num, m * h)
  <2> DEFINE y == x * gh
  <2> HIDE DEF y
  <2>1. y \in Int
    BY <1>10 DEF y
  <2>2. Plus(Frac(y, m), Frac(off, h)) = Frac(y * h + off * m, m * h)
    BY <1>1, <1>7, <1>10, <2>1, FracPlus
  <2> QED BY <2>2 DEF y
<1>12. num >= 0 /\ num <= m * h /\ num \in Int /\ m * h \in Positive
  <2> DEFINE ku == k * up
  <2>1. ku \in Nat /\ x <= ku /\ x \in Nat /\ h \in Nat /\ h > 0 /\ gh \in Nat /\ off \in Nat
        /\ off + gh <= h
    BY <1>1, <1>7, <1>9 DEF Positive
  <2>2. m = h * ku
    BY <1>1, <1>7 DEF Positive, m
  <2> HIDE DEF ku
  <2>3. num = h * (x * gh + off * ku) /\ m * h = h * (ku * h)
    BY <2>1, <2>2
  <2>4. x * gh <= ku * gh /\ x * gh \in Nat /\ off * ku \in Nat /\ ku * gh \in Nat /\ ku * h \in Nat
    BY <2>1
  <2>5. ku * gh + off * ku = ku * (off + gh) /\ ku * (off + gh) <= ku * h
    <3> DEFINE t == off + gh
    <3>1. t \in Nat /\ t <= h
      BY <2>1
    <3>2. ku * gh + off * ku = ku * t
      BY <2>1
    <3> HIDE DEF t
    <3>3. ku * t <= ku * h
      BY <2>1, <3>1
    <3> QED BY <3>2, <3>3 DEF t
  <2>6. x * gh + off * ku <= ku * h
    BY <2>4, <2>5
  <2> DEFINE p == x * gh + off * ku
             q == ku * h
  <2>7. p \in Nat /\ q \in Nat /\ p <= q
    BY <2>4, <2>6
  <2> HIDE DEF p, q
  <2>8. h * p <= h * q /\ h * p \in Nat
    BY <2>1, <2>7
  <2>9. m * h \in Positive
    BY <1>1, <1>10 DEF Positive
  <2> QED BY <2>3, <2>8, <2>9 DEF p, q
<1> HIDE DEF num
<1> QED BY <1>5, <1>8, <1>10, <1>11, <1>12, InDocumentMeans

-----------------------------------------------------------------------------
\* Rendering.

\* zathura_document_widget_render, with the position covered afterwards.
LEMMA RenderKeeps ==
    ASSUME SurfaceIsHigh, NEW height, NEW v, Typed(v),
           v.grid.stale \/ (Placed(v) /\ Ready(v, height))
    PROVE  LET u == Render(v)
           IN  /\ Sound(u, height)
               /\ u.doc = v.doc /\ u.adj = v.adj /\ u.mode = v.mode /\ Alike(u, v)
               /\ ~u.grid.stale /\ (InDocument(v.doc.pos) => Covers(u.grid, u.doc))
               /\ (u = v \/ u.skipped) /\ (v.grid.stale => u.queued)
<1> DEFINE g == RenderRange(v.doc)
           u == [v EXCEPT !.grid = g, !.queued = TRUE, !.skipped = TRUE]
<1>1. v.doc \in Docs
  BY ViewFields DEF Typed
<1>2. /\ g \in Grids /\ ~g.stale /\ Inside(g, v.doc) /\ Fills(g, v.doc)
      /\ InDocument(v.doc.pos) => Covers(g, v.doc)
  BY <1>1, RenderRangeCovers
<1> HIDE DEF g
<1>3. /\ u \in Views /\ u.doc = v.doc /\ u.adj = v.adj /\ u.mode = v.mode /\ u.grid = g
      /\ u.queued = TRUE /\ u.skipped = TRUE
  BY <1>2 DEF Typed, Views
<1> HIDE DEF u
<1>4. CASE v.grid.stale \/ ~Covers(v.grid, v.doc)
  <2>1. Render(v) = u
    BY <1>4 DEF Render, u, g
  <2> QED BY <1>2, <1>3, <2>1 DEF Sound, Typed, Placed, Ready, Alike
<1>5. CASE ~v.grid.stale /\ Covers(v.grid, v.doc)
  <2>1. Render(v) = v
    BY <1>5 DEF Render
  <2> QED BY <1>5, <2>1 DEF Sound, Alike
<1> QED BY <1>4, <1>5

\* The position taken from the value.
LEMMA MovedToKeeps ==
    ASSUME NEW height, NEW v, Sound(v, height)
    PROVE  LET u == MovedTo(v, Ratio(v))
           IN  /\ Sound(u, height) /\ Synced(u) /\ u.mode = v.mode /\ Alike(u, v)
               /\ u.grid = v.grid /\ u.adj = v.adj /\ InDocument(u.doc.pos)
<1> DEFINE pos == Ratio(v)
           to == PositionToPage(v.doc, v.doc.x, pos)
           d == [v.doc EXCEPT !.pos = pos, !.page = to]
           u == MovedTo(v, pos)
<1>1. v.doc \in Docs /\ v.doc.x \in Columns
  BY ViewFields, DocFields DEF Sound, Typed
<1>2. pos \in Fracs
  <2>1. Top \in Fracs
    BY Constants
  <2> QED BY <2>1, RatioInFracs DEF Sound
<1>10. InDocument(pos)
  BY RatioIsInside DEF Sound
<1> HIDE DEF pos
<1>3. to \in Pages
  BY <1>1, <1>2, PositionPage
<1> HIDE DEF to
<1>4. d \in Docs /\ d.pos = pos /\ d.cell = v.doc.cell /\ d.ncol = v.doc.ncol
      /\ d.first = v.doc.first /\ d.view = v.doc.view /\ d.adjust = v.doc.adjust
  BY <1>1, <1>2, <1>3 DEF Docs
<1>5. /\ u.doc = d /\ u.grid = v.grid /\ u.adj = v.adj /\ u.mode = v.mode
      /\ u.queued = v.queued /\ u \in Views
  <2>1. u = [v EXCEPT !.doc = d, !.skipped = FALSE]
    BY DEF MovedTo, u, d, to, Sound, Typed, Views
  <2> HIDE DEF d, u
  <2> QED BY <1>4, <2>1 DEF Sound, Typed, Views
<1> HIDE DEF d, u
<1>6. /\ Rows(d) = Rows(v.doc) /\ DocumentHeight(d) = DocumentHeight(v.doc)
      /\ GridHeight(d, v.grid) = GridHeight(v.doc, v.grid)
      /\ GridOffset(d, v.grid) = GridOffset(v.doc, v.grid)
  BY <1>4 DEF Rows, FirstColumn, DocumentHeight, Height, GridHeight, GridOffset, RowStep
<1>7. Sound(u, height)
  BY <1>5, <1>6 DEF Sound, Typed, Placed, Inside, Fills, Ready, InBounds
<1>8. Synced(u)
  <2>1. ASSUME InBounds(u)
        PROVE  Shows(d, v.grid, v.adj, pos)
    <3>1. InBounds(v)
      BY <1>5, <1>6, <2>1 DEF InBounds
    <3>2. Shows(v.doc, v.grid, v.adj, pos)
      <4>1. Fitted(v.doc, v.grid, v.adj)
        BY <3>1, SoundFits DEF Sound
      <4> QED BY <4>1, RatioShows DEF Ratio, pos
    <3> QED BY <1>6, <3>2 DEF Shows
  <2> QED BY <1>4, <1>5, <2>1 DEF Synced, Shown
<1>9. Alike(u, v)
  BY <1>4, <1>5 DEF Alike
<1> QED BY <1>10, <1>4, <1>5, <1>7, <1>8, <1>9 DEF u, pos

\* Another value.
LEMMA NewValueKeeps ==
    ASSUME NEW height, NEW v, Sound(v, height), NEW value,
           [v.adj EXCEPT !.value = value] \in Adjs,
           ValueInBounds([v.adj EXCEPT !.value = value])
    PROVE  LET u == [v EXCEPT !.adj.value = value]
           IN  /\ Sound(u, height) /\ u.doc = v.doc /\ u.grid = v.grid /\ u.mode = v.mode
               /\ u.skipped = v.skipped /\ u.adj = [v.adj EXCEPT !.value = value]
               /\ Alike(u, v) /\ u.queued = v.queued /\ (value = v.adj.value => u = v)
<1> DEFINE adj == [v.adj EXCEPT !.value = value]
           u == [v EXCEPT !.adj.value = value]
<1>1. adj.size = v.adj.size /\ adj.upper = v.adj.upper
      /\ (value = v.adj.value => adj = v.adj)
  BY ViewFields DEF Sound, Typed, Adjs
<1>2. u = [v EXCEPT !.adj = adj]
  BY DEF Sound, Typed, Views
<1> HIDE DEF u, adj
<1>3. /\ u \in Views /\ u.doc = v.doc /\ u.grid = v.grid /\ u.mode = v.mode /\ u.adj = adj
      /\ u.skipped = v.skipped /\ u.queued = v.queued /\ (adj = v.adj => u = v)
  BY <1>2 DEF Sound, Typed, Views, adj
<1>4. Sound(u, height)
  BY <1>1, <1>3 DEF Sound, Typed, Placed, Ready, InBounds, adj
<1>5. Alike(u, v)
  BY <1>1, <1>3 DEF Alike
<1> QED BY <1>1, <1>3, <1>4, <1>5 DEF u, adj

\* Being alike is transitive.
LEMMA AlikeAlike ==
    ASSUME NEW u, NEW v, NEW w, Alike(u, v), Alike(v, w)
    PROVE  Alike(u, w)
  BY DEF Alike

\* And reflexive.
LEMMA AlikeSelf == \A v : Alike(v, v)
  BY DEF Alike

\* The position follows a value that is set.
LEMMA SetAdjustmentKeeps ==
    ASSUME NEW height, NEW v, Sound(v, height), NEW value,
           [v.adj EXCEPT !.value = value] \in Adjs,
           ValueInBounds([v.adj EXCEPT !.value = value]),
           Synced([v EXCEPT !.adj.value = value]) \/ (v.mode # "index" /\ Synced(v))
    PROVE  LET u == SetAdjustment(v, value)
           IN  /\ Sound(u, height) /\ Synced(u) /\ u.mode = v.mode /\ Alike(u, v)
               /\ u.grid = v.grid /\ u.adj = [v.adj EXCEPT !.value = value]
               /\ InDocument(v.doc.pos) => InDocument(u.doc.pos)
<1> DEFINE w == [v EXCEPT !.adj.value = value]
           u == SetAdjustment(v, value)
           adj == [v.adj EXCEPT !.value = value]
<1>1. /\ Sound(w, height) /\ w.doc = v.doc /\ w.mode = v.mode /\ (value = v.adj.value => w = v)
      /\ Alike(w, v) /\ w.grid = v.grid /\ w.adj = adj
  BY NewValueKeeps
<1>2. Synced(w) \/ (v.mode # "index" /\ Synced(v))
  OBVIOUS
<1>3. u = IF value = v.adj.value THEN v ELSE ValueChanged(w)
  BY DEF SetAdjustment
<1> HIDE DEF w, u, adj
<1>4. CASE value = v.adj.value
  BY <1>1, <1>2, <1>3, <1>4 DEF u, adj
<1>5. CASE value # v.adj.value /\ w.mode = "index"
  <2>1. u = w
    BY <1>3, <1>5 DEF ValueChanged
  <2> QED BY <1>1, <1>2, <1>5, <2>1 DEF u, adj
<1>6. CASE value # v.adj.value /\ w.mode # "index"
  <2>1. u = MovedTo(w, Ratio(w))
    BY <1>3, <1>6 DEF ValueChanged
  <2>2. /\ Sound(u, height) /\ Synced(u) /\ u.mode = w.mode /\ Alike(u, w)
        /\ u.grid = w.grid /\ u.adj = w.adj /\ InDocument(u.doc.pos)
    BY <1>1, <2>1, MovedToKeeps
  <2>3. Alike(u, v)
    BY <1>1, <2>2, AlikeAlike
  <2> QED BY <1>1, <2>2, <2>3 DEF u, adj
<1> QED BY <1>4, <1>5, <1>6

\* Nothing but ShowsPosition depends on the value having been set.
LEMMA SkippedKeeps ==
    ASSUME NEW height, NEW v, Sound(v, height), NEW b \in BOOLEAN
    PROVE  LET u == [v EXCEPT !.skipped = b]
           IN  /\ Sound(u, height) /\ u.doc = v.doc /\ u.grid = v.grid /\ u.adj = v.adj
               /\ u.mode = v.mode /\ u.skipped = b /\ Alike(u, v)
<1> DEFINE u == [v EXCEPT !.skipped = b]
<1>1. /\ u \in Views /\ u.doc = v.doc /\ u.grid = v.grid /\ u.adj = v.adj
      /\ u.mode = v.mode /\ u.skipped = b /\ u.queued = v.queued
  BY DEF Sound, Typed, Views
<1> HIDE DEF u
<1>2. Sound(u, height)
  BY <1>1 DEF Sound, Typed, Placed, Ready, InBounds
<1> QED BY <1>1, <1>2 DEF u, Alike

\* A view shows what one with the same grid and adjustment shows.
LEMMA ShownAlike ==
    ASSUME NEW u, NEW v, NEW pos, Alike(u, v), u.grid = v.grid, u.adj = v.adj,
           Shown(v, pos), ~v.skipped
    PROVE  Shown(u, pos)
<1>1. /\ Rows(u.doc) = Rows(v.doc) /\ RowStep(u.doc) = RowStep(v.doc)
      /\ u.doc.cell = v.doc.cell /\ u.doc.view = v.doc.view
  BY DEF Alike, Rows, FirstColumn, RowStep
<1>2. /\ DocumentHeight(u.doc) = DocumentHeight(v.doc)
      /\ GridHeight(u.doc, u.grid) = GridHeight(v.doc, v.grid)
      /\ GridOffset(u.doc, u.grid) = GridOffset(v.doc, v.grid)
  BY <1>1 DEF DocumentHeight, GridHeight, Height, GridOffset
<1> QED BY <1>1, <1>2 DEF Shown, Shows, InBounds

\* A position is shown that the grid covers, or another one taken from the value.
LEMMA SetRenderedKeeps ==
    ASSUME NEW height, NEW v, Sound(v, height), NEW y \in Fracs,
           \/ y = v.doc.pos /\ (InDocument(y) => Covers(v.grid, v.doc))
           \/ y # v.doc.pos /\ v.mode # "index" /\ Synced(v)
    PROVE  LET u == SetRendered(v, y)
           IN  /\ Sound(u, height) /\ Synced(u) /\ u.mode = v.mode /\ Alike(u, v)
               /\ InDocument(v.doc.pos) => InDocument(u.doc.pos)
               /\ y = v.doc.pos /\ InDocument(y) => Shown(u, y)
<1> DEFINE ratio == RatioInGrid(v, y)
           z == Minus(Scaled(ratio, v.adj.upper, 1), Frac(v.adj.size, 2))
           value == Clamped(z, Top, Furthest(v))
           adj == [v.adj EXCEPT !.value = value]
           u == SetRendered(v, y)
           skipped == v.skipped /\ y # v.doc.pos
           w == [v EXCEPT !.skipped = skipped]
           x == [w EXCEPT !.adj.value = value]
<1>1. z \in Fracs
  BY RatioInFracs DEF Sound
<1>2. v.adj \in Adjs /\ v.adj.size <= v.adj.upper /\ v.skipped \in BOOLEAN
  BY ViewFields DEF Sound, Typed, ValueInBounds
<1>3. adj \in Adjs /\ ValueInBounds(adj)
  <2> HIDE DEF z
  <2> QED BY <1>1, <1>2, ClampedInBounds DEF Furthest
<1>4. u = IF ratio = Top THEN [v EXCEPT !.skipped = TRUE] ELSE SetAdjustment(w, value)
  BY DEF SetRendered, SetValueFromRatio
<1> HIDE DEF value, z
<1>5. /\ Sound(w, height) /\ w.doc = v.doc /\ w.grid = v.grid /\ w.adj = v.adj
      /\ w.mode = v.mode /\ w.skipped = skipped /\ Alike(w, v)
  BY <1>2, SkippedKeeps
<1> HIDE DEF w, u, ratio
<1>6. /\ x.doc = v.doc /\ x.grid = v.grid /\ x.adj = adj /\ x.skipped = skipped
      /\ Sound(x, height) /\ Alike(x, w) /\ x.queued = w.queued
  BY <1>3, <1>5, NewValueKeeps
<1>7. ASSUME y = v.doc.pos, InDocument(y), Covers(v.grid, v.doc)
      PROVE  Shown(x, y)
  <2>1. ASSUME InBounds(x), x.doc.view = x.adj.size
        PROVE  Shows(x.doc, x.grid, x.adj, y)
    <3>1. adj.size = v.adj.size /\ adj.upper = v.adj.upper
      BY <1>2 DEF Adjs
    <3>2. InBounds(v) /\ v.doc.view = v.adj.size
      BY <1>6, <2>1, <3>1 DEF InBounds
    <3>3. Fitted(v.doc, v.grid, v.adj)
      BY <3>2, SoundFits DEF Sound
    <3>4. value = Clamped(Minus(Scaled(Scaled(Minus(v.doc.pos, GridStart(v.doc, v.grid)),
                                              DocumentHeight(v.doc), GridHeight(v.doc, v.grid)),
                                       v.adj.upper, 1), Frac(v.adj.size, 2)),
                          Top, Greatest(Top, Whole(v.adj.upper - v.adj.size)))
      BY <1>7 DEF value, z, ratio, RatioInGrid, Furthest
    <3>5. Shows(v.doc, v.grid, adj, v.doc.pos)
      BY <1>7, <3>2, <3>3, <3>4, SetShows
    <3> QED BY <1>6, <1>7, <3>5
  <2> QED BY <2>1 DEF Shown
<1>8. Synced(x) \/ (w.mode # "index" /\ Synced(w))
  <2>1. CASE y = v.doc.pos /\ (InDocument(y) => Covers(v.grid, v.doc))
    BY <1>6, <1>7, <2>1 DEF Synced
  <2>2. CASE v.mode # "index" /\ Synced(v) /\ y # v.doc.pos
    <3>1. w.skipped = v.skipped
      BY <1>2, <1>5, <2>2
    <3> QED BY <1>5, <2>2, <3>1 DEF Synced, Shown, InBounds
  <2> QED BY <2>1, <2>2
<1>9. CASE ratio = Top
  <2> DEFINE t == [v EXCEPT !.skipped = TRUE]
  <2>1. Sound(t, height) /\ t.doc = v.doc /\ t.mode = v.mode /\ t.skipped = TRUE /\ Alike(t, v)
    BY SkippedKeeps
  <2>2. u = t
    BY <1>4, <1>9
  <2> HIDE DEF t
  <2> QED BY <2>1, <2>2 DEF Synced, Shown, u
<1>10. CASE ratio # Top
  <2>1. u = SetAdjustment(w, value)
    BY <1>4, <1>10
  <2>2. Synced([w EXCEPT !.adj.value = value]) \/ (w.mode # "index" /\ Synced(w))
    BY <1>8
  <2>3. [w.adj EXCEPT !.value = value] \in Adjs /\ ValueInBounds([w.adj EXCEPT !.value = value])
    BY <1>3, <1>5
  <2>4. /\ Sound(u, height) /\ Synced(u) /\ u.mode = w.mode /\ Alike(u, w)
        /\ u.grid = w.grid /\ u.adj = [w.adj EXCEPT !.value = value]
        /\ InDocument(w.doc.pos) => InDocument(u.doc.pos)
    BY <1>5, <2>1, <2>2, <2>3, SetAdjustmentKeeps
  <2> HIDE DEF x
  <2>5. u.grid = x.grid /\ u.adj = x.adj
    BY <1>5, <1>6, <2>4
  <2>6. Alike(u, v)
    BY <1>5, <2>4, AlikeAlike
  <2>7. Alike(u, x)
    BY <1>2, <1>5, <1>6, <2>4 DEF Alike
  <2>8. ASSUME y = v.doc.pos, InDocument(y)
        PROVE  Shown(u, y)
    <3>1. Covers(v.grid, v.doc) /\ ~x.skipped
      BY <1>6, <2>8
    <3> QED BY <1>7, <2>5, <2>7, <2>8, <3>1, ShownAlike
  <2> QED BY <1>5, <2>4, <2>6, <2>8 DEF u
<1> QED BY <1>9, <1>10

\* zathura_document_widget_set_value_from_ratio: where the position is set, it
\* is shown.
LEMMA SetValueKeeps ==
    ASSUME SurfaceIsHigh, NEW height, NEW v, Sound(v, height), NEW y \in Fracs,
           y = v.doc.pos \/ (v.mode # "index" /\ Synced(v))
    PROVE  LET u == SetValue(v, y)
           IN  /\ Sound(u, height) /\ Synced(u) /\ u.mode = v.mode /\ Alike(u, v)
               /\ InDocument(v.doc.pos) => InDocument(u.doc.pos)
               /\ y = v.doc.pos /\ InDocument(y) => Shown(u, y)
<1> DEFINE w == Render(v)
<1>1. /\ Sound(w, height) /\ w.doc = v.doc /\ w.adj = v.adj /\ w.mode = v.mode /\ Alike(w, v)
      /\ InDocument(v.doc.pos) => Covers(w.grid, w.doc)
      /\ w = v \/ w.skipped
  BY RenderKeeps DEF Sound
<1> HIDE DEF w
<1>2. Synced(v) => Synced(w)
  BY <1>1 DEF Synced, Shown
<1>3. \/ y = w.doc.pos /\ (InDocument(y) => Covers(w.grid, w.doc))
      \/ y # w.doc.pos /\ w.mode # "index" /\ Synced(w)
  BY <1>1, <1>2
<1>4. LET u == SetRendered(w, y)
      IN  /\ Sound(u, height) /\ Synced(u) /\ u.mode = w.mode /\ Alike(u, w)
          /\ InDocument(w.doc.pos) => InDocument(u.doc.pos)
          /\ y = w.doc.pos /\ InDocument(y) => Shown(u, y)
  BY <1>1, <1>3, SetRenderedKeeps
<1>5. Alike(SetRendered(w, y), v)
  BY <1>1, <1>4, AlikeAlike
<1> QED BY <1>1, <1>4, <1>5 DEF SetValue, w

\* Rendering keeps a view in step with its position, or the ghost is set.
LEMMA RenderSyncs ==
    ASSUME SurfaceIsHigh, NEW height, NEW v, Sound(v, height), Synced(v)
    PROVE  LET u == Render(v)
           IN  /\ Sound(u, height) /\ Synced(u) /\ u.mode = v.mode
               /\ u.doc = v.doc /\ Alike(u, v) /\ (u = v \/ u.skipped)
               /\ ~u.grid.stale /\ (InDocument(v.doc.pos) => Covers(u.grid, u.doc))
<1> DEFINE w == Render(v)
<1>1. /\ Sound(w, height) /\ w.doc = v.doc /\ w.mode = v.mode /\ Alike(w, v)
      /\ w = v \/ w.skipped
      /\ ~w.grid.stale /\ (InDocument(v.doc.pos) => Covers(w.grid, w.doc))
  BY RenderKeeps DEF Sound
<1> HIDE DEF w
<1>2. Synced(w)
  BY <1>1 DEF Synced, Shown
<1> QED BY <1>1, <1>2 DEF w

\* Whatever the view was like, refreshing it shows the position.
LEMMA RefreshViewKeeps ==
    ASSUME SurfaceIsHigh, NEW height, NEW v, Sound(v, height)
    PROVE  LET u == RefreshView(v)
           IN  /\ Sound(u, height) /\ Synced(u) /\ u.mode = v.mode /\ Alike(u, v)
               /\ InDocument(v.doc.pos) =>
                      /\ Shown(u, v.doc.pos) /\ ~u.grid.stale /\ Covers(u.grid, u.doc)
<1> DEFINE w == SetValue(v, v.doc.pos)
           u == Render(w)
<1>1. v.doc.pos \in Fracs
  BY ViewFields, DocFields DEF Sound, Typed
<1>2. /\ Sound(w, height) /\ Synced(w) /\ w.mode = v.mode /\ Alike(w, v)
      /\ InDocument(v.doc.pos) => InDocument(w.doc.pos) /\ Shown(w, v.doc.pos)
  BY <1>1, SetValueKeeps
<1> HIDE DEF w
<1>3. /\ Sound(u, height) /\ Synced(u) /\ u.mode = w.mode /\ Alike(u, w)
      /\ u = w \/ u.skipped
      /\ ~u.grid.stale /\ (InDocument(w.doc.pos) => Covers(u.grid, u.doc))
  BY <1>2, RenderSyncs
<1> HIDE DEF u
<1>4. Alike(u, v)
  BY <1>2, <1>3, AlikeAlike
<1>5. InDocument(v.doc.pos) => Shown(u, v.doc.pos)
  BY <1>2, <1>3 DEF Shown
<1> QED BY <1>2, <1>3, <1>4, <1>5 DEF RefreshView, w, u

-----------------------------------------------------------------------------
(***************************************************************************)
(* The same of position_set, page_set, adjust_view and the rest.           *)
(***************************************************************************)

\* The cells have the height adjust_view would give them.
Fit(v) == Size(Fitting(v) - v.doc.cell) <= MinChange

\* Either GTK will lay the window out, or there is nothing left for adjust_view.
Eased(v) == v.queued \/ Fit(v)

\* The view has the height it had.
Framed(u, v) == u.adj.size = v.adj.size /\ u.doc.view = v.doc.view

\* The grid is the one that shows the position, as far as the bounds allow.
Rests(v, pos) == Shown(v, pos) /\ ~v.grid.stale /\ Covers(v.grid, v.doc)

\* Where position_set goes.
Alignment == IF "vertical-center" \in settings THEN Middle ELSE Top

\* Alike views fit the window alike.
LEMMA AlikeFits ==
    ASSUME NEW u, NEW v, Alike(u, v)
    PROVE  Framed(u, v) /\ (Fit(v) => Fit(u)) /\ (Eased(v) => Eased(u))
<1>1. Fitting(u) = Fitting(v) /\ u.doc.cell = v.doc.cell
  BY DEF Alike, Fitting
<1> QED BY <1>1 DEF Alike, Framed, Fit, Eased

\* A cell that has the size it would get is left alone.
LEMMA NothingToFit ==
    ASSUME NEW v, v.doc.cell \in Int, Fitting(v) = v.doc.cell
    PROVE  Fit(v)
<1>1. Fitting(v) - v.doc.cell = 0
  OBVIOUS
<1> QED BY <1>1, ViewAssumption DEF Fit, Size

\* Another document in the same pages per row.
LEMMA NewDocKeeps ==
    ASSUME NEW v, Typed(v), Placed(v), NEW d \in Docs,
           d.ncol = v.doc.ncol, d.first = v.doc.first
    PROVE  LET u == [v EXCEPT !.doc = d]
           IN  /\ Typed(u) /\ Placed(u)
               /\ u.doc = d /\ u.grid = v.grid /\ u.adj = v.adj /\ u.mode = v.mode
               /\ u.queued = v.queued /\ u.skipped = v.skipped
               /\ \A height : d.cell = v.doc.cell /\ Sound(v, height) => Sound(u, height)
               /\ d.cell = v.doc.cell /\ d.pos = v.doc.pos /\ d.view = v.doc.view /\ Synced(v)
                    => Synced(u)
               /\ d.cell = v.doc.cell /\ d.view = v.doc.view /\ d.adjust = v.doc.adjust
                    => Alike(u, v)
               /\ d.view = v.doc.view => Framed(u, v)
<1> DEFINE u == [v EXCEPT !.doc = d]
<1>1. /\ u \in Views /\ u.doc = d /\ u.grid = v.grid /\ u.adj = v.adj /\ u.mode = v.mode
      /\ u.queued = v.queued /\ u.skipped = v.skipped
  BY DEF Typed, Views
<1> HIDE DEF u
<1>2. Rows(d) = Rows(v.doc)
  BY DEF Rows, FirstColumn
<1>3. Typed(u) /\ Placed(u)
  BY <1>1, <1>2 DEF Typed, Placed, Inside, Fills
<1>4. ASSUME d.cell = v.doc.cell
      PROVE  /\ GridHeight(d, v.grid) = GridHeight(v.doc, v.grid)
             /\ GridOffset(d, v.grid) = GridOffset(v.doc, v.grid)
             /\ DocumentHeight(d) = DocumentHeight(v.doc)
  BY <1>2, <1>4 DEF GridHeight, Height, GridOffset, RowStep, DocumentHeight
<1>5. ASSUME NEW height, d.cell = v.doc.cell, Sound(v, height)
      PROVE  Sound(u, height)
  BY <1>1, <1>3, <1>4, <1>5 DEF Sound, Ready, InBounds
<1>6. ASSUME d.cell = v.doc.cell, d.pos = v.doc.pos, d.view = v.doc.view, Synced(v)
      PROVE  Synced(u)
  BY <1>1, <1>4, <1>6 DEF Synced, Shown, InBounds, Shows
<1>7. /\ d.cell = v.doc.cell /\ d.view = v.doc.view /\ d.adjust = v.doc.adjust => Alike(u, v)
      /\ d.view = v.doc.view => Framed(u, v)
  BY <1>1 DEF Alike, Framed
<1> QED BY <1>1, <1>3, <1>5, <1>6, <1>7 DEF u

\* render_all: whatever was wrong, GTK will lay it out.
LEMMA RenderAllKeeps ==
    ASSUME NEW height, NEW v, Typed(v), Placed(v)
    PROVE  LET u == RenderAll(v)
           IN  /\ Sound(u, height) /\ u.mode = v.mode /\ u.doc = v.doc
               /\ u.queued /\ Alike(u, v) /\ (Synced(v) => Synced(u))
<1> DEFINE u == [v EXCEPT !.queued = TRUE]
<1>1. /\ u \in Views /\ u.doc = v.doc /\ u.grid = v.grid /\ u.adj = v.adj /\ u.mode = v.mode
      /\ u.queued = TRUE /\ u.skipped = v.skipped
  BY DEF Typed, Views
<1> HIDE DEF u
<1>2. Sound(u, height) /\ (Synced(v) => Synced(u))
  BY <1>1 DEF Sound, Typed, Placed, Ready, Synced, Shown, InBounds
<1>3. Alike(u, v)
  BY <1>1 DEF Alike
<1> QED BY <1>1, <1>2, <1>3 DEF u, RenderAll

\* A zoom leaves a grid in the document that fills the window.
LEMMA SetZoomKeeps ==
    ASSUME NEW v, Typed(v), Placed(v), NEW cell \in Cells
    PROVE  LET u == SetZoom(v, cell)
           IN  /\ Typed(u) /\ Placed(u) /\ u.mode = v.mode /\ Framed(u, v)
               /\ u.doc.cell = cell /\ u.doc.ncol = v.doc.ncol /\ u.doc.adjust = v.doc.adjust
<1> DEFINE d == [v.doc EXCEPT !.cell = cell]
<1>1. /\ d \in Docs /\ d.ncol = v.doc.ncol /\ d.first = v.doc.first /\ d.view = v.doc.view
      /\ d.cell = cell /\ d.adjust = v.doc.adjust
  BY ViewFields DEF Typed, Docs
<1>2. SetZoom(v, cell) = [v EXCEPT !.doc = d]
  BY DEF SetZoom, Typed, Views
<1> HIDE DEF d
<1> QED BY <1>1, <1>2, NewDocKeeps

\* A mode by itself changes nothing that is shown.
LEMMA SetAdjustModeKeeps ==
    ASSUME NEW height, NEW v, Sound(v, height), NEW adjust \in Adjusts
    PROVE  LET u == SetAdjustMode(v, adjust)
           IN  /\ Sound(u, height) /\ (Synced(v) => Synced(u)) /\ u.mode = v.mode
               /\ adjust = v.doc.adjust => Alike(u, v)
               /\ adjust \in {"none", "inputbar"} => Fit(u)
<1> DEFINE d == [v.doc EXCEPT !.adjust = adjust]
           u == [v EXCEPT !.doc = d]
<1>1. d \in Docs /\ d.ncol = v.doc.ncol /\ d.first = v.doc.first /\ d.cell = v.doc.cell
      /\ d.pos = v.doc.pos /\ d.view = v.doc.view /\ d.adjust = adjust /\ d.cell \in Int
  <2>1. v.doc.cell \in Int
    BY ViewFields, DocumentSizes DEF Sound, Typed, Positive
  <2> QED BY <2>1, ViewFields DEF Sound, Typed, Docs
<1>2. SetAdjustMode(v, adjust) = u
  BY DEF SetAdjustMode, Sound, Typed, Views
<1> HIDE DEF d
<1>3. /\ Sound(u, height) /\ (Synced(v) => Synced(u)) /\ u.mode = v.mode /\ u.doc = d
      /\ adjust = v.doc.adjust => Alike(u, v)
  BY <1>1, NewDocKeeps DEF Sound
<1> HIDE DEF u
<1>4. adjust \in {"none", "inputbar"} => Fit(u)
  <2>1. adjust \in {"none", "inputbar"} => Fitting(u) = u.doc.cell
    BY <1>1, <1>3 DEF Fitting
  <2> QED BY <1>1, <1>3, <2>1, NothingToFit
<1> QED BY <1>2, <1>3, <1>4

\* What adjust_view would make of a cell is the height of a cell.
LEMMA FittingIsCell ==
    ASSUME NEW v \in Views
    PROVE  Fitting(v) \in Cells
<1>1. v.doc.cell \in Cells /\ v.doc.ncol \in 1 .. 2 /\ v.doc.view \in Windows
  BY ViewFields, DocFields
<1>2. FitCell[v.doc.ncol] \in Cells /\ Min({FitCell[v.doc.ncol], v.doc.view}) \in Cells
  BY <1>1, ViewAssumption
<1> QED BY <1>1, <1>2 DEF Fitting

\* adjust_view does nothing, or sets the zoom and refreshes.
LEMMA AdjustViewKeeps ==
    ASSUME SurfaceIsHigh, NEW height, NEW v, Typed(v), Placed(v)
    PROVE  LET u == AdjustView(v)
           IN  /\ u = v \/ (Sound(u, height) /\ Synced(u))
               /\ Typed(u) /\ Placed(u) /\ u.mode = v.mode /\ Fit(u) /\ Framed(u, v)
<1> DEFINE cell == Fitting(v)
           z == SetZoom(v, cell)
           w == RenderAll(z)
           u == RefreshView(w)
<1>1. cell \in Cells /\ cell \in Int
  <2>1. cell \in Cells
    BY FittingIsCell DEF Typed
  <2> HIDE DEF cell
  <2> QED BY <2>1, ViewAssumption
<1>2. AdjustView(v) = IF Size(cell - v.doc.cell) > MinChange THEN u ELSE v
  BY DEF AdjustView
<1>3. Size(cell - v.doc.cell) > MinChange \/ Fit(v)
  <2>1. v.doc.cell \in Int
    BY ViewFields, DocumentSizes DEF Typed, Positive
  <2> HIDE DEF cell
  <2>2. Size(cell - v.doc.cell) \in Int
    BY <1>1, <2>1 DEF Size
  <2> QED BY <2>2, ViewAssumption DEF Fit, cell
<1>4. /\ Typed(z) /\ Placed(z) /\ z.mode = v.mode /\ Framed(z, v)
      /\ z.doc.cell = cell /\ z.doc.ncol = v.doc.ncol /\ z.doc.adjust = v.doc.adjust
  BY <1>1, SetZoomKeeps
<1>5. Fit(z)
  <2>1. Fitting(z) = cell
    BY <1>4 DEF Fitting, Framed
  <2> QED BY <1>1, <1>4, <2>1, NothingToFit
<1> HIDE DEF cell, z
<1>6. Sound(w, height) /\ w.mode = z.mode /\ Alike(w, z)
  BY <1>4, RenderAllKeeps
<1> HIDE DEF w
<1>7. Sound(u, height) /\ Synced(u) /\ u.mode = w.mode /\ Alike(u, w)
  BY <1>6, RefreshViewKeeps
<1> HIDE DEF u
<1>8. Fit(u) /\ Framed(u, v)
  BY <1>4, <1>5, <1>6, <1>7, AlikeFits DEF Framed
<1> QED BY <1>2, <1>3, <1>4, <1>6, <1>7, <1>8 DEF Sound, Framed

\* Adjusting the view keeps it in step with its position.
LEMMA AdjustViewSyncs ==
    ASSUME SurfaceIsHigh, NEW height, NEW v, Sound(v, height), Synced(v)
    PROVE  LET u == AdjustView(v)
           IN  Sound(u, height) /\ Synced(u) /\ u.mode = v.mode /\ Fit(u) /\ Framed(u, v)
  BY AdjustViewKeeps DEF Sound

\* A zoom, with what adjust_view makes of it.
LEMMA ZoomedKeeps ==
    ASSUME SurfaceIsHigh, NEW height, NEW v, Sound(v, height), NEW cell \in Cells
    PROVE  LET u == Zoomed(v, cell)
           IN  Sound(u, height) /\ u.mode = v.mode /\ Fit(u) /\ Framed(u, v)
<1> DEFINE w == SetZoom(v, cell)
           a == AdjustView(w)
           u == RenderAll(a)
<1>1. Typed(w) /\ Placed(w) /\ w.mode = v.mode /\ Framed(w, v)
  BY SetZoomKeeps DEF Sound
<1> HIDE DEF w
<1>2. Typed(a) /\ Placed(a) /\ a.mode = w.mode /\ Fit(a) /\ Framed(a, w)
  BY <1>1, AdjustViewKeeps
<1> HIDE DEF a
<1>3. Sound(u, height) /\ u.mode = a.mode /\ Alike(u, a)
  BY <1>2, RenderAllKeeps
<1> HIDE DEF u
<1>4. Fit(u) /\ Framed(u, v)
  BY <1>1, <1>2, <1>3, AlikeFits DEF Framed
<1> QED BY <1>1, <1>2, <1>3, <1>4 DEF Zoomed, u, a, w

\* Where a page is.
LEMMA PageIsSomewhere ==
    ASSUME NEW d \in Docs, NEW leaf \in Pages, NEW yalign \in Fracs
    PROVE  PageToPosition(d, leaf, yalign) \in Fracs /\ ColumnOf(d, leaf) \in Columns
<1> DEFINE h == DocumentHeight(d)
           top == 2 * PageToRow(d, leaf) * RowStep(d) + d.cell
           excess == Excess(d)
<1>1. /\ h \in Positive /\ RowStep(d) \in Int /\ d.cell \in Int /\ d.view \in Int
      /\ FirstColumn(d) \in Int
  BY DocumentSizes DEF Positive
<1>2. PageToRow(d, leaf) \in Int
  BY <1>1, DocFields, PagesAssumption DEF PageToRow, Pages
<1>3. top \in Int /\ excess \in Int /\ 1 \in Positive
  BY <1>1, <1>2 DEF Excess, Positive
<1> HIDE DEF h, top, excess
<1>4. Frac(top, 2) \in Fracs /\ <<1, 2>> \in Fracs
  BY <1>3, HalfInFracs, MiddleIsFrac
<1>5. Minus(yalign, <<1, 2>>) \in Fracs
  BY <1>4, FracsClosed
<1>6. Scaled(Minus(yalign, <<1, 2>>), excess, 1) \in Fracs
  BY <1>3, <1>5, FracsClosed
<1>7. Plus(Frac(top, 2), Scaled(Minus(yalign, <<1, 2>>), excess, 1)) \in Fracs
  BY <1>4, <1>6, FracsClosed
<1>8. Over(Plus(Frac(top, 2), Scaled(Minus(yalign, <<1, 2>>), excess, 1)), h) \in Fracs
  BY <1>1, <1>7, FracsClosed
<1> QED BY <1>8 DEF PageToPosition, ColumnOf, Columns, h, top, excess

\* position_set: the view is at rest at the position it is given.
LEMMA PositionSetKeeps ==
    ASSUME SurfaceIsHigh, NEW height, NEW v, Sound(v, height),
           NEW x \in Columns \cup {"auto"}, NEW y \in Fracs \cup {None}
    PROVE  LET u == PositionSet(v, x, y)
               pos == IF y # None THEN y ELSE PageToPosition(v.doc, v.doc.page, Alignment)
           IN  /\ Sound(u, height) /\ Synced(u) /\ u.mode = v.mode /\ Alike(u, v)
               /\ InDocument(pos) => Rests(u, pos)
<1> DEFINE middle == v.doc.adjust \in {"bestfit", "width"} \/ "zoom-center" \in settings
           align  == Alignment
           column == IF x # "auto" THEN x ELSE IF middle THEN "middle"
                     ELSE ColumnOf(v.doc, v.doc.page)
           pos == IF Negative(y) THEN PageToPosition(v.doc, v.doc.page, align) ELSE y
           meant == IF y # None THEN y ELSE PageToPosition(v.doc, v.doc.page, align)
           d == [v.doc EXCEPT !.x = column, !.pos = pos]
           w == [v EXCEPT !.doc = d]
<1>1. v.doc \in Docs /\ v.doc.page \in Pages
  BY ViewFields, DocFields DEF Sound, Typed
<1>2. align \in Fracs
  BY Constants, MiddleIsFrac DEF Alignment
<1> HIDE DEF align
<1>3. PageToPosition(v.doc, v.doc.page, align) \in Fracs /\ ColumnOf(v.doc, v.doc.page) \in Columns
  BY <1>1, <1>2, PageIsSomewhere
<1>4. pos \in Fracs /\ column \in Columns
  BY <1>3 DEF Columns, Negative
<1>5. InDocument(meant) => pos = meant
  BY DEF InDocument, AtMost, Negative
<1>6. PositionSet(v, x, y) = RefreshView([v EXCEPT !.doc.x = column, !.doc.pos = pos])
  BY DEF PositionSet, Alignment, align
<1> HIDE DEF pos, column, meant
<1>7. [v EXCEPT !.doc.x = column, !.doc.pos = pos] = w
  BY DEF Sound, Typed, Views
<1>8. /\ d \in Docs /\ d.ncol = v.doc.ncol /\ d.first = v.doc.first /\ d.cell = v.doc.cell
      /\ d.view = v.doc.view /\ d.adjust = v.doc.adjust /\ d.pos = pos
  BY <1>1, <1>4 DEF Docs
<1> HIDE DEF d
<1>9. Sound(w, height) /\ w.mode = v.mode /\ w.doc = d /\ Alike(w, v)
  BY <1>8, NewDocKeeps DEF Sound
<1> HIDE DEF w
<1> DEFINE u == RefreshView(w)
<1>10. /\ Sound(u, height) /\ Synced(u) /\ u.mode = w.mode /\ Alike(u, w)
       /\ InDocument(pos) => Rests(u, pos)
  BY <1>8, <1>9, RefreshViewKeeps DEF Rests
<1>11. PositionSet(v, x, y) = u
  BY <1>6, <1>7
<1> HIDE DEF u
<1>12. Alike(u, v)
  BY <1>9, <1>10, AlikeAlike
<1> QED BY <1>5, <1>9, <1>10, <1>11, <1>12 DEF meant, align

\* The number of the page is not in what the view shows.
LEMMA NewPageKeeps ==
    ASSUME NEW height, NEW v, Sound(v, height), NEW leaf \in Pages
    PROVE  LET u == [v EXCEPT !.doc.page = leaf]
           IN  Sound(u, height) /\ u.mode = v.mode /\ Alike(u, v) /\ u.doc.page = leaf
<1> DEFINE d == [v.doc EXCEPT !.page = leaf]
<1>1. /\ d \in Docs /\ d.ncol = v.doc.ncol /\ d.first = v.doc.first /\ d.cell = v.doc.cell
      /\ d.view = v.doc.view /\ d.adjust = v.doc.adjust /\ d.page = leaf
  BY ViewFields DEF Sound, Typed, Docs
<1> DEFINE u == [v EXCEPT !.doc = d]
<1>2. [v EXCEPT !.doc.page = leaf] = u
  BY DEF Sound, Typed, Views
<1> HIDE DEF d
<1>3. Sound(u, height) /\ u.mode = v.mode /\ Alike(u, v) /\ u.doc = d
  BY <1>1, NewDocKeeps DEF Sound
<1> QED BY <1>1, <1>2, <1>3

\* Where a page is does not depend on the position.
LEMMA SamePlaces ==
    ASSUME NEW u, NEW v, Alike(u, v), NEW leaf, NEW yalign
    PROVE  PageToPosition(u.doc, leaf, yalign) = PageToPosition(v.doc, leaf, yalign)
<1>1. FirstColumn(u.doc) = FirstColumn(v.doc) /\ u.doc.ncol = v.doc.ncol
      /\ u.doc.cell = v.doc.cell /\ u.doc.view = v.doc.view
  BY DEF Alike, FirstColumn
<1>2. /\ PageToRow(u.doc, leaf) = PageToRow(v.doc, leaf) /\ RowStep(u.doc) = RowStep(v.doc)
      /\ Excess(u.doc) = Excess(v.doc) /\ Rows(u.doc) = Rows(v.doc)
  BY <1>1 DEF PageToRow, RowStep, Excess, Rows
<1>3. DocumentHeight(u.doc) = DocumentHeight(v.doc)
  BY <1>1, <1>2 DEF DocumentHeight, Height
<1> QED BY <1>1, <1>2, <1>3 DEF PageToPosition

\* page_set, to the top of a page or to its middle.
LEMMA PageSetKeeps ==
    ASSUME SurfaceIsHigh, NEW height, NEW v, Sound(v, height), NEW leaf \in Pages
    PROVE  LET u == PageSet(v, leaf)
               pos == PageToPosition(v.doc, leaf, Alignment)
           IN  /\ Sound(u, height) /\ Synced(u) /\ u.mode = v.mode /\ Alike(u, v)
               /\ InDocument(pos) => Rests(u, pos)
<1> DEFINE w == [v EXCEPT !.doc.page = leaf]
           u == PositionSet(w, "auto", None)
           pos == PageToPosition(v.doc, leaf, Alignment)
<1>1. Sound(w, height) /\ w.mode = v.mode /\ Alike(w, v) /\ w.doc.page = leaf
  BY NewPageKeeps
<1>2. PageSet(v, leaf) = u
  BY DEF PageSet
<1> HIDE DEF w
<1>3. PageToPosition(w.doc, w.doc.page, Alignment) = pos
  BY <1>1, SamePlaces
<1> HIDE DEF pos
<1>4. /\ Sound(u, height) /\ Synced(u) /\ u.mode = w.mode /\ Alike(u, w)
      /\ InDocument(pos) => Rests(u, pos)
  BY <1>1, <1>3, PositionSetKeeps
<1> HIDE DEF u
<1>5. Alike(u, v)
  BY <1>1, <1>4, AlikeAlike
<1> QED BY <1>1, <1>2, <1>4, <1>5 DEF pos

\* A grid is made for another layout.
LEMMA SetLayoutKeeps ==
    ASSUME SurfaceIsHigh, NEW height, NEW v, Typed(v), NEW ncol \in 1 .. 2, NEW first \in 1 .. 2
    PROVE  LET u == SetLayout(v, ncol, first)
           IN  Sound(u, height) /\ Synced(u) /\ u.mode = v.mode /\ u.queued
<1> DEFINE d == [v.doc EXCEPT !.ncol = ncol, !.first = first]
           g == [v.grid EXCEPT !.stale = TRUE]
           w == [v EXCEPT !.doc = d, !.grid = g, !.skipped = TRUE]
<1>1. d \in Docs
  BY ViewFields DEF Typed, Docs
<1>2. g \in Grids /\ g.stale
  BY ViewFields DEF Typed, Grids
<1>3. [v EXCEPT !.doc.ncol = ncol, !.doc.first = first, !.grid.stale = TRUE, !.skipped = TRUE] = w
  BY DEF Typed, Views
<1> HIDE DEF d, g
<1>4. w \in Views /\ w.grid = g /\ w.adj = v.adj /\ w.mode = v.mode /\ w.skipped = TRUE
  BY <1>1, <1>2 DEF Typed, Views
<1> HIDE DEF w
<1>5. Typed(w) /\ w.grid.stale
  BY <1>2, <1>4 DEF Typed
<1> DEFINE u == Render(w)
<1>6. Sound(u, height) /\ u.mode = w.mode /\ u.queued /\ (u = w \/ u.skipped)
  BY <1>5, RenderKeeps
<1>7. SetLayout(v, ncol, first) = u
  BY <1>3 DEF SetLayout
<1> HIDE DEF u
<1>8. u.skipped
  BY <1>4, <1>6
<1> QED BY <1>4, <1>6, <1>7, <1>8 DEF Synced, Shown

-----------------------------------------------------------------------------
(***************************************************************************)
(* GTK laying out the window, and a document being opened.                 *)
(***************************************************************************)

\* The value that is left of one when the bounds are others.
LEMMA LeastInBounds ==
    ASSUME NEW adj \in Adjs, ValueInBounds(adj), NEW upper \in Nat, NEW size \in Windows,
           size <= upper
    PROVE  LET new == [value |-> Least(adj.value, Greatest(Top, Whole(upper - size))),
                       upper |-> upper, size |-> size]
           IN  new \in Adjs /\ ValueInBounds(new)
<1> DEFINE n == upper - size
           value == Least(adj.value, Greatest(Top, Whole(n)))
           other == [adj EXCEPT !.upper = upper, !.size = size]
           new == [value |-> value, upper |-> upper, size |-> size]
<1>1. n \in Nat /\ n \in Int /\ 1 \in Positive
  <2>1. size \in Nat
    BY ViewAssumption
  <2> QED BY <2>1 DEF Positive
<1>2. adj.value \in Fracs /\ ~Less(adj.value, Top)
  BY DEF Adjs, ValueInBounds, AtMost
<1>3. other \in Adjs /\ other.size = size /\ other.upper = upper
  BY DEF Adjs
<1> HIDE DEF other
<1>4. Greatest(Top, Whole(n)) = Whole(n)
  BY <1>2, <1>3, ClampedInBounds
<1> HIDE DEF n
<1>5. Whole(n) \in Fracs /\ ~Less(Whole(n), Top) /\ ~Less(Whole(n), Whole(n))
  <2>1. Whole(n) = Frac(n, 1) /\ Top = Frac(0, 1) /\ 0 \in Int
    BY <1>1, WholeIsFrac, Constants
  <2>2. (Less(Frac(n, 1), Frac(0, 1)) <=> n * 1 < 0 * 1)
        /\ (Less(Frac(n, 1), Frac(n, 1)) <=> n * 1 < n * 1)
    BY <1>1, <2>1, FracLess
  <2>3. Whole(n) \in Fracs
    BY <1>1, WholeInFracs
  <2> QED BY <1>1, <2>1, <2>2, <2>3
<1>6. value \in Fracs /\ ~Less(value, Top) /\ ~Less(Whole(n), value)
  <2>1. value = IF Less(adj.value, Whole(n)) THEN adj.value ELSE Whole(n)
    BY <1>4 DEF Least
  <2>2. Less(adj.value, Whole(n)) => ~Less(Whole(n), adj.value)
    <3>1. PICK a \in Int, b \in Positive : adj.value = Frac(a, b)
      BY <1>2 DEF Fracs
    <3>2. (Less(Frac(a, b), Frac(n, 1)) <=> a * 1 < n * b)
          /\ (Less(Frac(n, 1), Frac(a, b)) <=> n * b < a * 1)
      BY <1>1, FracLess
    <3>3. n * b \in Int
      BY <1>1 DEF Positive
    <3> QED BY <1>1, <3>1, <3>2, <3>3, WholeIsFrac
  <2> QED BY <1>2, <1>5, <2>1, <2>2
<1> HIDE DEF value
<1>7. new \in Adjs /\ new.value = value /\ new.upper = upper /\ new.size = size
  BY <1>6 DEF Adjs
<1> HIDE DEF new
<1>8. ValueInBounds(new)
  BY <1>6, <1>7 DEF ValueInBounds, AtMost, n
<1> QED BY <1>7, <1>8 DEF new, value, n

\* The layout GTK makes.
LEMMA ResizedKeeps ==
    ASSUME NEW v, Typed(v), Placed(v), window \in Windows
    PROVE  LET u == Resized(v, Max({GridHeight(v.doc, v.grid), window}))
           IN  /\ Sound(u, window) /\ u.mode = v.mode /\ u.doc = v.doc /\ u.grid = v.grid
               /\ u.skipped = v.skipped
<1> DEFINE gh == GridHeight(v.doc, v.grid)
           upper == Max({gh, window})
           adj == [value |-> Least(v.adj.value, Greatest(Top, Whole(upper - window))),
                   upper |-> upper, size |-> window]
           u == [v EXCEPT !.queued = FALSE, !.adj = adj]
<1>1. gh \in Positive /\ window \in Nat
  BY GridSizes, ViewAssumption
<1> HIDE DEF gh
<1>2. upper \in Nat /\ window <= upper
  <2>1. upper = IF gh >= window THEN gh ELSE window
    BY <1>1, MaxOfTwo DEF Positive
  <2> QED BY <1>1, <2>1 DEF Positive
<1>3. v.adj \in Adjs /\ ValueInBounds(v.adj)
  BY ViewFields DEF Typed
<1> HIDE DEF upper
<1>4. adj \in Adjs /\ ValueInBounds(adj) /\ adj.upper = upper /\ adj.size = window
  BY <1>2, <1>3, LeastInBounds
<1>5. Resized(v, upper) = u
  BY DEF Resized, Typed, Views
<1> HIDE DEF adj
<1>6. /\ u \in Views /\ u.doc = v.doc /\ u.grid = v.grid /\ u.adj = adj /\ u.mode = v.mode
      /\ u.skipped = v.skipped /\ u.queued = FALSE
  BY <1>4 DEF Typed, Views
<1> HIDE DEF u
<1>7. Sound(u, window)
  BY <1>4, <1>6 DEF Sound, Typed, Placed, Ready, InBounds, upper, gh
<1> QED BY <1>5, <1>6, <1>7 DEF upper, gh

\* cb_view_adjustment_changed.
LEMMA ChangedKeeps ==
    ASSUME SurfaceIsHigh, NEW height, NEW v, Sound(v, height)
    PROVE  LET u == Changed(v) IN Sound(u, height) /\ Synced(u) /\ u.mode = v.mode
<1>1. CASE v.doc.adjust = "inputbar"
  <2> DEFINE u == [v EXCEPT !.skipped = TRUE]
  <2>1. Sound(u, height) /\ u.skipped = TRUE /\ u.mode = v.mode
    BY SkippedKeeps
  <2>2. Changed(v) = u
    BY <1>1 DEF Changed
  <2> HIDE DEF u
  <2> QED BY <2>1, <2>2 DEF Synced, Shown
<1>2. CASE v.doc.adjust # "inputbar"
  <2> DEFINE d == [v.doc EXCEPT !.view = v.adj.size]
             w == [v EXCEPT !.doc = d]
  <2>0. v.doc \in Docs /\ v.adj.size \in Windows /\ v.doc.pos \in Fracs
    BY ViewFields, DocFields DEF Sound, Typed, Adjs
  <2>1. d \in Docs /\ d.ncol = v.doc.ncol /\ d.first = v.doc.first /\ d.cell = v.doc.cell
        /\ d.pos = v.doc.pos
    BY <2>0 DEF Docs
  <2>2. [v EXCEPT !.doc.view = v.adj.size] = w
    BY DEF Sound, Typed, Views
  <2> HIDE DEF d
  <2>3. Sound(w, height) /\ w.mode = v.mode /\ w.doc = d
    BY <2>1, NewDocKeeps DEF Sound
  <2> HIDE DEF w
  <2>4. LET u == SetValue(w, v.doc.pos) IN Sound(u, height) /\ Synced(u) /\ u.mode = w.mode
    BY <2>0, <2>1, <2>3, SetValueKeeps
  <2>5. Changed(v) = SetValue(w, v.doc.pos)
    BY <1>2, <2>2 DEF Changed
  <2> QED BY <2>3, <2>4, <2>5
<1> QED BY <1>1, <1>2

\* What "changed" and "value-changed" do of it.
LEMMA AllocatedKeeps ==
    ASSUME SurfaceIsHigh, NEW v, Typed(v), Placed(v), Synced(v), InBounds(v) \/ v.queued,
           v.mode # "index", window \in Windows
    PROVE  LET u == Allocated(v) IN Sound(u, window) /\ Synced(u) /\ u.mode = v.mode
<1> DEFINE r == Resized(v, Max({GridHeight(v.doc, v.grid), window}))
           same == r.adj.upper = v.adj.upper /\ r.adj.size = v.adj.size
           b == IF same THEN r ELSE Changed(r)
           moved == r.adj.value # v.adj.value
<1>1. /\ Sound(r, window) /\ r.mode = v.mode /\ r.doc = v.doc /\ r.grid = v.grid
      /\ r.skipped = v.skipped
  BY ResizedKeeps
<1>2. Allocated(v) = IF moved THEN ValueChanged(b) ELSE b
  BY DEF Allocated, ToldOfBounds, ToldOfValue
<1> HIDE DEF r
<1>3. Sound(b, window) /\ b.mode = v.mode
  BY <1>1, ChangedKeeps
<1>4. CASE moved
  <2>1. Allocated(v) = MovedTo(b, Ratio(b))
    BY <1>2, <1>3, <1>4 DEF ValueChanged
  <2> HIDE DEF b
  <2> QED BY <1>3, <2>1, MovedToKeeps
<1>5. CASE ~moved
  <2>1. Allocated(v) = b
    BY <1>2, <1>5
  <2>2. CASE same
    <3>1. b = r
      BY <2>2
    <3>2. Synced(r)
      BY <1>1, <1>5, <2>2 DEF Synced, Shown, InBounds, Shows
    <3> QED BY <1>1, <2>1, <3>1, <3>2
  <2>3. CASE ~same
    <3>1. b = Changed(r)
      BY <2>3
    <3> QED BY <1>1, <2>1, <3>1, ChangedKeeps
  <2> QED BY <2>2, <2>3
<1> QED BY <1>4, <1>5

-----------------------------------------------------------------------------
\* Opening.
LEMMA EmptyViewIs ==
    ASSUME NEW height \in Windows, NEW leaf \in Pages, NEW cell \in Cells,
           NEW adjust \in Adjusts
    PROVE  Typed(EmptyView(height, leaf, cell, adjust))
           /\ EmptyView(height, leaf, cell, adjust).mode = "normal"
<1> DEFINE d == [pos |-> Top, x |-> "left", page |-> leaf, cell |-> cell, ncol |-> 1,
                 first |-> 1, view |-> height, adjust |-> adjust]
           g == [start |-> 0, count |-> 0, stale |-> TRUE]
           adj == [value |-> Top, upper |-> height, size |-> height]
           v == EmptyView(height, leaf, cell, adjust)
<1>1. Top \in Fracs /\ height \in Nat
  BY Constants, ViewAssumption
<1>2. d \in Docs
  BY <1>1 DEF Docs, Columns
<1>3. g \in Grids
  BY DEF Grids
<1>4. adj \in Adjs /\ adj.size = height /\ adj.upper = height /\ adj.value = Top
  BY <1>1 DEF Adjs
<1>5. v = [doc |-> d, grid |-> g, adj |-> adj, queued |-> TRUE, mode |-> "normal",
           skipped |-> FALSE]
  BY DEF EmptyView
<1> HIDE DEF d, g, adj
<1>6. v \in Views /\ v.adj = adj /\ v.mode = "normal"
  BY <1>2, <1>3, <1>4, <1>5 DEF Views
<1>7. ValueInBounds(adj)
  <2>1. height - height = 0 /\ Whole(0) = Top
    BY <1>1 DEF Whole, Top
  <2>2. ~Less(Top, Top)
    BY DEF Less, Top
  <2> QED BY <1>1, <1>4, <2>1, <2>2 DEF ValueInBounds, AtMost
<1> QED BY <1>6, <1>7 DEF Typed

\* A document that has been opened.
LEMMA DocumentOpenIs ==
    ASSUME SurfaceIsHigh, NEW height \in Windows, NEW leaf \in Pages, NEW y \in Fracs \cup {None},
           NEW cell \in Cells, NEW ncol \in 1 .. 2, NEW first \in 1 .. 2, NEW adjust \in Adjusts
    PROVE  LET u == DocumentOpen(height, leaf, y, cell, ncol, first, adjust)
           IN  Sound(u, height) /\ Synced(u) /\ u.mode = "normal" /\ Eased(u)
<1> DEFINE v1 == EmptyView(height, leaf, cell, adjust)
           v2 == SetLayout(v1, ncol, first)
           v3 == AdjustView(v2)
           v4 == PageSet(v3, leaf)
<1>1. Typed(v1) /\ v1.mode = "normal"
  BY EmptyViewIs
<1> HIDE DEF v1
<1>2. Sound(v2, height) /\ Synced(v2) /\ v2.mode = "normal"
  BY <1>1, SetLayoutKeeps
<1> HIDE DEF v2
<1>3. Sound(v3, height) /\ v3.mode = "normal" /\ Fit(v3)
  BY <1>2, AdjustViewSyncs
<1> HIDE DEF v3
<1>4. Sound(v4, height) /\ Synced(v4) /\ v4.mode = "normal" /\ Alike(v4, v3)
  BY <1>3, PageSetKeeps
<1> HIDE DEF v4
<1> DEFINE v5 == PositionSet(v4, "auto", y)
<1>5. Sound(v5, height) /\ Synced(v5) /\ v5.mode = v4.mode /\ Alike(v5, v4)
  BY <1>4, PositionSetKeeps
<1>6. DocumentOpen(height, leaf, y, cell, ncol, first, adjust) = IF y = None THEN v4 ELSE v5
  BY DEF DocumentOpen, Restored, v1, v2, v3, v4
<1> HIDE DEF v5
<1>7. Eased(v4) /\ Eased(v5)
  BY <1>3, <1>4, <1>5, AlikeFits DEF Eased
<1> QED BY <1>4, <1>5, <1>6, <1>7

-----------------------------------------------------------------------------
(***************************************************************************)
(* A page that is asked for is in view around the position it is given.    *)
(***************************************************************************)

\* Where the row of a page begins, in pixels of the document.
PageTop(d, leaf) == PageToRow(d, leaf) * RowStep(d)

\* The view shows some of the page.
Seen(v, leaf) ==
    LET first == Plus(Whole(GridOffset(v.doc, v.grid)), v.adj.value)
        top == Whole(PageTop(v.doc, leaf))
    IN  /\ Less(top, Plus(first, Whole(v.adj.size)))
        /\ Less(first, Plus(top, Whole(v.doc.cell)))

\* In the document, and less than half a view from the page.
Aims(d, leaf, pos) ==
    /\ InDocument(pos)
    /\ \E p \in Int, q \in Positive :
          /\ pos = Frac(p, q * DocumentHeight(d))
          /\ q * (2 * PageTop(d, leaf)) < 2 * p + q * d.view
          /\ 2 * p - q * d.view < q * (2 * (PageTop(d, leaf) + d.cell))

\* A page is in a row of the document.
LEMMA PageRow ==
    ASSUME NEW d \in Docs, NEW leaf \in Pages
    PROVE  /\ PageToRow(d, leaf) \in 0 .. Rows(d) - 1
           /\ PageTop(d, leaf) \in Nat /\ PageTop(d, leaf) + d.cell <= DocumentHeight(d)
<1>1. leaf \in 0 .. NumPages - 1 /\ NumPages \in Nat /\ d.ncol \in 1 .. 2
      /\ FirstColumn(d) \in 1 .. d.ncol
  BY PagesAssumption, DocumentSizes DEF Pages, Docs
<1>2. PageToRow(d, leaf) \in 0 .. Rows(d) - 1
  <2>1. CASE d.ncol = 1
    BY <1>1, <2>1 DEF PageToRow, Rows
  <2>2. CASE d.ncol = 2 /\ FirstColumn(d) = 1
    BY <1>1, <2>2 DEF PageToRow, Rows
  <2>3. CASE d.ncol = 2 /\ FirstColumn(d) = 2
    BY <1>1, <2>3 DEF PageToRow, Rows
  <2> QED BY <1>1, <2>1, <2>2, <2>3
<1> DEFINE r == PageToRow(d, leaf)
           n == Rows(d)
           step == RowStep(d)
<1>3. /\ n \in Nat /\ step \in Nat /\ step = d.cell + Padding /\ Padding \in Nat /\ d.cell \in Nat
      /\ DocumentHeight(d) = n * step - Padding /\ PageTop(d, leaf) = r * step
      /\ r \in 0 .. n - 1
  BY <1>2, DocumentSizes DEF Positive, PageTop
<1> HIDE DEF r, n, step
<1>4. r * step \in Nat /\ (r + 1) * step = r * step + step /\ (r + 1) * step <= n * step
      /\ n * step \in Nat
  BY <1>3
<1>5. PageTop(d, leaf) + d.cell <= DocumentHeight(d)
  BY <1>3, <1>4
<1> QED BY <1>2, <1>3, <1>4, <1>5

\* What is less than a view below a pixel is still when the ends of the document
\* hold the pixel back.
LEMMA ClampedSees ==
    ASSUME NEW a \in Int, NEW b \in Positive, NEW n \in Nat, NEW top \in Nat,
           NEW cell \in Positive, NEW size \in Positive,
           top * b < a + size * b, a < (top + cell) * b, top + cell <= n + size
    PROVE  LET first == Clamped(Frac(a, b), Top, Whole(n))
           IN  Less(Whole(top), Plus(first, Whole(size)))
               /\ Less(first, Plus(Whole(top), Whole(cell)))
<1> DEFINE first == Clamped(Frac(a, b), Top, Whole(n))
<1> SUFFICES /\ Less(Whole(top), Plus(first, Whole(size)))
             /\ Less(first, Plus(Whole(top), Whole(cell)))
  OBVIOUS
<1>0. /\ top \in Int /\ size \in Int /\ cell \in Int /\ n \in Int /\ 1 \in Positive /\ 0 \in Int
      /\ top + cell \in Int /\ b \in Nat /\ b > 0 /\ size > 0 /\ cell > 0
  BY DEF Positive
<1>1. first = IF a < 0 THEN Whole(0) ELSE IF n * b < a THEN Whole(n) ELSE Frac(a, b)
  BY ClampedIs
<1> HIDE DEF first
<1>2. ASSUME NEW x \in Int, NEW y \in Positive, first = Frac(x, y)
      PROVE  /\ Less(Whole(top), Plus(first, Whole(size))) <=> top * y < x + size * y
             /\ Less(first, Plus(Whole(top), Whole(cell))) <=> x < (top + cell) * y
  <2>0. x + size * y \in Int
    BY <1>0 DEF Positive
  <2>1. Plus(first, Whole(size)) = Frac(x + size * y, y)
    <3>1. Plus(Frac(x, y), Frac(size, 1)) = Frac(x * 1 + size * y, y * 1)
      BY <1>0, FracPlus
    <3>2. x * 1 = x /\ y * 1 = y
      BY DEF Positive
    <3> QED BY <1>0, <1>2, <3>1, <3>2, WholeIsFrac
  <2>2. Plus(Whole(top), Whole(cell)) = Frac(top + cell, 1) /\ Whole(top) = Frac(top, 1)
    BY <1>0, PixelsPlus, WholeIsFrac
  <2> DEFINE z == x + size * y
             e == top + cell
  <2>3. z \in Int /\ e \in Int
    BY <1>0, <2>0
  <2> HIDE DEF z, e
  <2>4. Less(Frac(top, 1), Frac(z, y)) <=> top * y < z * 1
    BY <1>0, <2>3, FracLess
  <2>5. Less(Frac(x, y), Frac(e, 1)) <=> x * 1 < e * y
    BY <1>0, <2>3, FracLess
  <2>6. z * 1 = z /\ x * 1 = x
    BY <2>3
  <2> QED BY <1>2, <2>1, <2>2, <2>4, <2>5, <2>6 DEF z, e
<1>3. CASE a < 0
  <2>1. first = Frac(0, 1)
    BY <1>0, <1>1, <1>3, WholeIsFrac
  <2>2. top < size
    <3>1. top * b < size * b
      <4>1. size * b \in Int /\ top * b \in Int
        BY <1>0
      <4> QED BY <1>3, <4>1
    <3>2. top >= size => top * b >= size * b
      BY <1>0
    <3>3. size * b \in Int /\ top * b \in Int
      BY <1>0
    <3> QED BY <1>0, <3>1, <3>2, <3>3
  <2>3. top * 1 < 0 + size * 1 /\ 0 < (top + cell) * 1
    BY <1>0, <2>2
  <2> QED BY <1>0, <1>2, <2>1, <2>3
<1>4. CASE ~(a < 0) /\ n * b < a
  <2>1. first = Frac(n, 1)
    BY <1>0, <1>1, <1>4, WholeIsFrac
  <2>2. n < top + cell
    <3> DEFINE e == top + cell
    <3>1. e \in Nat /\ a < e * b
      BY <1>0
    <3> HIDE DEF e
    <3>2. n >= e => n * b >= e * b
      BY <1>0, <3>1
    <3>3. n * b \in Int /\ e * b \in Int
      BY <1>0, <3>1
    <3> QED BY <1>0, <1>4, <3>1, <3>2, <3>3 DEF e
  <2>3. top * 1 < n + size * 1 /\ n < (top + cell) * 1
    BY <1>0, <2>2
  <2> QED BY <1>0, <1>2, <2>1, <2>3
<1>5. CASE ~(a < 0) /\ ~(n * b < a)
  <2>1. first = Frac(a, b)
    BY <1>1, <1>5
  <2> QED BY <1>2, <2>1
<1> QED BY <1>3, <1>4, <1>5

\* A position that aims at a page shows some of it.
LEMMA AimShows ==
    ASSUME NEW v, Typed(v), InBounds(v), v.doc.view = v.adj.size, ~v.skipped,
           NEW leaf \in Pages, NEW pos, Aims(v.doc, leaf, pos), Shown(v, pos)
    PROVE  Seen(v, leaf)
<1> DEFINE d == v.doc
           h == DocumentHeight(d)
           top == PageTop(d, leaf)
           s == v.adj.size
           c == d.cell
           first == Plus(Whole(GridOffset(d, v.grid)), v.adj.value)
           n == Max({0, h - s})
<1>0. d \in Docs
  BY ViewFields DEF Typed
<1>1. /\ h \in Positive /\ s \in Positive /\ c \in Positive /\ d.view = s
      /\ top \in Nat /\ top + c <= h
  BY <1>0, DocumentSizes, PageRow
<1>2. first = Clamped(Minus(Scaled(pos, h, 1), Frac(s, 2)), Top, Whole(n))
  BY DEF Shown, Shows
<1>3. PICK p \in Int, q \in Positive :
         /\ pos = Frac(p, q * h)
         /\ q * (2 * top) < 2 * p + q * s
         /\ 2 * p - q * s < q * (2 * (top + c))
  BY DEF Aims
<1>4. Seen(v, leaf) <=> /\ Less(Whole(top), Plus(first, Whole(s)))
                        /\ Less(first, Plus(Whole(top), Whole(c)))
  BY DEF Seen
<1>5. n \in Nat /\ h <= n + s
  <2>1. h - s \in Int
    BY <1>1 DEF Positive
  <2>2. n = IF 0 >= h - s THEN 0 ELSE h - s
    BY <2>1, MaxOfTwo
  <2> HIDE DEF n, h, s
  <2> QED BY <1>1, <2>1, <2>2 DEF Positive
<1> HIDE DEF d, h, top, s, c, first, n
<1> DEFINE a == 2 * p - q * s
           b == q * 2
<1>6. a \in Int /\ b \in Positive
  BY <1>1 DEF Positive
<1>7. Minus(Scaled(pos, h, 1), Frac(s, 2)) = Frac(a, b)
  <2>0. h \in Int /\ s \in Int /\ 1 \in Positive /\ 2 \in Positive /\ q * h \in Positive
    BY <1>1 DEF Positive
  <2>1. Scaled(Frac(p, q * h), h, 1) = Frac(p * h, (q * h) * 1)
    BY <2>0, FracScaled
  <2>2. p * h = h * p /\ (q * h) * 1 = h * q
    BY <1>1 DEF Positive
  <2>3. Frac(h * p, h * q) = Frac(p, q)
    BY <1>1, FracScales
  <2>4. Minus(Frac(p, q), Frac(s, 2)) = Frac(p * 2 - s * q, q * 2)
    BY <2>0, FracPlus
  <2>5. p * 2 - s * q = a
    BY <1>1 DEF Positive
  <2> QED BY <1>3, <2>1, <2>2, <2>3, <2>4, <2>5
<1>8. top * b < a + s * b /\ a < (top + c) * b /\ top + c <= n + s
  <2>1. top * b = q * (2 * top) /\ (top + c) * b = q * (2 * (top + c))
    BY <1>1 DEF Positive
  <2>2. a + s * b = 2 * p + q * s
    BY <1>1 DEF Positive
  <2> QED BY <1>1, <1>3, <1>5, <2>1, <2>2 DEF Positive
<1> HIDE DEF a, b
<1>9. first = Clamped(Frac(a, b), Top, Whole(n))
  BY <1>2, <1>7
<1> QED BY <1>1, <1>4, <1>5, <1>6, <1>8, <1>9, ClampedSees

\* A position aims at the same page at the same zoom.
LEMMA AimsAlike ==
    ASSUME NEW u, NEW v, Alike(u, v), NEW leaf, NEW pos
    PROVE  Aims(u.doc, leaf, pos) <=> Aims(v.doc, leaf, pos)
<1>1. FirstColumn(u.doc) = FirstColumn(v.doc) /\ u.doc.ncol = v.doc.ncol
      /\ u.doc.cell = v.doc.cell /\ u.doc.view = v.doc.view
  BY DEF Alike, FirstColumn
<1>2. /\ PageTop(u.doc, leaf) = PageTop(v.doc, leaf) /\ RowStep(u.doc) = RowStep(v.doc)
      /\ Rows(u.doc) = Rows(v.doc)
  BY <1>1 DEF PageTop, PageToRow, RowStep, Rows
<1>3. DocumentHeight(u.doc) = DocumentHeight(v.doc)
  BY <1>1, <1>2 DEF DocumentHeight, Height
<1> QED BY <1>1, <1>2, <1>3 DEF Aims

\* Where the middle of a page is aligned.
LEMMA PlaceAtMiddle ==
    ASSUME NEW d \in Docs, NEW leaf \in Pages
    PROVE  PageToPosition(d, leaf, Middle)
             = Frac(2 * PageTop(d, leaf) + d.cell, 2 * DocumentHeight(d))
<1> DEFINE h == DocumentHeight(d)
           excess == Excess(d)
           y == 2 * PageTop(d, leaf) + d.cell
<1>0. /\ h \in Positive /\ excess \in Int /\ y \in Int /\ 2 \in Positive /\ 1 \in Positive
      /\ 0 \in Int /\ 1 \in Int
  BY DocumentSizes, PageRow DEF Excess, Positive
<1>1. PageToPosition(d, leaf, Middle)
        = Over(Plus(Frac(y, 2), Scaled(Minus(Middle, <<1, 2>>), excess, 1)), h)
  <2>1. 2 * PageToRow(d, leaf) * RowStep(d) + d.cell = y
    <3>1. PageToRow(d, leaf) \in Int /\ RowStep(d) \in Int
      BY PageRow, DocumentSizes DEF Positive
    <3> DEFINE r == PageToRow(d, leaf)
               step == RowStep(d)
    <3> HIDE DEF r, step
    <3>2. 2 * r * step = 2 * (r * step)
      BY <3>1 DEF r, step
    <3> QED BY <3>2 DEF r, step, PageTop
  <2> QED BY <2>1 DEF PageToPosition
<1> HIDE DEF h, excess, y
<1>2. Minus(Frac(1, 2), Frac(1, 2)) = Frac(1 * 2 - 1 * 2, 2 * 2)
  BY <1>0, FracPlus
<1>3. Frac(0, 4) = Frac(0, 1)
  <2>1. 4 \in Positive /\ 0 * 1 = 0 * 4
    BY DEF Positive
  <2> QED BY <1>0, <2>1, FracEqual
<1>4. Minus(Middle, <<1, 2>>) = Frac(0, 1)
  BY <1>2, <1>3, MiddleIsFrac
<1>5. Scaled(Frac(0, 1), excess, 1) = Frac(0 * excess, 1 * 1)
  BY <1>0, FracScaled
<1>6. 0 * excess = 0 /\ 1 * 1 = 1
  BY <1>0
<1>7. Plus(Frac(y, 2), Frac(0, 1)) = Frac(y * 1 + 0 * 2, 2 * 1)
  BY <1>0, FracPlus
<1>8. y * 1 + 0 * 2 = y /\ 2 * 1 = 2
  BY <1>0
<1>9. Over(Frac(y, 2), h) = Frac(y, 2 * h)
  BY <1>0, FracScaled
<1> QED BY <1>1, <1>4, <1>5, <1>6, <1>7, <1>8, <1>9 DEF y, h

\* Where the top of a page is aligned, in pixels of the page.
LEMMA PlaceOfTop ==
    ASSUME NEW d \in Docs, NEW leaf \in Pages
    PROVE  \E low \in Positive :
              /\ low = d.cell - Excess(d) /\ low <= d.cell /\ low <= d.view
              /\ PageToPosition(d, leaf, Top)
                   = Frac(2 * PageTop(d, leaf) + low, 2 * DocumentHeight(d))
<1>0. d.cell \in Positive /\ d.view \in Positive /\ PageTop(d, leaf) \in Nat
      /\ PageToRow(d, leaf) \in Nat /\ RowStep(d) \in Int
  BY DocumentSizes, PageRow DEF Positive
<1> DEFINE low == d.cell - Excess(d)
           r == PageToRow(d, leaf)
           step == RowStep(d)
<1>1. low \in Positive /\ low <= d.cell /\ low <= d.view
  BY <1>0 DEF Excess, Positive
<1>2. Excess(d) \in Int
  BY <1>0 DEF Excess, Positive
<1>3. 2 * r * step + d.cell - Excess(d) = 2 * PageTop(d, leaf) + low
  <2> DEFINE z == r * step
  <2>1. 2 * r * step = 2 * z /\ z \in Int
    BY <1>0
  <2>2. PageTop(d, leaf) = z
    BY DEF PageTop
  <2> HIDE DEF z
  <2> QED BY <1>0, <1>2, <2>1, <2>2 DEF Positive
<1>4. PageToPosition(d, leaf, Top) = Frac(2 * r * step + d.cell - Excess(d), 2 * DocumentHeight(d))
  BY <1>0, PlaceAtTop
<1>5. PageToPosition(d, leaf, Top) = Frac(2 * PageTop(d, leaf) + low, 2 * DocumentHeight(d))
  BY <1>3, <1>4
<1> QED BY <1>1, <1>5

\* A place that is less than a page and half a view below the top of the page.
LEMMA PlaceAims ==
    ASSUME NEW d \in Docs, NEW leaf \in Pages, NEW q \in Positive, NEW low \in Nat,
           2 * low < q * (2 * d.cell + d.view)
    PROVE  LET pos == Frac(q * PageTop(d, leaf) + low, q * DocumentHeight(d))
           IN  /\ InDocument(pos) => Aims(d, leaf, pos)
               /\ low <= q * d.cell => InDocument(pos)
<1> DEFINE h == DocumentHeight(d)
           top == PageTop(d, leaf)
           c == d.cell
           s == d.view
           p == q * top + low
           pos == Frac(p, q * h)
<1>1. /\ h \in Positive /\ top \in Nat /\ c \in Positive /\ s \in Positive /\ top + c <= h
      /\ 2 * low < q * (2 * c + s)
  BY DocumentSizes, PageRow
<1> HIDE DEF h, top, c, s
<1>2. p \in Int /\ q * h \in Positive
  BY <1>1 DEF Positive
<1>3. q * (2 * top) < 2 * p + q * s /\ 2 * p - q * s < q * (2 * (top + c))
  <2>1. q * top \in Nat /\ q * s \in Nat /\ q * s > 0 /\ q * c \in Nat
    BY <1>1 DEF Positive
  <2>2. /\ q * (2 * top) = 2 * (q * top) /\ q * (2 * (top + c)) = 2 * (q * top) + 2 * (q * c)
        /\ q * (2 * c + s) = 2 * (q * c) + q * s
    BY <1>1 DEF Positive
  <2> DEFINE x == q * top
             y == q * s
             z == q * c
  <2> HIDE DEF x, y, z
  <2>3. /\ x \in Nat /\ y \in Nat /\ y > 0 /\ z \in Nat /\ 2 * low < 2 * z + y
        /\ p = x + low
    BY <1>1, <2>1, <2>2 DEF x, y, z
  <2>4. 2 * x < 2 * (x + low) + y /\ 2 * (x + low) - y < 2 * x + 2 * z
    BY <2>3
  <2> QED BY <2>2, <2>3, <2>4 DEF x, y, z
<1>4. low <= q * c => p >= 0 /\ p <= q * h
  <2>1. q * (top + c) <= q * h
    <3> DEFINE t == top + c
    <3>1. t \in Nat /\ t <= h
      BY <1>1 DEF Positive
    <3> HIDE DEF t
    <3>2. q * t <= q * h
      BY <1>1, <3>1 DEF Positive
    <3> QED BY <3>2 DEF t
  <2>2. q * (top + c) = q * top + q * c /\ q * top \in Nat /\ q * c \in Nat /\ q * h \in Nat
    BY <1>1 DEF Positive
  <2> QED BY <2>1, <2>2
<1> HIDE DEF p
<1>5. low <= q * c => InDocument(pos)
  BY <1>2, <1>4, InDocumentMeans
<1>6. InDocument(pos) => Aims(d, leaf, pos)
  BY <1>2, <1>3 DEF Aims, h, top, c, s
<1> QED BY <1>5, <1>6 DEF p, h, top, c

\* The place of a page.
LEMMA PageAims ==
    ASSUME NEW d \in Docs, NEW leaf \in Pages
    PROVE  Aims(d, leaf, PageToPosition(d, leaf, Alignment))
<1>1. d.cell \in Positive /\ d.view \in Positive /\ 2 \in Positive
  BY DocumentSizes DEF Positive
<1>2. ASSUME NEW low \in Positive, low <= d.cell
      PROVE  Aims(d, leaf, Frac(2 * PageTop(d, leaf) + low, 2 * DocumentHeight(d)))
  <2>1. low \in Nat /\ low <= 2 * d.cell /\ 2 * low < 2 * (2 * d.cell + d.view)
    BY <1>1, <1>2 DEF Positive
  <2> QED BY <1>1, <2>1, PlaceAims
<1>3. Aims(d, leaf, PageToPosition(d, leaf, Top))
  BY <1>2, PlaceOfTop
<1>4. Aims(d, leaf, PageToPosition(d, leaf, Middle))
  <2>1. d.cell <= d.cell
    BY <1>1 DEF Positive
  <2> QED BY <1>1, <1>2, <2>1, PlaceAtMiddle
<1> QED BY <1>3, <1>4 DEF Alignment

\* What a target is: a part of the page.
LEMMA TargetIsPart ==
    ASSUME NEW target \in Targets
    PROVE  \E a \in Nat, k \in Positive : target = Frac(a, k) /\ a < k
<1>1. Reduced(target) /\ ~Less(target, Top) /\ Less(target, Bottom)
  BY ViewAssumption DEF AtMost, Top, Bottom
<1>2. PICK a \in Int, k \in Positive : target = Frac(a, k)
  BY <1>1, ReducedInFracs DEF Fracs
<1>3. (Less(target, Top) <=> a * 1 < 0 * k) /\ (Less(target, Bottom) <=> a * 1 < 1 * k)
  BY <1>2, Constants, FracLess
<1>4. a \in Nat /\ a < k
  BY <1>1, <1>3 DEF Positive
<1> QED BY <1>2, <1>4

\* The place of a target on a page, if the document has it.
LEMMA TargetAims ==
    ASSUME NEW d \in Docs, NEW leaf \in Pages, NEW target \in Targets, target # None,
           InDocument(TargetPosition(d, leaf, target))
    PROVE  Aims(d, leaf, TargetPosition(d, leaf, target))
<1> DEFINE h == DocumentHeight(d)
           top == PageTop(d, leaf)
           c == d.cell
           s == d.view
           pos == TargetPosition(d, leaf, target)
<1>1. /\ h \in Positive /\ top \in Nat /\ c \in Positive /\ s \in Positive
  BY DocumentSizes, PageRow
<1>2. PICK a \in Nat, k \in Positive : target = Frac(a, k) /\ a < k
  BY TargetIsPart
<1>3. PICK low \in Positive :
         /\ low <= c /\ low <= s
         /\ PageToPosition(d, leaf, Top) = Frac(2 * top + low, 2 * h)
  BY PlaceOfTop
<1>4. pos = Plus(Frac(2 * top + low, 2 * h), Scaled(Frac(a, k), c, h))
  BY <1>2, <1>3 DEF TargetPosition
<1> HIDE DEF h, top, c, s, pos
<1> DEFINE q == 2 * k
           rest == k * low + 2 * (a * c)
<1>5. q \in Positive /\ rest \in Nat
  BY <1>1, <1>3 DEF Positive
<1>6. Scaled(Frac(a, k), c, h) = Frac(a * c, k * h)
  <2>1. c \in Int
    BY <1>1 DEF Positive
  <2>2. a \in Int /\ h \in Positive
    BY <1>1
  <2> QED BY <2>1, <2>2, FracScaled, Zenon
<1>7. Plus(Frac(2 * top + low, 2 * h), Frac(a * c, k * h))
        = Frac((2 * top + low) * (k * h) + (a * c) * (2 * h), (2 * h) * (k * h))
  <2> DEFINE x == 2 * top + low
             y == a * c
             z == k * h
             w == 2 * h
  <2>1. x \in Int /\ y \in Int /\ z \in Positive /\ w \in Positive
    BY <1>1 DEF Positive
  <2> HIDE DEF x, y, z, w
  <2>2. Plus(Frac(x, w), Frac(y, z)) = Frac(x * z + y * w, w * z)
    BY <2>1, FracPlus
  <2> QED BY <2>2 DEF x, y, z, w
<1>8. /\ (2 * top + low) * (k * h) + (a * c) * (2 * h) = h * (q * top + rest)
      /\ (2 * h) * (k * h) = h * (q * h)
  BY <1>1, <1>3 DEF Positive
<1>9. Frac(h * (q * top + rest), h * (q * h)) = Frac(q * top + rest, q * h)
  <2> DEFINE x == q * top + rest
             y == q * h
  <2>1. x \in Int /\ y \in Positive
    BY <1>1, <1>5 DEF Positive
  <2> HIDE DEF x, y
  <2>2. Frac(h * x, h * y) = Frac(x, y)
    BY <1>1, <2>1, FracScales
  <2> QED BY <2>2 DEF x, y
<1>10. pos = Frac(q * top + rest, q * h)
  BY <1>4, <1>6, <1>7, <1>8, <1>9
<1>11. 2 * rest < q * (2 * c + s)
  <2>1. k * low <= k * s /\ a * c < k * c
    BY <1>1, <1>2, <1>3 DEF Positive
  <2>2. q * (2 * c + s) = 4 * (k * c) + 2 * (k * s) /\ 2 * rest = 2 * (k * low) + 4 * (a * c)
    BY <1>1, <1>3 DEF Positive
  <2>3. k * low \in Int /\ k * s \in Int /\ a * c \in Int /\ k * c \in Int
    BY <1>1, <1>3 DEF Positive
  <2> DEFINE x == k * low
             y == k * s
             z == a * c
             w == k * c
  <2> HIDE DEF x, y, z, w
  <2>4. 2 * x + 4 * z < 4 * w + 2 * y
    BY <2>1, <2>3 DEF x, y, z, w
  <2> QED BY <2>2, <2>4 DEF x, y, z, w
<1> HIDE DEF q, rest
<1>12. InDocument(pos) => Aims(d, leaf, pos)
  BY <1>5, <1>10, <1>11, PlaceAims DEF h, top, c, s
<1> QED BY <1>12 DEF pos

\* The place of a search result: the middle of the view.
ResultPosition(d, leaf, target) ==
    Plus(PageToPosition(d, leaf, Middle),
         Scaled(Minus(target, Middle), d.cell, DocumentHeight(d)))

\* A search result is put where its page is in view.
LEMMA ResultAims ==
    ASSUME NEW d \in Docs, NEW leaf \in Pages, NEW target \in Targets
    PROVE  Aims(d, leaf, ResultPosition(d, leaf, target))
<1> DEFINE h == DocumentHeight(d)
           top == PageTop(d, leaf)
           c == d.cell
           s == d.view
           pos == ResultPosition(d, leaf, target)
<1>1. /\ h \in Positive /\ top \in Nat /\ c \in Positive /\ s \in Positive
  BY DocumentSizes, PageRow
<1>2. PICK a \in Nat, k \in Positive : target = Frac(a, k) /\ a < k
  BY TargetIsPart
<1>3. pos = Plus(Frac(2 * top + c, 2 * h), Scaled(Minus(Frac(a, k), Frac(1, 2)), c, h))
  BY <1>2, PlaceAtMiddle, MiddleIsFrac DEF ResultPosition
<1> HIDE DEF h, top, c, s, pos
<1> DEFINE q == 2 * k
           rest == 2 * (a * c)
           m == a * 2 - 1 * k
<1>5. q \in Positive /\ rest \in Nat /\ m \in Int /\ 2 \in Positive /\ 1 \in Int
  BY <1>1 DEF Positive
<1>6. Minus(Frac(a, k), Frac(1, 2)) = Frac(m, k * 2) /\ k * 2 = q
  BY <1>5, FracPlus DEF Positive
<1>7. Scaled(Frac(m, q), c, h) = Frac(m * c, q * h)
  <2>1. c \in Int
    BY <1>1 DEF Positive
  <2> HIDE DEF m, q
  <2>2. m \in Int /\ q \in Positive /\ h \in Positive
    BY <1>1, <1>5
  <2> QED BY <2>1, <2>2, FracScaled, Zenon
<1>8. Plus(Frac(2 * top + c, 2 * h), Frac(m * c, q * h))
        = Frac((2 * top + c) * (q * h) + (m * c) * (2 * h), (2 * h) * (q * h))
  <2> DEFINE x == 2 * top + c
             y == m * c
             z == q * h
             w == 2 * h
  <2>1. x \in Int /\ y \in Int /\ z \in Positive /\ w \in Positive
    BY <1>1, <1>5 DEF Positive
  <2> HIDE DEF x, y, z, w
  <2>2. Plus(Frac(x, w), Frac(y, z)) = Frac(x * z + y * w, w * z)
    BY <2>1, FracPlus
  <2> QED BY <2>2 DEF x, y, z, w
<1>9. /\ (2 * top + c) * (q * h) + (m * c) * (2 * h) = (2 * h) * (q * top + rest)
  BY <1>1 DEF Positive
<1>10. Frac((2 * h) * (q * top + rest), (2 * h) * (q * h)) = Frac(q * top + rest, q * h)
  <2> DEFINE x == q * top + rest
             y == q * h
             w == 2 * h
  <2>1. x \in Int /\ y \in Positive /\ w \in Positive
    BY <1>1, <1>5 DEF Positive
  <2> HIDE DEF x, y, w
  <2>2. Frac(w * x, w * y) = Frac(x, y)
    BY <2>1, FracScales
  <2> QED BY <2>2 DEF x, y, w
<1>11. pos = Frac(q * top + rest, q * h)
  BY <1>3, <1>6, <1>7, <1>8, <1>9, <1>10
<1>12. rest <= q * c /\ 2 * rest < q * (2 * c + s)
  <2>1. a * c <= k * c /\ k * s > 0
    BY <1>1, <1>2 DEF Positive
  <2>2. q * (2 * c + s) = 4 * (k * c) + 2 * (k * s) /\ q * c = 2 * (k * c)
    BY <1>1 DEF Positive
  <2>3. k * s \in Int /\ a * c \in Int /\ k * c \in Int
    BY <1>1 DEF Positive
  <2> QED BY <2>1, <2>2, <2>3
<1> HIDE DEF q, rest
<1>13. Aims(d, leaf, pos)
  BY <1>5, <1>11, <1>12, PlaceAims DEF h, top, c, s
<1> QED BY <1>13 DEF pos

\* What a page that was asked for stays in view by: GTK lays the window out as it
\* is, and the handlers of that find nothing to do.
Steady(v, leaf) ==
    /\ InBounds(v) /\ v.doc.view = v.adj.size /\ Fit(v)
    /\ ~v.grid.stale /\ Covers(v.grid, v.doc)
    /\ ~v.skipped => Seen(v, leaf)

\* At rest at a position that aims at a page, a view is steady.
LEMMA RestsSteady ==
    ASSUME NEW v, Typed(v), InBounds(v), v.doc.view = v.adj.size, Fit(v),
           NEW leaf \in Pages, NEW pos, Aims(v.doc, leaf, pos), Rests(v, pos)
    PROVE  Steady(v, leaf)
<1>1. Shown(v, pos) /\ ~v.grid.stale /\ Covers(v.grid, v.doc)
  BY DEF Rests
<1>2. ~v.skipped => Seen(v, leaf)
  BY <1>1, AimShows
<1> QED BY <1>1, <1>2 DEF Steady

\* A value within the bounds is not clamped.
LEMMA LeastIsSame ==
    ASSUME NEW adj \in Adjs, ValueInBounds(adj)
    PROVE  Least(adj.value, Greatest(Top, Whole(adj.upper - adj.size))) = adj.value
<1> DEFINE n == adj.upper - adj.size
<1>1. n \in Int /\ 1 \in Positive /\ adj.value \in Fracs
  <2>1. adj.upper \in Nat /\ adj.size \in Nat /\ adj.value \in Fracs
    BY ViewAssumption DEF Adjs
  <2> QED BY <2>1 DEF Positive
<1>2. Greatest(Top, Whole(n)) = Whole(n)
  BY <1>1, ClampedInBounds DEF ValueInBounds
<1>3. ~Less(Whole(n), adj.value)
  BY DEF ValueInBounds, AtMost
<1> HIDE DEF n
<1>4. PICK a \in Int, b \in Positive : adj.value = Frac(a, b)
  BY <1>1 DEF Fracs
<1>5. (Less(Frac(a, b), Frac(n, 1)) <=> a * 1 < n * b)
      /\ (Less(Frac(n, 1), Frac(a, b)) <=> n * b < a * 1)
  BY <1>1, FracLess
<1>6. CASE Less(adj.value, Whole(n))
  BY <1>2, <1>6 DEF Least, n
<1>7. CASE ~Less(adj.value, Whole(n))
  <2>1. ~(a * 1 < n * b) /\ ~(n * b < a * 1)
    BY <1>1, <1>3, <1>4, <1>5, <1>7, WholeIsFrac
  <2>2. n * b \in Int
    BY <1>1 DEF Positive
  <2>3. a * 1 = n * b
    BY <2>1, <2>2
  <2>4. Frac(a, b) = Frac(n, 1)
    BY <1>1, <2>3, FracEqual
  <2>5. adj.value = Whole(n)
    BY <1>1, <1>4, <2>4, WholeIsFrac
  <2> QED BY <1>2, <2>5 DEF Least, n
<1> QED BY <1>6, <1>7

\* adjust_view leaves what fits as it is.
LEMMA FitStays ==
    ASSUME NEW v \in Views, Fit(v)
    PROVE  AdjustView(v) = v
<1>1. v.doc.cell \in Int
  BY ViewFields, DocumentSizes DEF Positive
<1> DEFINE cell == Fitting(v)
<1>2. cell \in Cells
  BY FittingIsCell
<1> HIDE DEF cell
<1>3. cell \in Int
  BY <1>2, ViewAssumption
<1>4. Size(cell - v.doc.cell) \in Int
  BY <1>1, <1>3 DEF Size
<1>5. ~(Size(cell - v.doc.cell) > MinChange)
  BY <1>4, ViewAssumption DEF Fit, cell
<1> QED BY <1>5 DEF AdjustView, cell

\* GTK lays a steady view out as it was, with or without the grid being rendered
\* again.
LEMMA SteadyRelaid ==
    ASSUME NEW v, Typed(v), Placed(v), NEW leaf, Steady(v, leaf), v.adj.size = window
    PROVE  LET u == [v EXCEPT !.queued = FALSE]
           IN  /\ AdjustView(Allocated(v)) = u /\ AdjustView(Render(Allocated(v))) = u
               /\ Steady(u, leaf) /\ u.adj.size = window
<1> DEFINE u == [v EXCEPT !.queued = FALSE]
           upper == Max({GridHeight(v.doc, v.grid), window})
<1>1. /\ u \in Views /\ u.doc = v.doc /\ u.grid = v.grid /\ u.adj = v.adj
      /\ u.skipped = v.skipped
  BY DEF Typed, Views
<1>2. v.adj \in Adjs /\ ValueInBounds(v.adj) /\ v \in Views
  BY ViewFields DEF Typed
<1>3. upper = v.adj.upper
  BY DEF Steady, InBounds
<1> HIDE DEF upper
<1>4. Resized(v, upper) = u
  <2>1. Least(v.adj.value, Greatest(Top, Whole(upper - window))) = v.adj.value
    BY <1>2, <1>3, LeastIsSame
  <2>2. [value |-> v.adj.value, upper |-> upper, size |-> window] = v.adj
    BY <1>2, <1>3 DEF Adjs
  <2>3. Resized(v, upper)
          = [v EXCEPT !.queued = FALSE,
                      !.adj = [value |-> Least(@.value, Greatest(Top, Whole(upper - window))),
                               upper |-> upper, size |-> window]]
    BY DEF Resized
  <2>4. Resized(v, upper) = [v EXCEPT !.queued = FALSE, !.adj = v.adj]
    BY <1>2, <2>1, <2>2, <2>3 DEF Views
  <2> QED BY <1>2, <2>4 DEF Views
<1> HIDE DEF u
<1>5. Allocated(v) = u
  BY <1>1, <1>4 DEF Allocated, ToldOfBounds, ToldOfValue, upper
<1>6. Steady(u, leaf)
  BY <1>1 DEF Steady, InBounds, Fit, Fitting, Seen
<1>7. Render(u) = u
  BY <1>6 DEF Render, Steady
<1>8. AdjustView(u) = u
  BY <1>1, <1>6, FitStays DEF Steady
<1> QED BY <1>1, <1>5, <1>6, <1>7, <1>8 DEF u

-----------------------------------------------------------------------------
(***************************************************************************)
(* The inductive invariant of View.                                        *)
(***************************************************************************)

\* The invariant: at every moment GTK is to lay the window out or has, and the
\* view shows its position, or it is known why not; there is nothing left to fit,
\* and a page that was asked for stays in view when GTK does.
Laid ==
    /\ Sound(view, window) /\ Synced(view) /\ Eased(view)
    /\ window \in Windows /\ settings \in Settings
    /\ presented \in Presentations \cup {None}
    /\ view.mode = "presentation" => presented \in Presentations
    /\ asked \in Pages \cup {None}
    /\ asked # None => Steady(view, asked) /\ view.adj.size = window

ViewInv == Laid /\ moves \in 0 .. MaxMoves

\* A view that a handler may leave.
Left(v) == Sound(v, window) /\ Synced(v) /\ Eased(v) /\ v.mode = view.mode

\* What the invariant says of a view at rest.
LEMMA ViewInvImplies ==
    ASSUME ViewInv
    PROVE  ViewTypeOK /\ ShowsPosition /\ AskedPageShown
<1>1. /\ Typed(view) /\ Placed(view) /\ Ready(view, window) /\ Synced(view)
      /\ window \in Windows /\ settings \in Settings /\ presented \in Presentations \cup {None}
      /\ asked \in Pages \cup {None} /\ moves \in 0 .. MaxMoves
  BY DEF ViewInv, Laid, Sound
<1>2. /\ view.doc \in Docs /\ view.grid \in Grids /\ view.adj \in Adjs
      /\ view.queued \in BOOLEAN /\ view.skipped \in BOOLEAN
      /\ view.mode \in {"normal", "index", "presentation"}
  BY <1>1, ViewFields DEF Typed
<1>3. /\ view.doc.x \in Columns /\ view.doc.page \in Pages /\ view.doc.cell \in Cells
      /\ view.doc.ncol \in 1 .. 2 /\ view.doc.first \in 1 .. 2
      /\ view.doc.view \in Windows /\ view.doc.adjust \in Adjusts
  BY <1>2, DocFields
<1>4. /\ view.grid.start \in 0 .. NumPages /\ view.grid.count \in 1 .. NumPages
      /\ view.grid.stale \in BOOLEAN
  <2>1. Rows(view.doc) \in 1 .. NumPages
    BY <1>2, DocumentSizes
  <2>2. view.grid.start \in Nat /\ view.grid.count \in Nat /\ view.grid.stale \in BOOLEAN
        /\ view.grid.count >= 1 /\ view.grid.start + view.grid.count <= Rows(view.doc)
    BY <1>1, <1>2 DEF Grids, Placed, Inside
  <2> QED BY <2>1, <2>2, PagesAssumption
<1>5. view.adj.size \in Windows /\ view.adj.upper \in Nat
  BY <1>2 DEF Adjs
<1>6. ViewTypeOK
  BY <1>1, <1>2, <1>3, <1>4, <1>5 DEF ViewTypeOK
<1>7. ASSUME AtRest, InDocument(view.doc.pos)
      PROVE  FirstPixel = Clamped(Minus(Scaled(view.doc.pos, DocumentHeight(view.doc), 1),
                                        Frac(view.adj.size, 2)),
                                  Top, Whole(LastFirstPixel))
  <2>1. Shows(view.doc, view.grid, view.adj, view.doc.pos)
    BY <1>1, <1>7 DEF AtRest, Settled, Ready, Synced, Shown
  <2> QED BY <2>1 DEF Shows, FirstPixel, LastFirstPixel
<1>8. ASSUME AtRest, asked # None
      PROVE  InView(asked)
  <2>1. Steady(view, asked) /\ ~view.skipped
    BY <1>8 DEF ViewInv, Laid, AtRest, Settled
  <2>2. Seen(view, asked)
    BY <2>1 DEF Steady
  <2> QED BY <2>2 DEF Seen, InView, FirstPixel, PageTop
<1> QED BY <1>6, <1>7, <1>8 DEF ShowsPosition, AskedPageShown

\* A document has just been opened.
LEMMA InitLaid ==
    ASSUME SurfaceIsHigh, ViewInit
    PROVE  ViewInv
<1>1. window \in Windows /\ settings \in Settings /\ presented = None /\ asked = None /\ moves = 0
  BY DEF ViewInit
<1>2. PICK s \in Stored \cup {<<0, None>>}, cell \in Cells, ncol \in 1 .. 2,
           adjust \in Adjusts \ {"inputbar"}, first \in 1 .. 2 :
        view = DocumentOpen(window, s[1], s[2], cell, ncol, first, adjust)
  BY DEF ViewInit
<1>3. s[1] \in Pages /\ s[2] \in Fracs \cup {None}
  <2>1. 0 \in Pages
    BY PagesAssumption DEF Pages
  <2>2. s \in Stored => s[1] \in Pages /\ s[2] \in Fracs
    BY ViewAssumption, ReducedInFracs
  <2> QED BY <2>1, <2>2
<1>5. Sound(view, window) /\ Synced(view) /\ view.mode = "normal" /\ Eased(view)
  BY <1>1, <1>2, <1>3, DocumentOpenIs
<1>6. moves \in 0 .. MaxMoves
  BY <1>1, ViewAssumption
<1> QED BY <1>1, <1>5, <1>6 DEF ViewInv, Laid

\* A handler that leaves a view in order leaves the invariant.
LEMMA LeavingKeeps ==
    ASSUME Laid, Left(view'), asked' \in Pages \cup {None},
           asked' # None => Steady(view', asked') /\ view'.adj.size = window,
           UNCHANGED <<window, settings, presented>>
    PROVE  Laid'
<1>1. Steady(view', asked') <=> Steady(view, asked)'
  BY DEF Steady, InBounds, Fit, Fitting, Seen
<1>2. /\ Sound(view', window) <=> Sound(view, window)'
      /\ Synced(view') <=> Synced(view)'
      /\ Eased(view') <=> Eased(view)'
  OBVIOUS
<1> QED BY <1>1, <1>2 DEF Laid, Left

\* The same for a handler after which no page has been asked for,
LEMMA MovingKeeps ==
    ASSUME Laid, NEW v, Left(v), Moving(v)
    PROVE  Laid'
<1>1. view' = v /\ asked' = None /\ UNCHANGED <<window, settings, presented>>
  BY DEF Moving
<1>2. Left(view')
  BY <1>1
<1> QED BY <1>1, <1>2, LeavingKeeps

\* and for one that goes to a page.
LEMMA GoingKeeps ==
    ASSUME Laid, NEW v, Left(v), NEW leaf \in Pages, Going(v, leaf),
           Settled /\ InBounds(v) => Steady(v, leaf) /\ v.adj.size = window
    PROVE  Laid'
<1>1. /\ view' = v
      /\ asked' = IF Settled /\ InBounds(v) THEN leaf ELSE None
      /\ UNCHANGED <<window, settings, presented>>
  BY DEF Going
<1>2. Left(view')
  BY <1>1
<1>3. asked' # None => Steady(view', asked') /\ view'.adj.size = window
  BY <1>1
<1>4. asked' \in Pages \cup {None}
  BY <1>1
<1> QED BY <1>1, <1>2, <1>3, <1>4, LeavingKeeps

\* What a handler has before it moves: the view, or the view at another zoom.
Based(v) ==
    /\ Sound(v, window) /\ Eased(v) /\ v.mode = view.mode
    /\ Framed(v, view) /\ (Fit(view) => Fit(v))

\* Going to a position that aims at a page.
LEMMA AimedKeeps ==
    ASSUME Laid, NEW v, Based(v), NEW leaf \in Pages, NEW pos, Aims(v.doc, leaf, pos),
           NEW u, Sound(u, window), Synced(u), u.mode = v.mode, Alike(u, v), Rests(u, pos),
           Going(u, leaf)
    PROVE  Laid'
<1>1. Framed(u, v) /\ (Fit(v) => Fit(u)) /\ Eased(u)
  BY AlikeFits DEF Based
<1>2. Left(u)
  BY <1>1 DEF Based, Left
<1>3. ASSUME Settled, InBounds(u)
      PROVE  Steady(u, leaf) /\ u.adj.size = window
  <2>1. Fit(view)
    BY <1>3 DEF Laid, Eased, Settled
  <2>2. Fit(u)
    BY <1>1, <2>1 DEF Based
  <2>3. u.adj.size = window /\ u.doc.view = u.adj.size
    BY <1>1, <1>3 DEF Based, Framed, Settled
  <2>4. Aims(u.doc, leaf, pos)
    BY AimsAlike
  <2>5. Typed(u) /\ Placed(u)
    BY DEF Sound
  <2> QED BY <1>3, <2>2, <2>3, <2>4, <2>5, RestsSteady
<1> QED BY <1>2, <1>3, GoingKeeps

-----------------------------------------------------------------------------
(***************************************************************************)
(* The actions that go somewhere.                                          *)
(***************************************************************************)

\* The alignments of a page are fractions.
LEMMA AlignsAre == Top \in Fracs /\ Middle \in Fracs /\ Bottom \in Fracs
  BY Constants, MiddleIsFrac

\* Where targets and results are.
LEMMA TargetsAre ==
    ASSUME NEW d \in Docs, NEW leaf \in Pages, NEW target \in Targets \cup {None}
    PROVE  TargetPosition(d, leaf, target) \in Fracs \cup {None}
<1>1. CASE target = None
  BY <1>1 DEF TargetPosition
<1>2. CASE target # None
  <2>1. target \in Fracs
    BY <1>2, ViewAssumption, ReducedInFracs
  <2>2. PageToPosition(d, leaf, Top) \in Fracs
    BY AlignsAre, PageIsSomewhere
  <2>3. d.cell \in Int /\ DocumentHeight(d) \in Positive
    BY DocumentSizes DEF Positive
  <2>4. Scaled(target, d.cell, DocumentHeight(d)) \in Fracs
    BY <2>1, <2>3, FracsClosed
  <2>5. Plus(PageToPosition(d, leaf, Top), Scaled(target, d.cell, DocumentHeight(d))) \in Fracs
    BY <2>2, <2>4, FracsClosed
  <2> QED BY <1>2, <2>5 DEF TargetPosition
<1> QED BY <1>1, <1>2

\* Where results are put is one, too.
LEMMA ResultsAre ==
    ASSUME NEW d \in Docs, NEW leaf \in Pages, NEW target \in Targets
    PROVE  Plus(PageToPosition(d, leaf, Middle),
                Scaled(Minus(target, Middle), d.cell, DocumentHeight(d))) \in Fracs
<1>1. target \in Fracs
  BY ViewAssumption, ReducedInFracs
<1>2. PageToPosition(d, leaf, Middle) \in Fracs
  BY AlignsAre, PageIsSomewhere
<1>3. d.cell \in Int /\ DocumentHeight(d) \in Positive
  BY DocumentSizes DEF Positive
<1>4. Minus(target, Middle) \in Fracs
  BY <1>1, AlignsAre, FracsClosed
<1>5. Scaled(Minus(target, Middle), d.cell, DocumentHeight(d)) \in Fracs
  BY <1>3, <1>4, FracsClosed
<1> QED BY <1>2, <1>5, FracsClosed

\* Where scrolling goes.
LEMMA ScrollsAre ==
    ASSUME NEW d \in Docs, NEW halves \in Int, NEW down \in BOOLEAN
    PROVE  /\ Scrolled(d, halves) \in Fracs
           /\ \A y \in Fracs : Aware(d, y, down) \in Fracs
<1>1. d.view \in Int /\ DocumentHeight(d) \in Positive /\ d.pos \in Fracs /\ d.x \in Columns
  BY DocumentSizes, DocFields DEF Positive
<1>2. 2 * DocumentHeight(d) \in Positive
  BY <1>1 DEF Positive
<1> DEFINE h2 == 2 * DocumentHeight(d)
           end == Frac(d.view, h2)
           far == Minus(Bottom, end)
<1> HIDE DEF h2
<1>3. end \in Fracs /\ Frac(halves, h2) \in Fracs
  BY <1>1, <1>2 DEF Fracs, h2
<1>4. far \in Fracs /\ Plus(d.pos, Frac(halves, h2)) \in Fracs
  BY <1>1, <1>3, AlignsAre, FracsClosed
<1> HIDE DEF end, far
<1>5. ASSUME NEW y \in Fracs
      PROVE  Bounded(d, y) \in Fracs
  BY <1>3, <1>4 DEF Bounded, end, far, h2
<1>6. Scrolled(d, halves) \in Fracs
  BY <1>4, <1>5 DEF Scrolled, h2
<1>7. ASSUME NEW y \in Fracs
      PROVE  Aware(d, y, down) \in Fracs
  <2> DEFINE leaf == PositionToPage(d, d.x, y)
             align == IF down THEN Top ELSE Bottom
  <2>1. leaf \in Pages /\ align \in Fracs
    BY <1>1, <1>7, AlignsAre, PositionPage
  <2> HIDE DEF leaf, align
  <2>2. PageToPosition(d, leaf, align) \in Fracs
    BY <2>1, PageIsSomewhere
  <2> QED BY <1>7, <2>2 DEF Aware, leaf, align
<1> QED BY <1>6, <1>7

\* The mode is not in what the view shows either.
LEMMA ModeKeeps ==
    ASSUME NEW height, NEW v, Sound(v, height), Synced(v),
           NEW mode \in {"normal", "index", "presentation"}
    PROVE  LET u == [v EXCEPT !.mode = mode]
           IN  Sound(u, height) /\ Synced(u) /\ u.mode = mode /\ Alike(u, v)
<1> DEFINE u == [v EXCEPT !.mode = mode]
<1>1. /\ u \in Views /\ u.doc = v.doc /\ u.grid = v.grid /\ u.adj = v.adj /\ u.mode = mode
      /\ u.queued = v.queued /\ u.skipped = v.skipped
  BY DEF Sound, Typed, Views
<1> HIDE DEF u
<1>2. Sound(u, height) /\ Synced(u) /\ Alike(u, v)
  BY <1>1 DEF Sound, Typed, Placed, Ready, InBounds, Synced, Shown, Alike
<1> QED BY <1>1, <1>2 DEF u

-----------------------------------------------------------------------------

\* What the steps use of the invariant.
LEMMA LaidMeans ==
    ASSUME Laid
    PROVE  /\ Left(view) /\ Based(view) /\ Sound(view, window) /\ Synced(view) /\ Eased(view)
           /\ Typed(view) /\ Placed(view) /\ window \in Windows
           /\ view.doc \in Docs /\ view.doc.page \in Pages /\ view.doc.x \in Columns
           /\ view.doc.pos \in Fracs /\ view.doc.view \in Int /\ view.doc.ncol \in 1 .. 2
           /\ view.doc.first \in 1 .. 2 /\ view.doc.cell \in Cells
<1>1. Sound(view, window) /\ Synced(view) /\ Eased(view) /\ window \in Windows
  BY DEF Laid
<1>2. Typed(view) /\ Placed(view)
  BY <1>1 DEF Sound
<1>3. view.doc \in Docs
  BY <1>2, ViewFields DEF Typed
<1>4. view.doc.view \in Int
  BY <1>3, DocumentSizes DEF Positive
<1> QED BY <1>1, <1>2, <1>3, <1>4, DocFields DEF Left, Based, Framed

\* A position is not None.
LEMMA FracsAreNotNone == None \notin Fracs
<1>1. ASSUME NEW n \in Int, NEW d \in Positive
      PROVE  Frac(n, d) \in Int \X Nat
  <2>1. PICK g \in Positive, p \in Int, q \in Positive :
          Frac(n, d) = <<p, q>> /\ n = g * p /\ d = g * q
    BY <1>1, LowestTerms
  <2>2. q \in Nat
    BY DEF Positive
  <2> QED BY <2>1, <2>2
<1> QED BY <1>1, ViewAssumption DEF Fracs

\* A handler may go on from a zoom.
LEMMA ZoomedBased ==
    ASSUME SurfaceIsHigh, Laid, NEW cell \in Cells
    PROVE  Based(Zoomed(view, cell))
<1> DEFINE z == Zoomed(view, cell)
<1>1. Sound(z, window) /\ z.mode = view.mode /\ Fit(z) /\ Framed(z, view)
  BY LaidMeans, ZoomedKeeps
<1> HIDE DEF z
<1>2. Based(z)
  BY <1>1 DEF Based, Eased
<1> QED BY <1>2 DEF z

\* PositionSet and PageSet, as handlers leave them.
LEMMA PositionLeft ==
    ASSUME SurfaceIsHigh, NEW v, Sound(v, window), Eased(v), v.mode = view.mode,
           NEW x \in Columns \cup {"auto"}, NEW y \in Fracs \cup {None}
    PROVE  Left(PositionSet(v, x, y))
<1> DEFINE u == PositionSet(v, x, y)
<1>1. Sound(u, window) /\ Synced(u) /\ u.mode = v.mode /\ Alike(u, v)
  BY PositionSetKeeps
<1> HIDE DEF u
<1>2. Left(u)
  BY <1>1, AlikeFits DEF Left
<1> QED BY <1>2 DEF u

\* It may go on from page_set,
LEMMA PageBased ==
    ASSUME SurfaceIsHigh, NEW v, Based(v), NEW leaf \in Pages
    PROVE  Based(PageSet(v, leaf))
<1> DEFINE u == PageSet(v, leaf)
<1>1. Sound(u, window) /\ u.mode = v.mode /\ Alike(u, v)
  BY PageSetKeeps DEF Based
<1> HIDE DEF u
<1>2. Based(u)
  BY <1>1, AlikeFits DEF Based, Framed
<1> QED BY <1>2 DEF u

\* and it may end with cb_refresh_view.
LEMMA RefreshLeft ==
    ASSUME SurfaceIsHigh, NEW v, Sound(v, window), Eased(v), v.mode = view.mode
    PROVE  Left(RefreshView(v))
<1> DEFINE u == RefreshView(v)
<1>1. Sound(u, window) /\ Synced(u) /\ u.mode = v.mode /\ Alike(u, v)
  BY RefreshViewKeeps
<1> HIDE DEF u
<1>2. Left(u)
  BY <1>1, AlikeFits DEF Left
<1> QED BY <1>2 DEF u

\* Going to a page.
LEMMA PageGoing ==
    ASSUME SurfaceIsHigh, Laid, NEW v, Based(v), NEW leaf \in Pages,
           Going(PageSet(v, leaf), leaf)
    PROVE  Laid'
<1> DEFINE u == PageSet(v, leaf)
           pos == PageToPosition(v.doc, leaf, Alignment)
<1>1. v.doc \in Docs
  BY ViewFields DEF Based, Sound, Typed
<1>2. Aims(v.doc, leaf, pos)
  BY <1>1, PageAims
<1>3. InDocument(pos)
  BY <1>2 DEF Aims
<1>4. Sound(u, window) /\ Synced(u) /\ u.mode = v.mode /\ Alike(u, v) /\ Rests(u, pos)
  BY <1>3, PageSetKeeps DEF Based
<1> HIDE DEF u, pos
<1>5. Going(u, leaf)
  BY DEF u
<1> QED BY <1>2, <1>4, <1>5, AimedKeeps

\* Going to a place on a page.
LEMMA PlaceGoing ==
    ASSUME SurfaceIsHigh, Laid, NEW v, Based(v), NEW leaf \in Pages,
           NEW w, Sound(w, window), w.mode = v.mode, Alike(w, v),
           NEW x \in Columns \cup {"auto"}, NEW y \in Fracs, y # None, Aims(v.doc, leaf, y),
           Going(PositionSet(w, x, y), leaf)
    PROVE  Laid'
<1> DEFINE u == PositionSet(w, x, y)
<1>1. InDocument(y)
  BY DEF Aims
<1>2. Sound(u, window) /\ Synced(u) /\ u.mode = w.mode /\ Alike(u, w) /\ Rests(u, y)
  BY <1>1, PositionSetKeeps
<1> HIDE DEF u
<1>3. Alike(u, v)
  BY <1>2, AlikeAlike
<1>4. Going(u, leaf)
  BY DEF u
<1> QED BY <1>2, <1>3, <1>4, AimedKeeps

\* Every way of going somewhere keeps the invariant.
LEMMA GoingsKeep ==
    ASSUME SurfaceIsHigh, Laid, Goings
    PROVE  Laid'
<1>0. /\ Based(view) /\ Sound(view, window) /\ Eased(view) /\ Typed(view)
      /\ view.doc \in Docs /\ view.doc.page \in Pages /\ NumPages \in Nat /\ NumPages # 0
  BY LaidMeans, PagesAssumption
<1>1. ASSUME NEW leaf \in Pages, Goto(leaf)
      PROVE  Laid'
  BY <1>0, <1>1, PageGoing DEF Goto
<1>2. ASSUME NEW leaf \in Pages, Click(leaf)
      PROVE  Laid'
  <2> DEFINE w == [view EXCEPT !.doc.page = leaf]
  <2>1. Sound(w, window) /\ w.mode = view.mode /\ Alike(w, view)
    BY <1>0, NewPageKeeps
  <2>2. Moving(RefreshView(w))
    BY <1>2 DEF Click
  <2> HIDE DEF w
  <2>3. Eased(w)
    BY <1>0, <2>1, AlikeFits
  <2> QED BY <2>1, <2>2, <2>3, RefreshLeft, MovingKeeps
<1>3. ASSUME NEW leaf \in Pages, NEW target \in Targets \cup {None}, NEW cell \in Cells \cup {None},
             Follow(leaf, target, cell)
      PROVE  Laid'
  <2> DEFINE v == IF cell = None THEN view ELSE Zoomed(view, cell)
             w == [v EXCEPT !.doc.page = leaf]
             y == TargetPosition(v.doc, leaf, target)
             u == LinkGotoDest(v, leaf, y)
  <2>1. Based(v)
    BY <1>0, ZoomedBased
  <2>2. IF y = None \/ InDocument(y) THEN Going(u, leaf) ELSE Moving(u)
    BY <1>3 DEF Follow
  <2> HIDE DEF v
  <2>3. Sound(w, window) /\ w.mode = v.mode /\ Alike(w, v)
    BY <2>1, NewPageKeeps DEF Based
  <2>4. v.doc \in Docs
    BY <2>1, ViewFields DEF Based, Sound, Typed
  <2>5. y \in Fracs \cup {None}
    BY <2>4, TargetsAre
  <2>6. u = PositionSet(w, "auto", y)
    BY DEF LinkGotoDest
  <2>7. y = None => u = PageSet(v, leaf)
    BY <2>6 DEF PageSet
  <2>8. y # None => target # None
    BY DEF TargetPosition
  <2>9. y # None /\ InDocument(y) => Aims(v.doc, leaf, y)
    BY <2>4, <2>8, TargetAims
  <2> HIDE DEF w, y, u
  <2>10. CASE y = None
    BY <2>1, <2>2, <2>7, <2>10, PageGoing
  <2>11. CASE y # None /\ InDocument(y)
    BY <2>1, <2>2, <2>3, <2>5, <2>6, <2>9, <2>11, PlaceGoing
  <2>12. CASE y # None /\ ~InDocument(y)
    <3>1. Eased(w)
      BY <2>1, <2>3, AlikeFits DEF Based
    <3>2. Left(u)
      BY <2>1, <2>3, <2>5, <2>6, <3>1, PositionLeft DEF Based
    <3> QED BY <2>2, <2>12, <3>2, MovingKeeps
  <2> QED BY <2>10, <2>11, <2>12
<1>4. ASSUME NEW leaf \in Pages, NEW target \in Targets, ShowResult(leaf, target)
      PROVE  Laid'
  <2> DEFINE x == ColumnOf(view.doc, leaf)
             y == ResultPosition(view.doc, leaf, target)
  <2>1. x \in Columns /\ y \in Fracs
    BY <1>0, AlignsAre, ResultsAre, PageIsSomewhere DEF ResultPosition
  <2>2. Going(PositionSet(view, x, y), leaf)
    BY <1>4 DEF ShowResult, ResultPosition
  <2>3. Aims(view.doc, leaf, y)
    BY <1>0, ResultAims
  <2> HIDE DEF x, y
  <2>4. y # None
    BY <2>1, FracsAreNotNone
  <2> QED BY <1>0, <2>1, <2>2, <2>3, <2>4, PlaceGoing, AlikeSelf
<1>5. ASSUME NEW s \in Stored, Jump(s[1], s[2])
      PROVE  Laid'
  <2>1. s[1] \in Pages /\ s[2] \in Fracs
    BY ViewAssumption, ReducedInFracs
  <2> DEFINE v == PageSet(view, s[1])
  <2>2. Based(v)
    BY <1>0, <2>1, PageBased
  <2>3. Moving(PositionSet(v, "left", s[2]))
    BY <1>5 DEF Jump
  <2> HIDE DEF v
  <2>4. "left" \in Columns
    BY DEF Columns
  <2> QED BY <2>1, <2>2, <2>3, <2>4, PositionLeft, MovingKeeps DEF Based
<1>6. ASSUME NEW s \in Stored, NEW cell \in Cells, MarkEvaluate(s[1], s[2], cell)
      PROVE  Laid'
  <2>1. s[1] \in Pages /\ s[2] \in Fracs
    BY ViewAssumption, ReducedInFracs
  <2> DEFINE z == Zoomed(view, cell)
             v == PageSet(z, s[1])
  <2>2. Based(z)
    BY ZoomedBased
  <2>3. Moving(PositionSet(v, "left", s[2]))
    BY <1>6 DEF MarkEvaluate
  <2> HIDE DEF z
  <2>4. Based(v)
    BY <2>1, <2>2, PageBased
  <2> HIDE DEF v
  <2>5. "left" \in Columns
    BY DEF Columns
  <2> QED BY <2>1, <2>3, <2>4, <2>5, PositionLeft, MovingKeeps DEF Based
<1>7. ASSUME NEW step \in {-1, 1}, Navigate(step)
      PROVE  Laid'
  <2> DEFINE to == IF "scroll-wrap" \in settings
                   THEN (view.doc.page + NumPages + step) % NumPages
                   ELSE Max({0, Min({NumPages - 1, view.doc.page + step})})
  <2>1. to \in Pages
    <3>0. view.doc.page \in 0 .. NumPages - 1 /\ step \in Int
      BY <1>0 DEF Pages
    <3>1. (view.doc.page + NumPages + step) % NumPages \in Pages
      BY <1>0, <3>0 DEF Pages
    <3>2. Max({0, Min({NumPages - 1, view.doc.page + step})}) \in Pages
      <4> DEFINE a == view.doc.page + step
                 m == Min({NumPages - 1, a})
      <4>1. a \in Int /\ NumPages - 1 \in Int
        BY <1>0, <3>0
      <4> HIDE DEF a
      <4>2. m = IF NumPages - 1 <= a THEN NumPages - 1 ELSE a
        BY <4>1, MinOfTwo
      <4>3. m \in Int /\ m <= NumPages - 1
        BY <4>1, <4>2
      <4> HIDE DEF m
      <4>4. Max({0, m}) = IF 0 >= m THEN 0 ELSE m
        BY <4>3, MaxOfTwo
      <4>5. Max({0, m}) \in Pages
        BY <1>0, <4>3, <4>4 DEF Pages
      <4> QED BY <4>5 DEF m, a
    <3> QED BY <3>1, <3>2
  <2>2. Going(PageSet(view, to), to)
    BY <1>7 DEF Navigate
  <2> HIDE DEF to
  <2> QED BY <1>0, <2>1, <2>2, PageGoing
<1> QED BY <1>1, <1>2, <1>3, <1>4, <1>5, <1>6, <1>7 DEF Goings

-----------------------------------------------------------------------------
(***************************************************************************)
(* The actions that scroll and change the layout, GTK, and the theorems.   *)
(***************************************************************************)

\* Dragging a scrollbar stays in the bounds of the adjustment.
LEMMA DraggedInBounds ==
    ASSUME NEW adj \in Adjs, adj.size <= adj.upper, NEW value \in Nat,
           AtMost(Whole(value), Greatest(Top, Whole(adj.upper - adj.size)))
    PROVE  [adj EXCEPT !.value = Whole(value)] \in Adjs
           /\ ValueInBounds([adj EXCEPT !.value = Whole(value)])
<1> DEFINE new == [adj EXCEPT !.value = Whole(value)]
<1>1. Whole(value) \in Fracs /\ Whole(value) = Frac(value, 1) /\ Top = Frac(0, 1)
      /\ 1 \in Positive /\ Top \in Fracs
  BY WholeInFracs, WholeIsFrac, Constants
<1>2. Greatest(Top, Whole(adj.upper - adj.size)) = Whole(adj.upper - adj.size)
  BY <1>1, ClampedInBounds
<1>3. ~Less(Whole(value), Top)
  <2>1. Less(Frac(value, 1), Frac(0, 1)) <=> value * 1 < 0 * 1
    BY <1>1, FracLess
  <2> QED BY <1>1, <2>1
<1>4. new \in Adjs /\ new.value = Whole(value) /\ new.size = adj.size /\ new.upper = adj.upper
  BY <1>1 DEF Adjs
<1> HIDE DEF new
<1>5. ValueInBounds(new)
  BY <1>2, <1>3, <1>4 DEF ValueInBounds, AtMost
<1> QED BY <1>4, <1>5 DEF new

\* A view like the one before may be left.
LEMMA AlikeLeft ==
    ASSUME NEW u, NEW v, Sound(u, window), Synced(u), u.mode = view.mode, Alike(u, v), Eased(v)
    PROVE  Left(u)
  BY AlikeFits DEF Left

\* Scrolling keeps it: by keys, by dragging, by the scrollbars.
LEMMA ScrollsKeep ==
    ASSUME SurfaceIsHigh, Laid, Scrolls
    PROVE  Laid'
<1>0. /\ Sound(view, window) /\ Synced(view) /\ Typed(view) /\ Placed(view) /\ Eased(view)
      /\ view.doc \in Docs /\ view.doc.page \in Pages /\ view.doc.x \in Columns
      /\ view.doc.view \in Int /\ Padding \in Int /\ Step \in Nat
  BY LaidMeans, LayoutAssumption, ViewAssumption
<1>1. ASSUME ScrollTop \/ ScrollBottom
      PROVE  Laid'
  <2>1. Left(PositionSet(view, "auto", Top)) /\ Left(PositionSet(view, "auto", Bottom))
    BY <1>0, AlignsAre, PositionLeft
  <2> QED BY <1>1, <2>1, MovingKeeps DEF ScrollTop, ScrollBottom
<1>2. ASSUME NEW align \in {Top, Bottom}, ScrollInPage(align)
      PROVE  Laid'
  <2> DEFINE y == PageToPosition(view.doc, view.doc.page, align)
  <2>1. y \in Fracs
    BY <1>0, AlignsAre, PageIsSomewhere
  <2>2. Moving(PositionSet(view, view.doc.x, y))
    BY <1>2 DEF ScrollInPage
  <2> HIDE DEF y
  <2>3. Left(PositionSet(view, view.doc.x, y))
    BY <1>0, <2>1, PositionLeft
  <2> QED BY <2>2, <2>3, MovingKeeps
<1>3. ASSUME NEW down \in BOOLEAN, NEW x \in {view.doc.x, "middle"}, StepScroll(down, x)
      PROVE  Laid'
  <2> DEFINE y == Scrolled(view.doc, Signed(2 * Step, down))
  <2>1. Signed(2 * Step, down) \in Int
    BY <1>0 DEF Signed
  <2>2. y \in Fracs
    BY <1>0, <2>1, ScrollsAre
  <2>3. Moving(PositionSet(view, x, y))
    BY <1>3 DEF StepScroll
  <2> HIDE DEF y
  <2>4. x \in Columns
    BY <1>0 DEF Columns
  <2>5. Left(PositionSet(view, x, y))
    BY <1>0, <2>2, <2>4, PositionLeft
  <2> QED BY <2>3, <2>5, MovingKeeps
<1>4. ASSUME NEW halves \in Int, NEW down \in BOOLEAN, NEW x \in {view.doc.x, "middle"},
             PageScroll(halves, down, x)
      PROVE  Laid'
  <2> DEFINE d == [view.doc EXCEPT !.x = x]
             y == Aware(d, Scrolled(d, Signed(halves, down)), down)
  <2>1. Signed(halves, down) \in Int
    BY <1>4 DEF Signed
  <2>2. x \in Columns
    BY <1>0 DEF Columns
  <2>3. d \in Docs
    BY <1>0, <2>2 DEF Docs
  <2>4. Moving(PositionSet(view, x, y))
    BY <1>4 DEF PageScroll
  <2> HIDE DEF d
  <2>5. y \in Fracs
    BY <2>1, <2>3, ScrollsAre
  <2> HIDE DEF y
  <2>6. Left(PositionSet(view, x, y))
    BY <1>0, <2>2, <2>5, PositionLeft
  <2> QED BY <2>4, <2>6, MovingKeeps
<1>5. ASSUME NEW down \in BOOLEAN, NEW x \in {view.doc.x, "middle"},
             FullScroll(down, x) \/ HalfScroll(down, x)
      PROVE  Laid'
  <2>1. 2 * (view.doc.view + Padding) \in Int /\ view.doc.view + Padding \in Int
    BY <1>0
  <2> QED BY <1>4, <1>5, <2>1 DEF FullScroll, HalfScroll
<1>6. ASSUME NEW pixels \in {-Step, Step}, Drag(pixels)
      PROVE  Laid'
  <2> DEFINE y == Minus(Ratio(view), Frac(pixels, DocumentHeight(view.doc)))
  <2>1. pixels \in Int /\ DocumentHeight(view.doc) \in Positive
    BY <1>0, DocumentSizes
  <2>2. Frac(pixels, DocumentHeight(view.doc)) \in Fracs
    BY <2>1 DEF Fracs
  <2>3. Ratio(view) \in Fracs
    BY <1>0, AlignsAre, RatioInFracs
  <2>4. y \in Fracs
    BY <2>2, <2>3, FracsClosed
  <2>5. Moving(SetValue(view, y)) /\ view.mode # "index"
    BY <1>6 DEF Drag, Reading
  <2> HIDE DEF y
  <2>6. Left(SetValue(view, y))
    BY <1>0, <2>4, <2>5, SetValueKeeps, AlikeLeft
  <2> QED BY <2>5, <2>6, MovingKeeps
<1>7. ASSUME NEW value \in {0, Step, view.adj.upper - view.adj.size}, DragScrollbar(value)
      PROVE  Laid'
  <2> DEFINE u == SetAdjustment(view, Whole(value))
  <2>1. view.adj \in Adjs /\ view.adj.size <= view.adj.upper
    BY <1>0, ViewFields DEF Typed, ValueInBounds
  <2>2. view.adj.upper \in Nat /\ view.adj.size \in Nat
    BY <2>1, ViewAssumption DEF Adjs
  <2>3. value \in Nat
    BY <1>0, <2>1, <2>2
  <2>4. /\ view' = u /\ asked' = None /\ view.mode # "index"
        /\ UNCHANGED <<window, settings, presented>>
        /\ AtMost(Whole(value), Greatest(Top, Whole(view.adj.upper - view.adj.size)))
    BY <1>7 DEF DragScrollbar, Furthest
  <2>5. /\ [view.adj EXCEPT !.value = Whole(value)] \in Adjs
        /\ ValueInBounds([view.adj EXCEPT !.value = Whole(value)])
    BY <2>1, <2>3, <2>4, DraggedInBounds
  <2> HIDE DEF u
  <2>6. Left(u)
    <3>1. Sound(u, window) /\ Synced(u) /\ u.mode = view.mode /\ Alike(u, view)
      BY <1>0, <2>4, <2>5, SetAdjustmentKeeps DEF u
    <3> QED BY <1>0, <3>1, AlikeLeft
  <2>7. Left(view')
    BY <2>4, <2>6
  <2> QED BY <2>4, <2>7, LeavingKeeps
<1>8. ASSUME NEW x \in Columns, ScrollSideways(x)
      PROVE  Laid'
  <2> DEFINE leaf == PositionToPage(view.doc, x, view.doc.pos)
             d == [view.doc EXCEPT !.x = x, !.page = leaf]
             u == [view EXCEPT !.doc = d]
  <2>1. leaf \in Pages
    BY <1>0, DocFields, PositionPage
  <2> HIDE DEF leaf
  <2>2. view' = u /\ asked' = None /\ UNCHANGED <<window, settings, presented>>
    BY <1>0, <1>8 DEF ScrollSideways, Typed, Views, leaf
  <2>3. Sound(u, window) /\ Synced(u) /\ u.mode = view.mode /\ Alike(u, view)
    <3>1. d \in Docs /\ d.ncol = view.doc.ncol /\ d.first = view.doc.first
          /\ d.cell = view.doc.cell /\ d.pos = view.doc.pos /\ d.view = view.doc.view
          /\ d.adjust = view.doc.adjust
      BY <1>0, <2>1 DEF Docs
    <3> HIDE DEF d
    <3> QED BY <1>0, <3>1, NewDocKeeps
  <2> HIDE DEF u
  <2>4. Left(view')
    BY <1>0, <2>2, <2>3, AlikeLeft
  <2> QED BY <2>2, <2>4, LeavingKeeps
<1> QED BY <1>1, <1>2, <1>3, <1>5, <1>6, <1>7, <1>8 DEF Scrolls

\* So do zooms, modes, the number of columns, the presentation and the index.
LEMMA LayoutsKeep ==
    ASSUME SurfaceIsHigh, Laid, Layouts
    PROVE  Laid'
<1>0. /\ Sound(view, window) /\ Synced(view) /\ Typed(view) /\ Placed(view) /\ Eased(view)
      /\ view.doc \in Docs /\ view.doc.page \in Pages /\ view.doc.ncol \in 1 .. 2
      /\ view.doc.first \in 1 .. 2 /\ view.doc.cell \in Cells
  BY LaidMeans
<1>1. ASSUME NEW cell \in Cells, Zoom(cell)
      PROVE  Laid'
  <2> DEFINE a == SetAdjustMode(view, "none")
             z == SetZoom(a, cell)
             w == RenderAll(z)
  <2>1. Sound(a, window) /\ Synced(a) /\ a.mode = view.mode /\ Eased(a)
    BY <1>0, SetAdjustModeKeeps DEF Adjusts, Eased
  <2> HIDE DEF a
  <2>2. Typed(z) /\ Placed(z) /\ z.mode = view.mode
    BY <2>1, SetZoomKeeps DEF Sound
  <2> HIDE DEF z
  <2>3. Sound(w, window) /\ w.mode = view.mode /\ Eased(w)
    BY <2>2, RenderAllKeeps DEF Eased
  <2> HIDE DEF w
  <2>4. Left(RefreshView(w)) /\ Left(a)
    BY <2>1, <2>3, RefreshLeft DEF Left
  <2>5. Moving(a) \/ Moving(RefreshView(w))
    BY <1>1 DEF Zoom, a, z, w
  <2> QED BY <2>4, <2>5, MovingKeeps
<1>2. ASSUME NEW cell \in Cells, Rotate(cell)
      PROVE  Laid'
  <2> DEFINE z == Zoomed(view, cell)
  <2>1. Based(z)
    BY ZoomedBased
  <2>2. Going(PageSet(z, view.doc.page), view.doc.page)
    BY <1>2 DEF Rotate
  <2> HIDE DEF z
  <2> QED BY <1>0, <2>1, <2>2, PageGoing
<1>3. ASSUME NEW adjust \in Adjusts \ {"inputbar"}, AdjustWindow(adjust)
      PROVE  Laid'
  <2> DEFINE a == SetAdjustMode(view, adjust)
  <2>1. Sound(a, window) /\ Synced(a) /\ a.mode = view.mode
    BY <1>0, SetAdjustModeKeeps
  <2>2. Moving(AdjustView(a))
    BY <1>3 DEF AdjustWindow
  <2> HIDE DEF a
  <2>3. Left(AdjustView(a))
    BY <2>1, AdjustViewSyncs DEF Left, Eased
  <2> QED BY <2>2, <2>3, MovingKeeps
<1>4. ASSUME NEW ncol \in 1 .. 2, NEW first \in 1 .. 2, ChangeLayout(ncol, first)
      PROVE  Laid'
  <2>1. Left(SetLayout(view, ncol, first))
    BY <1>0, SetLayoutKeeps DEF Left, Eased
  <2> QED BY <1>4, <2>1, MovingKeeps DEF ChangeLayout
<1>5. ASSUME TogglePageMode
      PROVE  Laid'
  <2> DEFINE t == SetLayout(view, 3 - view.doc.ncol, view.doc.first)
             a == AdjustView(t)
             p == PageSet(a, view.doc.page)
             w == RenderAll(p)
  <2>1. 3 - view.doc.ncol \in 1 .. 2
    BY <1>0
  <2>2. Sound(t, window) /\ Synced(t) /\ t.mode = view.mode
    BY <1>0, <2>1, SetLayoutKeeps
  <2> HIDE DEF t
  <2>3. Sound(a, window) /\ a.mode = view.mode
    BY <2>2, AdjustViewSyncs
  <2> HIDE DEF a
  <2>4. Sound(p, window) /\ p.mode = view.mode
    BY <1>0, <2>3, PageSetKeeps
  <2> HIDE DEF p
  <2>5. Sound(w, window) /\ w.mode = view.mode /\ Eased(w)
    BY <2>4, RenderAllKeeps DEF Sound, Eased
  <2> HIDE DEF w
  <2>6. Left(RefreshView(w))
    BY <2>5, RefreshLeft
  <2>7. Moving(RefreshView(w))
    BY <1>5 DEF TogglePageMode, t, a, p, w
  <2> QED BY <2>6, <2>7, MovingKeeps
<1>6. ASSUME StartPresentation
      PROVE  Laid'
  <2> DEFINE t == SetLayout(view, 1, view.doc.first)
             m == SetAdjustMode(t, "bestfit")
             a == AdjustView(m)
             w == RefreshView(a)
             u == [w EXCEPT !.mode = "presentation"]
  <2>1. Sound(t, window) /\ Synced(t)
    BY <1>0, SetLayoutKeeps
  <2> HIDE DEF t
  <2>2. Sound(m, window) /\ Synced(m)
    BY <2>1, SetAdjustModeKeeps DEF Adjusts
  <2> HIDE DEF m
  <2>3. Sound(a, window) /\ Eased(a)
    BY <2>2, AdjustViewSyncs DEF Eased
  <2> HIDE DEF a
  <2>4. Sound(w, window) /\ Synced(w) /\ Eased(w)
    BY <2>3, RefreshViewKeeps, AlikeFits
  <2> HIDE DEF w
  <2>5. Sound(u, window) /\ Synced(u) /\ u.mode = "presentation" /\ Eased(u)
    BY <2>4, ModeKeeps, AlikeFits
  <2> HIDE DEF u
  <2>6. /\ presented' = [ncol |-> view.doc.ncol, first |-> view.doc.first, cell |-> view.doc.cell]
        /\ view' = u /\ asked' = None /\ UNCHANGED <<window, settings>>
    BY <1>6 DEF StartPresentation, t, m, a, w, u
  <2>7. presented' \in Presentations
    BY <1>0, <2>6 DEF Presentations
  <2> QED BY <2>5, <2>6, <2>7 DEF Laid
<1>7. ASSUME EndPresentation
      PROVE  Laid'
  <2> DEFINE t == SetLayout(view, presented.ncol, view.doc.first)
             l == SetLayout(t, presented.ncol, presented.first)
             z == SetZoom(l, presented.cell)
             r == RenderAll(z)
             w == RefreshView(r)
             u == [w EXCEPT !.mode = "normal"]
  <2>1. presented.ncol \in 1 .. 2 /\ presented.first \in 1 .. 2 /\ presented.cell \in Cells
    BY <1>7 DEF EndPresentation, Laid, Presentations
  <2>2. Sound(t, window)
    BY <1>0, <2>1, SetLayoutKeeps
  <2> HIDE DEF t
  <2>3. Sound(l, window)
    BY <2>1, <2>2, SetLayoutKeeps DEF Sound
  <2> HIDE DEF l
  <2>4. Typed(z) /\ Placed(z)
    BY <2>1, <2>3, SetZoomKeeps DEF Sound
  <2> HIDE DEF z
  <2>5. Sound(r, window) /\ Eased(r)
    BY <2>4, RenderAllKeeps DEF Eased
  <2> HIDE DEF r
  <2>6. Sound(w, window) /\ Synced(w) /\ Eased(w)
    BY <2>5, RefreshViewKeeps, AlikeFits
  <2> HIDE DEF w
  <2>7. Sound(u, window) /\ Synced(u) /\ u.mode = "normal" /\ Eased(u)
    BY <2>6, ModeKeeps, AlikeFits
  <2> HIDE DEF u
  <2>8. presented' = None /\ view' = u /\ asked' = None /\ UNCHANGED <<window, settings>>
    BY <1>7 DEF EndPresentation, t, l, z, r, w, u
  <2> QED BY <2>7, <2>8 DEF Laid
<1>8. ASSUME FocusInputbar
      PROVE  Laid'
  <2>1. Left(SetAdjustMode(view, "inputbar"))
    BY <1>0, SetAdjustModeKeeps DEF Left, Adjusts, Eased
  <2> QED BY <1>8, <2>1, MovingKeeps DEF FocusInputbar
<1>9. ASSUME ToggleIndex
      PROVE  Laid'
  <2>1. presented' = None /\ asked' = None /\ UNCHANGED <<window, settings>>
    BY <1>9 DEF ToggleIndex
  <2>2. CASE view.mode = "index"
    <3> DEFINE n == [view EXCEPT !.mode = "normal"]
               q == RenderAll(n)
    <3>1. Sound(n, window) /\ n.mode = "normal"
      BY <1>0, ModeKeeps
    <3>2. [view EXCEPT !.mode = "normal", !.queued = TRUE] = q
      BY <1>0 DEF RenderAll, Typed, Views
    <3> HIDE DEF n
    <3>3. Sound(q, window) /\ q.mode = "normal" /\ Eased(q)
      BY <3>1, RenderAllKeeps DEF Sound, Eased
    <3>4. view' = RefreshView(q)
      BY <1>9, <2>2, <3>2 DEF ToggleIndex
    <3> HIDE DEF q
    <3>5. Sound(view', window) /\ Synced(view') /\ view'.mode = "normal" /\ Eased(view')
      BY <3>3, <3>4, RefreshViewKeeps, AlikeFits
    <3> QED BY <2>1, <3>5 DEF Laid
  <2>3. CASE view.mode # "index"
    <3> DEFINE adjust == IF view.doc.adjust = "inputbar" THEN "none" ELSE view.doc.adjust
               a == SetAdjustMode(view, adjust)
               u == [a EXCEPT !.mode = "index"]
    <3>1. adjust \in Adjusts
      BY <1>0, DocFields DEF Adjusts
    <3>2. view' = [view EXCEPT !.mode = "index", !.doc.adjust = adjust]
      BY <1>9, <2>3 DEF ToggleIndex
    <3>3. Sound(a, window) /\ Synced(a) /\ Eased(a)
      <4>1. /\ Sound(a, window) /\ Synced(a)
            /\ adjust = view.doc.adjust => Alike(a, view)
            /\ adjust \in {"none", "inputbar"} => Fit(a)
        BY <1>0, <3>1, SetAdjustModeKeeps
      <4>2. adjust = view.doc.adjust \/ adjust = "none"
        OBVIOUS
      <4> QED BY <1>0, <4>1, <4>2, AlikeFits DEF Eased
    <3> HIDE DEF adjust
    <3>4. [view EXCEPT !.mode = "index", !.doc.adjust = adjust] = u
      BY <1>0 DEF SetAdjustMode, Typed, Views
    <3> HIDE DEF a
    <3>5. Sound(u, window) /\ Synced(u) /\ u.mode = "index" /\ Eased(u)
      BY <3>3, ModeKeeps, AlikeFits
    <3> HIDE DEF u
    <3> QED BY <2>1, <3>2, <3>4, <3>5 DEF Laid
  <2> QED BY <2>2, <2>3
<1> QED BY <1>1, <1>2, <1>3, <1>4, <1>5, <1>6, <1>7, <1>8, <1>9 DEF Layouts

\* So does resizing the window, which GTK has yet to lay out.
LEMMA ResizeKeeps ==
    ASSUME SurfaceIsHigh, Laid, NEW height \in Windows, Resize(height)
    PROVE  Laid'
<1> DEFINE u == RenderAll(view)
<1>0. Typed(view) /\ Placed(view) /\ Synced(view)
  BY LaidMeans
<1>1. Sound(u, height) /\ Synced(u) /\ u.mode = view.mode /\ Eased(u)
  BY <1>0, RenderAllKeeps DEF Eased
<1>2. window' = height /\ view' = u /\ asked' = None /\ UNCHANGED <<settings, presented>>
  BY DEF Resize, RenderAll
<1> HIDE DEF u
<1> QED BY <1>1, <1>2 DEF Laid

\* So does GTK: it changes the bounds, and the callbacks set the value; a page
\* that was asked for stays in view, since nothing changes for it.
LEMMA RelayoutKeeps ==
    ASSUME SurfaceIsHigh, Laid, Relayout
    PROVE  Laid'
<1> DEFINE a == Allocated(view)
           r == Render(a)
<1>0. Typed(view) /\ Placed(view) /\ Synced(view) /\ window \in Windows
  BY LaidMeans
<1>1. view.queued /\ view.mode # "index" /\ UNCHANGED <<window, settings, presented, asked>>
  BY DEF Relayout
<1>2. Sound(a, window) /\ Synced(a) /\ a.mode = view.mode
  BY <1>0, <1>1, AllocatedKeeps
<1>3. view' = AdjustView(a) \/ view' = AdjustView(r)
  BY DEF Relayout
<1> HIDE DEF a
<1>4. Sound(r, window) /\ Synced(r) /\ r.mode = view.mode
  BY <1>2, RenderSyncs
<1> HIDE DEF r
<1>5. Left(AdjustView(a)) /\ Left(AdjustView(r))
  BY <1>2, <1>4, AdjustViewSyncs DEF Left, Eased
<1>6. Left(view')
  BY <1>3, <1>5
<1>7. asked' = asked /\ asked \in Pages \cup {None}
  BY <1>1 DEF Laid
<1>8. ASSUME asked # None
      PROVE  Steady(view', asked) /\ view'.adj.size = window
  <2> DEFINE u == [view EXCEPT !.queued = FALSE]
  <2>1. Steady(view, asked) /\ view.adj.size = window
    BY <1>8 DEF Laid
  <2>2. /\ AdjustView(Allocated(view)) = u /\ AdjustView(Render(Allocated(view))) = u
        /\ Steady(u, asked) /\ u.adj.size = window
    BY <1>0, <2>1, SteadyRelaid
  <2>3. view' = u
    BY <2>2 DEF Relayout
  <2> HIDE DEF u
  <2> QED BY <2>2, <2>3
<1> QED BY <1>1, <1>6, <1>7, <1>8, LeavingKeeps

\* Every step of View keeps it.
LEMMA StepLaid ==
    ASSUME SurfaceIsHigh, ViewInv, [ViewNext]_viewVars
    PROVE  ViewInv'
<1>0. Laid /\ moves \in 0 .. MaxMoves /\ MaxMoves \in Nat
  BY ViewAssumption DEF ViewInv
<1>1. CASE Act
  <2>1. moves' \in 0 .. MaxMoves
    BY <1>0, <1>1 DEF Act
  <2>2. Goings \/ Scrolls \/ Layouts \/ \E height \in Windows : Resize(height)
    BY <1>1 DEF Act
  <2> QED BY <1>0, <2>1, <2>2, GoingsKeep, ScrollsKeep, LayoutsKeep, ResizeKeeps DEF ViewInv
<1>2. CASE Relayout /\ UNCHANGED moves
  BY <1>0, <1>2, RelayoutKeeps DEF ViewInv
<1>3. CASE UNCHANGED viewVars
  <2>1. UNCHANGED <<view, window, settings, presented, asked, moves>>
    BY <1>3 DEF viewVars
  <2>2. (asked # None => Steady(view, asked))' <=> (asked # None => Steady(view, asked))
    BY <2>1 DEF Steady, InBounds, Fit, Fitting, Seen
  <2> QED BY <1>0, <2>1, <2>2 DEF ViewInv, Laid
<1> QED BY <1>1, <1>2, <1>3 DEF ViewNext

\* The invariant of View: at every moment GTK is to lay the window out, or the
\* layout is in order (zathura.c, callbacks.c, document-widget.c, shortcuts.c).
THEOREM LaidAlways ==
    ASSUME SurfaceIsHigh
    PROVE  ViewSpec => []ViewInv
<1>1. ViewInit => ViewInv
  BY InitLaid
<1>2. ViewInv /\ [ViewNext]_viewVars => ViewInv'
  BY StepLaid
<1> QED BY <1>1, <1>2, PTL DEF ViewSpec

\* When nothing is left for GTK to do, the window shows the position that the
\* document has: cb_view_adjustment_changed, position_set and
\* zathura_document_widget_set_value_from_ratio agree with what
\* cb_view_vadjustment_value_changed reads back, whatever rows the grid holds.
THEOREM ViewShowsPosition ==
    ASSUME SurfaceIsHigh
    PROVE  ViewSpec => []ShowsPosition
<1>1. ViewInv => ShowsPosition
  BY ViewInvImplies
<1> QED BY <1>1, LaidAlways, PTL

\* A page that was asked for (sc_goto, sc_navigate, links, search results,
\* rotating) is in view once GTK has laid the window out, and stays there.
THEOREM ViewShowsAskedPage ==
    ASSUME SurfaceIsHigh
    PROVE  ViewSpec => []AskedPageShown
<1>1. ViewInv => AskedPageShown
  BY ViewInvImplies
<1> QED BY <1>1, LaidAlways, PTL

\* The types of the variables of View.
THEOREM ViewTypes ==
    ASSUME SurfaceIsHigh
    PROVE  ViewSpec => []ViewTypeOK
<1>1. ViewInv => ViewTypeOK
  BY ViewInvImplies
<1> QED BY <1>1, LaidAlways, PTL
=============================================================================
