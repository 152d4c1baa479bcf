-------------------------- MODULE PageCacheProofs --------------------------
(***************************************************************************)
(* Proofs about PageCache, for a document of any length and a cache of any *)
(* size: cache, flags and view times agree, the page evicted is the one    *)
(* viewed least recently, no surface of an earlier layout stays, no page   *)
(* out of sight keeps a surface that the cache does not count, and the     *)
(* widgets use the renderer as RenderService has it.                       *)
(***************************************************************************)
EXTENDS PageCache, SequenceTheorems, WellFoundedInduction, TLAPS

Occurs(q, s) == \E i \in DOMAIN s : s[i] = q

\* The time at which a page was viewed is known from the moment it is flagged
\* visible: what the search for the oldest entry of the cache relies on.
CachedAreTimed == \A q \in Cached : Occurs(q, past) \/ Occurs(q, future)

CacheInv == CacheWellFormed /\ FlagsMatchCache /\ CachedAreTimed

\* How far the sweep has come, when nothing but zathura scrolls; asks are of
\* visible pages.
SweptSoFar ==
  /\ position = scroll
  /\ \A p \in Pages : p < sweep => (p \in visible <=> p \in OnScreen(position))
  /\ \A p \in Pages : job[p] # "none" => p \in visible

SurfacesAreCounted ==
  \A p \in Pages : surface[p] # "none" /\ p \notin visible => p \in cached

ViewInv == CacheInv /\ SweptSoFar /\ SurfacesAreCounted

-----------------------------------------------------------------------------
(* Sequences *)

\* A set of positions has a least one.
LEMMA LeastIndex ==
  ASSUME NEW S \in SUBSET Nat, S # {}
  PROVE  \E m \in S : \A n \in S : m <= n
<1>1. \E m \in S : \A n \in S : ~(<<n, m>> \in OpToRel(<, Nat))
  BY WFMin, NatLessThanWellFounded, Zenon
<1>2. \A m, n \in S : <<n, m>> \in OpToRel(<, Nat) <=> n < m
  BY DEF OpToRel
<1>3. \E m \in S : \A n \in S : ~(n < m)
  BY <1>1, <1>2, Zenon
<1> QED BY <1>3

\* RemoveFirst takes nothing away but the element it is asked to.
LEMMA RemoveFirstProperties ==
  ASSUME NEW S, NEW s \in Seq(S), NEW e
  PROVE  /\ RemoveFirst(s, e) \in Seq(S)
         /\ \A q : Occurs(q, s) /\ q # e => Occurs(q, RemoveFirst(s, e))
<1> DEFINE I     == {i \in 1 .. Len(s) : s[i] = e}
           first == SelectInSeq(s, LAMBDA v : v = e)
<1>1. CASE I = {}
  BY <1>1, LenProperties DEF RemoveFirst
<1>2. CASE I # {}
  <2>1. PICK m \in I : \A n \in I : m <= n
    <3>1. I \in SUBSET Nat
      BY LenProperties
    <3> HIDE DEF I
    <3> QED BY <1>2, <3>1, LeastIndex
  <2>2. first = Min(I)
    BY <1>2, Zenon DEF SelectInSeq
  <2>3. Min(I) \in I
    BY <2>1, Zenon DEF Min
  <2>4. RemoveFirst(s, e) = RemoveAt(s, first)
    BY <1>2, Zenon DEF RemoveFirst
  <2>5. first \in 1 .. Len(s) /\ s[first] = e
    BY <2>2, <2>3, Zenon
  <2> DEFINE a == SubSeq(s, 1, first - 1)
             b == SubSeq(s, first + 1, Len(s))
  <2>6. RemoveFirst(s, e) = a \o b
    BY <2>4, Zenon DEF RemoveAt
  <2> HIDE DEF first
  <2>7. Len(s) \in Nat /\ \A i \in 1 .. Len(s) : s[i] \in S
    BY LenProperties
  <2>8. /\ a \in Seq(S) /\ Len(a) = first - 1
        /\ \A i \in 1 .. first - 1 : a[i] = s[i]
    BY <2>5, <2>7, SubSeqProperties
  <2>9. /\ b \in Seq(S) /\ Len(b) = Len(s) - first
        /\ \A i \in 1 .. Len(s) - first : b[i] = s[first + i]
    <3>1. first + 1 \in Int /\ Len(s) \in Int /\ \A i \in first + 1 .. Len(s) : s[i] \in S
      BY <2>5, <2>7
    <3> QED BY <2>5, <2>7, <3>1, SubSeqProperties
  <2> HIDE DEF a, b
  <2>10. /\ a \o b \in Seq(S)
         /\ DOMAIN (a \o b) = 1 .. Len(s) - 1
         /\ \A i \in 1 .. Len(s) - 1 :
              (a \o b)[i] = IF i <= first - 1 THEN a[i] ELSE b[i - (first - 1)]
    BY <2>5, <2>7, <2>8, <2>9, ConcatProperties, LenProperties
  <2>11. ASSUME NEW i \in DOMAIN s, s[i] # e
         PROVE  \E k \in DOMAIN (a \o b) : (a \o b)[k] = s[i]
    <3>1. i \in 1 .. Len(s) /\ i # first
      BY <2>5, <2>11, LenProperties
    <3>2. CASE i < first
      <4>1. i \in 1 .. Len(s) - 1 /\ i \in 1 .. first - 1 /\ i <= first - 1
        BY <2>5, <2>7, <3>1, <3>2
      <4> QED BY <2>8, <2>10, <4>1
    <3>3. CASE i > first
      <4>1. /\ i - 1 \in 1 .. Len(s) - 1 /\ ~(i - 1 <= first - 1)
            /\ i - first \in 1 .. Len(s) - first
            /\ i - 1 - (first - 1) = i - first /\ first + (i - first) = i
        BY <2>5, <2>7, <3>1, <3>3
      <4> QED BY <2>9, <2>10, <4>1
    <3> QED BY <2>5, <3>1, <3>2, <3>3
  <2> QED BY <2>6, <2>10, <2>11 DEF Occurs
<1> QED BY <1>1, <1>2

\* What was in a sequence is in it after an insertion, and so is the new element.
LEMMA InsertAtProperties ==
  ASSUME NEW S, NEW s \in Seq(S), NEW e \in S, NEW k \in 1 .. Len(s) + 1
  PROVE  /\ InsertAt(s, k, e) \in Seq(S)
         /\ \A q : Occurs(q, s) \/ q = e => Occurs(q, InsertAt(s, k, e))
<1> DEFINE a == SubSeq(s, 1, k - 1)
           b == SubSeq(s, k, Len(s))
           t == (a \o <<e>>) \o b
<1>1. InsertAt(s, k, e) = t
  BY Zenon DEF InsertAt
<1>2. Len(s) \in Nat /\ \A i \in 1 .. Len(s) : s[i] \in S
  BY LenProperties
<1>3. /\ a \in Seq(S) /\ Len(a) = k - 1
      /\ \A i \in 1 .. k - 1 : a[i] = s[i]
  BY <1>2, SubSeqProperties
<1>4. /\ b \in Seq(S) /\ Len(b) = Len(s) - k + 1
      /\ \A i \in 1 .. Len(s) - k + 1 : b[i] = s[k + i - 1]
  <2>1. k \in Int /\ Len(s) \in Int /\ \A i \in k .. Len(s) : s[i] \in S
    BY <1>2
  <2> QED BY <1>2, <2>1, SubSeqProperties
<1> HIDE DEF a, b
<1>5. /\ <<e>> \in Seq(S) /\ Len(<<e>>) = 1 /\ <<e>>[1] = e
  OBVIOUS
<1>6. /\ a \o <<e>> \in Seq(S) /\ Len(a \o <<e>>) = k
      /\ \A i \in 1 .. k : (a \o <<e>>)[i] = IF i <= k - 1 THEN a[i] ELSE e
  <2>1. /\ a \o <<e>> \in Seq(S) /\ Len(a \o <<e>>) = Len(a) + Len(<<e>>)
        /\ \A i \in 1 .. Len(a) + Len(<<e>>) :
             (a \o <<e>>)[i] = IF i <= Len(a) THEN a[i] ELSE <<e>>[i - Len(a)]
    BY <1>3, <1>5, ConcatProperties
  <2> QED BY <1>2, <1>3, <1>5, <2>1
<1>7. /\ t \in Seq(S) /\ DOMAIN t = 1 .. Len(s) + 1
      /\ \A i \in 1 .. Len(s) + 1 : t[i] = IF i <= k THEN (a \o <<e>>)[i] ELSE b[i - k]
  <2> DEFINE c == a \o <<e>>
  <2>1. c \in Seq(S) /\ Len(c) = k
    BY <1>6
  <2> HIDE DEF c
  <2>2. /\ c \o b \in Seq(S) /\ Len(c \o b) = Len(c) + Len(b)
        /\ \A i \in 1 .. Len(c) + Len(b) : (c \o b)[i] = IF i <= Len(c) THEN c[i] ELSE b[i - Len(c)]
    BY <1>4, <2>1, ConcatProperties
  <2>3. Len(c) + Len(b) = Len(s) + 1
    BY <1>2, <1>4, <2>1
  <2>4. DOMAIN (c \o b) = 1 .. Len(s) + 1
    BY <2>2, <2>3, LenProperties
  <2>5. \A i \in 1 .. Len(s) + 1 : (c \o b)[i] = IF i <= k THEN c[i] ELSE b[i - k]
    BY <2>1, <2>2, <2>3
  <2> QED BY <2>2, <2>4, <2>5 DEF c
<1> HIDE DEF t
<1>8. t[k] = e /\ k \in DOMAIN t
  BY <1>2, <1>6, <1>7
<1>9. ASSUME NEW i \in DOMAIN s
      PROVE  \E n \in DOMAIN t : t[n] = s[i]
  <2>1. i \in 1 .. Len(s)
    BY LenProperties
  <2>2. CASE i < k
    <3>1. i \in 1 .. k - 1 /\ i \in 1 .. Len(s) + 1 /\ i <= k /\ i \in 1 .. k /\ i <= k - 1
      BY <1>2, <2>1, <2>2
    <3> QED BY <1>3, <1>6, <1>7, <3>1
  <2>3. CASE i >= k
    <3>1. /\ i + 1 \in 1 .. Len(s) + 1 /\ ~(i + 1 <= k)
          /\ i + 1 - k \in 1 .. Len(s) - k + 1 /\ k + (i + 1 - k) - 1 = i
      BY <1>2, <2>1, <2>3
    <3> QED BY <1>4, <1>7, <3>1
  <2> QED BY <1>2, <2>1, <2>2, <2>3
<1> QED BY <1>1, <1>7, <1>8, <1>9 DEF Occurs

\* Appending, too.
LEMMA AppendOccurs ==
  ASSUME NEW S, NEW s \in Seq(S), NEW e \in S
  PROVE  /\ Append(s, e) \in Seq(S)
         /\ \A q : Occurs(q, s) \/ q = e => Occurs(q, Append(s, e))
<1>1. /\ Append(s, e) \in Seq(S) /\ DOMAIN Append(s, e) = 1 .. Len(s) + 1
      /\ \A i \in 1 .. Len(s) : Append(s, e)[i] = s[i]
      /\ Append(s, e)[Len(s) + 1] = e
  BY AppendProperties, LenProperties
<1>2. DOMAIN s = 1 .. Len(s) /\ Len(s) \in Nat
  BY LenProperties
<1> QED BY <1>1, <1>2 DEF Occurs

-----------------------------------------------------------------------------
(* View times *)

Timed(q) == Occurs(q, past) \/ Occurs(q, future)

\* Viewing a page gives it a time and takes no other page's away.
LEMMA TouchProperties ==
  ASSUME NEW p \in Pages, past \in Seq(Pages), future \in Seq(Pages),
         Touch(p) \/ TouchAhead(p)
  PROVE  /\ past' \in Seq(Pages) /\ future' \in Seq(Pages)
         /\ \A q : Timed(q) \/ q = p => Timed(q)'
<1> DEFINE P == RemoveFirst(past, p)
           F == RemoveFirst(future, p)
<1>1. /\ P \in Seq(Pages) /\ \A q : Occurs(q, past) /\ q # p => Occurs(q, P)
      /\ F \in Seq(Pages) /\ \A q : Occurs(q, future) /\ q # p => Occurs(q, F)
  BY RemoveFirstProperties
<1>2. CASE Touch(p)
  <2>1. past' = Append(P, p) /\ future' = F
    BY <1>2 DEF Touch
  <2> HIDE DEF P, F
  <2>2. /\ past' \in Seq(Pages) /\ \A q : Occurs(q, P) \/ q = p => Occurs(q, past')
    BY <1>1, <2>1, AppendOccurs
  <2>3. \A q : Occurs(q, past)' <=> Occurs(q, past')
    BY DEF Occurs
  <2>4. \A q : Occurs(q, future)' <=> Occurs(q, future')
    BY DEF Occurs
  <2> QED BY <1>1, <2>1, <2>2, <2>3, <2>4 DEF Timed
<1>3. CASE TouchAhead(p)
  <2>1. PICK k \in 1 .. Len(F) + 1 : past' = P /\ future' = InsertAt(F, k, p)
    BY <1>3 DEF TouchAhead
  <2> HIDE DEF P, F
  <2>2. /\ future' \in Seq(Pages) /\ \A q : Occurs(q, F) \/ q = p => Occurs(q, future')
    BY <1>1, <2>1, InsertAtProperties
  <2>3. \A q : Occurs(q, past)' <=> Occurs(q, past')
    BY DEF Occurs
  <2>4. \A q : Occurs(q, future)' <=> Occurs(q, future')
    BY DEF Occurs
  <2> QED BY <1>1, <2>1, <2>2, <2>3, <2>4 DEF Timed
<1> QED BY <1>2, <1>3

\* Time goes by for all pages alike.
LEMMA TickProperties ==
  ASSUME past \in Seq(Pages), future \in Seq(Pages), Tick
  PROVE  /\ past' \in Seq(Pages) /\ future' \in Seq(Pages)
         /\ \A q : Timed(q) => Timed(q)'
<1>1. /\ future # <<>> /\ past' = Append(past, Head(future)) /\ future' = Tail(future)
  BY DEF Tick
<1>2. /\ Head(future) \in Pages /\ future' \in Seq(Pages) /\ Len(future') = Len(future) - 1
      /\ \A i \in 1 .. Len(future) - 1 : future'[i] = future[i + 1]
      /\ Len(future) \in Nat \ {0} /\ Head(future) = future[1]
  BY <1>1, HeadTailProperties, LenProperties
<1>3. past' \in Seq(Pages) /\ \A q : Occurs(q, past) \/ q = Head(future) => Occurs(q, past')
  BY <1>1, <1>2, AppendOccurs
<1>4. ASSUME NEW q, Occurs(q, future), q # Head(future)
      PROVE  Occurs(q, future')
  <2>1. PICK i \in 1 .. Len(future) : future[i] = q
    BY <1>4, LenProperties DEF Occurs
  <2>2. i # 1
    BY <1>2, <1>4, <2>1
  <2>3. i - 1 \in 1 .. Len(future) - 1 /\ (i - 1) + 1 = i
    BY <1>2, <2>1, <2>2
  <2>4. i - 1 \in DOMAIN future' /\ future'[i - 1] = q
    BY <1>2, <2>1, <2>3, LenProperties
  <2> QED BY <2>4 DEF Occurs
<1>5. \A q : (Occurs(q, past)' <=> Occurs(q, past')) /\ (Occurs(q, future)' <=> Occurs(q, future'))
  BY DEF Occurs
<1> QED BY <1>2, <1>3, <1>4, <1>5 DEF Timed

-----------------------------------------------------------------------------
(* The page cache *)

OldestCell(i) ==
  \A k \in Cells \ {i} :
    \/ FindsIcon(cache[i])
    \/ ~FindsIcon(cache[k]) /\ Before(cache[i], cache[k])

\* A full cache has an entry that is the oldest: every entry has been viewed.
LEMMA LruCellProperties ==
  ASSUME CacheInv, num = CacheSize
  PROVE  LruCell \in Cells /\ OldestCell(LruCell)
<1> DEFINE order == past \o future
<1>1. past \in Seq(Pages) /\ future \in Seq(Pages) /\ Cells # {} /\ CacheSize \in Nat
  <2>1. CacheSize \in Nat \ {0}
    BY SizesAssumption
  <2>2. 1 \in Cells
    BY <2>1 DEF Cells
  <2> QED BY <2>1, <2>2 DEF CacheInv, CacheWellFormed, TypeOK
<1>2. /\ \A i \in Cells : cache[i] \in Cached
      /\ \A i, k \in Cells : cache[i] = cache[k] => i = k
  BY DEF CacheInv, CacheWellFormed, Cells, Cached
<1>3. /\ order \in Seq(Pages) /\ Len(order) = Len(past) + Len(future)
      /\ \A i \in 1 .. Len(past) + Len(future) :
           order[i] = IF i <= Len(past) THEN past[i] ELSE future[i - Len(past)]
  BY <1>1, ConcatProperties
<1> HIDE DEF order
<1>4. Len(past) \in Nat /\ Len(future) \in Nat
  BY <1>1, LenProperties
<1>5. \A i \in Cells : \E n \in 1 .. Len(order) : order[n] = cache[i]
  <2> SUFFICES ASSUME NEW i \in Cells
               PROVE  \E n \in 1 .. Len(order) : order[n] = cache[i]
    OBVIOUS
  <2>1. CASE Occurs(cache[i], past)
    <3>1. PICK n \in 1 .. Len(past) : past[n] = cache[i]
      BY <1>1, <2>1, LenProperties DEF Occurs
    <3>2. n \in 1 .. Len(past) + Len(future) /\ n <= Len(past)
      BY <1>4
    <3> QED BY <1>3, <3>1, <3>2
  <2>2. CASE Occurs(cache[i], future)
    <3>1. PICK n \in 1 .. Len(future) : future[n] = cache[i]
      BY <1>1, <2>2, LenProperties DEF Occurs
    <3> DEFINE m == n + Len(past)
    <3>2. m \in 1 .. Len(past) + Len(future) /\ ~(m <= Len(past)) /\ m - Len(past) = n
      BY <1>4, <3>1
    <3> HIDE DEF m
    <3> QED BY <1>3, <3>1, <3>2
  <2> QED BY <1>2, <2>1, <2>2 DEF CacheInv, CachedAreTimed
<1>6. \E i \in Cells : OldestCell(i)
  <2>1. CASE \E i \in Cells : FindsIcon(cache[i])
    BY <2>1 DEF OldestCell
  <2>2. CASE \A i \in Cells : ~FindsIcon(cache[i])
    <3> DEFINE N == {n \in 1 .. Len(order) : \E i \in Cells : order[n] = cache[i]}
    <3>1. N \in SUBSET Nat /\ N # {}
      <4>1. N \in SUBSET Nat
        BY <1>3, <1>4
      <4>2. PICK i \in Cells : TRUE
        BY <1>1
      <4>3. \E n \in 1 .. Len(order) : order[n] = cache[i]
        BY <1>5
      <4> QED BY <4>1, <4>3
    <3>2. PICK m \in N : \A n \in N : m <= n
      <4> HIDE DEF N
      <4> QED BY <3>1, LeastIndex
    <3>3. PICK i \in Cells : order[m] = cache[i]
      OBVIOUS
    <3>4. ASSUME NEW k \in Cells \ {i}
          PROVE  Before(cache[i], cache[k])
      <4>1. PICK n \in 1 .. Len(order) : order[n] = cache[k]
        BY <1>5
      <4>2. n \in N /\ m <= n /\ m # n
        BY <1>2, <3>2, <3>3, <4>1
      <4>3. m \in 1 .. Len(order) /\ m < n
        BY <1>3, <1>4, <4>1, <4>2
      <4> QED BY <3>3, <4>1, <4>3 DEF Before, order
    <3> QED BY <2>2, <3>4 DEF OldestCell
  <2> QED BY <2>1, <2>2
<1>7. LruCell = CHOOSE i \in Cells : OldestCell(i)
  BY Zenon DEF LruCell, OldestCell
<1> QED BY <1>6, <1>7

\* Adding a page keeps the cache in order and tells the widgets, and drops what the
\* evicted page's widget has unless the page is visible.
LEMMA CacheAddProperties ==
  ASSUME CacheInv, NEW p \in Pages, NEW flagged, CacheAdd(p, flagged)
  PROVE  /\ cache' \in [Cells -> Pages \union {Empty}] /\ num' \in 0 .. CacheSize
         /\ cached' \subseteq Pages
         /\ \A i \in Cells : cache'[i] # Empty <=> i <= num'
         /\ \A i, k \in 1 .. num' : cache'[i] = cache'[k] => i = k
         /\ FlagsMatchCache'
         /\ Cached' \subseteq Cached \cup {p}
         /\ surface' \in [Pages -> {"none", "old", "current"}] /\ thumbnail' \subseteq Pages
         /\ \A q \in Pages : surface'[q] \in {surface[q], "none"}
         /\ \A q \in Pages :
              surface'[q] # "none" /\ q \in cached /\ q \notin flagged => q \in cached'
         /\ ~HasIcon => \A q \in Cached \ Cached' : \A r \in Cached \ {q} : Before(q, r)
<1> USE SizesAssumption
<1>1. /\ cache \in [Cells -> Pages \union {Empty}] /\ num \in 0 .. CacheSize
      /\ cached \subseteq Pages /\ thumbnail \subseteq Pages
      /\ surface \in [Pages -> {"none", "old", "current"}]
      /\ \A i \in Cells : cache[i] # Empty <=> i <= num
      /\ \A i, k \in 1 .. num : cache[i] = cache[k] => i = k
      /\ cached = Cached \ (IF HasIcon THEN {0} ELSE {})
  BY DEF CacheInv, CacheWellFormed, TypeOK, FlagsMatchCache
<1>2. p # Empty /\ CacheSize \in Nat \ {0}
  BY DEF Pages, Empty
<1>3. CASE p \in Cached
  BY <1>1, <1>3 DEF CacheAdd, cacheVars, FlagsMatchCache, Cached
<1>4. CASE p \notin Cached /\ num = CacheSize
  <2> DEFINE c == LruCell
             q == cache[c]
  <2>1. c \in Cells /\ OldestCell(c)
    BY <1>4, LruCellProperties
  <2>2. /\ DropEvicted(q, flagged)
        /\ cache' = [cache EXCEPT ![c] = p] /\ num' = num
        /\ cached' = (cached \ Listening(q)) \union Listening(p)
    BY <1>4 DEF CacheAdd
  <2> HIDE DEF c
  <2>3. /\ \A i \in Cells : cache[i] # Empty /\ cache[i] # p
        /\ \A i, k \in Cells : cache[i] = cache[k] => i = k
    BY <1>1, <1>2, <1>4 DEF Cells, Cached
  <2>4. /\ cache' \in [Cells -> Pages \union {Empty}]
        /\ \A i \in Cells : cache'[i] = IF i = c THEN p ELSE cache[i]
    BY <1>1, <2>1, <2>2
  <2>5. q \in Pages /\ q \in Cached /\ q # p
    BY <1>1, <2>1, <2>3 DEF Cached
  <2>6. Cached' = (Cached \ {q}) \cup {p}
    <3>1. \A x : x \in Cached' <=> \E i \in Cells : x = cache'[i] /\ x # Empty
      BY DEF Cached
    <3>2. \A x : x \in Cached <=> \E i \in Cells : x = cache[i]
      BY <2>3 DEF Cached
    <3>3. \A x \in Cached' : x \in (Cached \ {q}) \cup {p}
      BY <2>1, <2>3, <2>4, <3>1, <3>2
    <3>4. \A x \in (Cached \ {q}) \cup {p} : x \in Cached'
      BY <1>2, <2>1, <2>3, <2>4, <3>1, <3>2
    <3> QED BY <3>3, <3>4
  <2>7. /\ surface' \in [Pages -> {"none", "old", "current"}] /\ thumbnail' \subseteq Pages
        /\ \A r \in Pages : surface'[r] \in {surface[r], "none"}
        /\ surface'[q] # "none" => q \notin cached \/ q \in flagged \/ Listening(q) = {}
    BY <1>1, <2>2, <2>5 DEF DropEvicted
  <2>8. cached' \subseteq Pages /\ FlagsMatchCache'
    BY <1>1, <2>2, <2>5, <2>6 DEF Listening, FlagsMatchCache
  <2>9. \A r \in Pages :
          surface'[r] # "none" /\ r \in cached /\ r \notin flagged => r \in cached'
    <3> SUFFICES ASSUME NEW r \in Pages, surface'[r] # "none", r \in cached, r \notin flagged
                 PROVE  r \in cached'
      OBVIOUS
    <3>1. CASE r = q
      <4>1. Listening(q) = {}
        BY <2>7, <3>1
      <4> QED BY <2>2, <4>1
    <3>2. CASE r # q
      BY <2>2, <3>2 DEF Listening
    <3> QED BY <3>1, <3>2
  <2>10. ~HasIcon => \A r \in Cached \ {q} : Before(q, r)
    BY <2>1 DEF OldestCell, FindsIcon, Cached
  <2>11. /\ \A i \in Cells : cache'[i] # Empty <=> i <= num'
         /\ \A i, k \in 1 .. num' : cache'[i] = cache'[k] => i = k
    BY <1>2, <1>4, <2>2, <2>3, <2>4 DEF Cells
  <2>12. \A x \in Cached \ Cached' : x = q
    BY <2>6
  <2>13. ~HasIcon => \A x \in Cached \ Cached' : \A r \in Cached \ {x} : Before(x, r)
    BY <2>10, <2>12
  <2> QED BY <1>1, <2>2, <2>4, <2>6, <2>7, <2>8, <2>9, <2>11, <2>13
<1>5. CASE p \notin Cached /\ num # CacheSize
  <2>1. /\ cache' = [cache EXCEPT ![num + 1] = p] /\ num' = num + 1
        /\ cached' = cached \union Listening(p)
        /\ UNCHANGED <<surface, thumbnail>>
    BY <1>5 DEF CacheAdd
  <2>2. num + 1 \in Cells /\ num \in Nat /\ cache[num + 1] = Empty
    BY <1>1, <1>2, <1>5 DEF Cells
  <2>3. /\ cache' \in [Cells -> Pages \union {Empty}]
        /\ \A i \in Cells : cache'[i] = IF i = num + 1 THEN p ELSE cache[i]
    BY <1>1, <2>1, <2>2
  <2>4. \A i \in Cells : cache[i] # p
    BY <1>2, <1>5 DEF Cached
  <2>5. Cached' = Cached \cup {p}
    <3>1. \A x : x \in Cached' <=> \E i \in Cells : x = cache'[i] /\ x # Empty
      BY DEF Cached
    <3>2. \A x : x \in Cached <=> \E i \in Cells : x = cache[i] /\ x # Empty
      BY DEF Cached
    <3>3. \A x \in Cached' : x \in Cached \cup {p}
      BY <2>3, <3>1, <3>2
    <3>4. \A x \in Cached \cup {p} : x \in Cached'
      BY <1>2, <2>2, <2>3, <3>1, <3>2
    <3> QED BY <3>3, <3>4
  <2>6. cached' \subseteq Pages /\ FlagsMatchCache'
    BY <1>1, <2>1, <2>5 DEF Listening, FlagsMatchCache
  <2>7. \A i \in Cells : cache'[i] # Empty <=> i <= num'
    BY <1>1, <1>2, <2>1, <2>2, <2>3 DEF Cells
  <2>8. \A i, k \in 1 .. num' : cache'[i] = cache'[k] => i = k
    <3> SUFFICES ASSUME NEW i \in 1 .. num', NEW k \in 1 .. num', cache'[i] = cache'[k]
                 PROVE  i = k
      OBVIOUS
    <3>1. i \in Cells /\ k \in Cells /\ (i = num + 1 \/ i \in 1 .. num) /\ (k = num + 1 \/ k \in 1 .. num)
      BY <1>2, <2>1, <2>2 DEF Cells
    <3> QED BY <1>1, <2>2, <2>3, <2>4, <3>1
  <2>9. num' \in 0 .. CacheSize
    BY <1>1, <1>2, <1>5, <2>1
  <2>10. Cached \ Cached' = {} /\ cached \subseteq cached'
    BY <2>1, <2>5
  <2> QED BY <1>1, <2>1, <2>3, <2>5, <2>6, <2>7, <2>8, <2>9, <2>10
<1> QED BY <1>3, <1>4, <1>5

-----------------------------------------------------------------------------
(* The steps *)

\* The cache is empty at first.
LEMMA CacheInit == Init => CacheInv
<1>1. Init => TypeOK
  BY SizesAssumption DEF Init, TypeOK, Pages, Scrolls, Cells, Empty
<1>2. Init => \A i \in Cells : ~(i <= num)
  BY DEF Init, Cells
<1> QED BY <1>1, <1>2
        DEF Init, CacheInv, CacheWellFormed, FlagsMatchCache, CachedAreTimed, Cached, Cells

\* Nothing but the sweep that reaches a page writes to the cache.
LEMMA CacheStays ==
  ASSUME CacheInv, TypeOK', UNCHANGED cacheVars, \A q : Timed(q) => Timed(q)'
  PROVE  CacheInv'
<1>1. Cached' = Cached
  BY DEF cacheVars, Cached
<1> QED BY <1>1
        DEF CacheInv, CacheWellFormed, FlagsMatchCache, CachedAreTimed, Timed, cacheVars, Occurs

\* While the view times stay, too.
LEMMA TimesStay == UNCHANGED timeVars => \A q : Timed(q) => Timed(q)'
  BY DEF timeVars, Timed, Occurs

\* One step keeps the cache in order, and evicts nothing but the oldest entry.
LEMMA CacheNext ==
  ASSUME CacheInv, [Next]_vars
  PROVE  /\ CacheInv'
         /\ ~HasIcon => \A q \in Cached \ Cached' : \A r \in Cached \ {q} : Before(q, r)
<1> USE SizesAssumption DEF CacheInv
<1>1. TypeOK
  BY DEF CacheWellFormed
<1>2. UNCHANGED cacheVars => Cached' = Cached
  BY DEF cacheVars, Cached
<1>3. CASE UNCHANGED vars
  <2>1. UNCHANGED cacheVars /\ UNCHANGED timeVars /\ TypeOK'
    BY <1>1, <1>3 DEF vars, cacheVars, timeVars, TypeOK
  <2> QED BY <1>2, <2>1, CacheStays, TimesStay
<1>4. ASSUME NEW x \in Scrolls, WheelTo(x) \/ PositionSet(x)
      PROVE  UNCHANGED cacheVars /\ UNCHANGED timeVars /\ TypeOK'
  <2>1. OnScreen(x) \subseteq Pages
    BY DEF OnScreen, Scrolls, Pages
  <2>2. UNCHANGED cacheVars /\ UNCHANGED timeVars
    BY <1>4 DEF WheelTo, PositionSet
  <2>3. dirty' \subseteq Pages /\ scroll' \in Scrolls /\ position' \in Scrolls /\ sweep' \in 0 .. NumPages
    BY <1>1, <1>4, <2>1 DEF WheelTo, PositionSet, TypeOK
  <2> QED BY <1>1, <1>4, <2>2, <2>3 DEF WheelTo, PositionSet, TypeOK, cacheVars, timeVars
<1>5. ASSUME NEW p \in Pages, SweepOn(p)
      PROVE  /\ scroll' \in Scrolls /\ position' \in Scrolls /\ sweep' \in 0 .. NumPages
             /\ resize' = resize /\ dirty' = dirty
  BY <1>1, <1>5 DEF SweepOn, TypeOK, Pages
<1>6. ASSUME NEW p \in Pages, BecomesVisible(p)
      PROVE  /\ CacheInv'
             /\ ~HasIcon => \A q \in Cached \ Cached' : \A r \in Cached \ {q} : Before(q, r)
  <2>1. /\ visible' = visible \union {p} /\ Touch(p) /\ CacheAdd(p, visible')
        /\ job' = job /\ SweepOn(p)
    BY <1>6 DEF BecomesVisible
  <2>2. /\ past' \in Seq(Pages) /\ future' \in Seq(Pages)
        /\ \A q : Timed(q) \/ q = p => Timed(q)'
    BY <1>1, <2>1, TouchProperties DEF TypeOK
  <2> DEFINE f == visible'
  <2>3. CacheAdd(p, f)
    BY <2>1
  <2> HIDE DEF f
  <2>4. /\ cache' \in [Cells -> Pages \union {Empty}] /\ num' \in 0 .. CacheSize
        /\ cached' \subseteq Pages
        /\ \A i \in Cells : cache'[i] # Empty <=> i <= num'
        /\ \A i, k \in 1 .. num' : cache'[i] = cache'[k] => i = k
        /\ FlagsMatchCache'
        /\ Cached' \subseteq Cached \cup {p}
        /\ surface' \in [Pages -> {"none", "old", "current"}] /\ thumbnail' \subseteq Pages
        /\ ~HasIcon => \A q \in Cached \ Cached' : \A r \in Cached \ {q} : Before(q, r)
    BY <2>3, CacheAddProperties
  <2>5. TypeOK'
    BY <1>1, <1>5, <2>1, <2>2, <2>4 DEF TypeOK
  <2>6. CachedAreTimed'
    BY <2>2, <2>4 DEF CachedAreTimed, Timed
  <2> QED BY <2>4, <2>5, <2>6 DEF CacheWellFormed
<1>7. ASSUME NEW p \in Pages, BecomesInvisible(p) \/ StaysAsItIs(p)
      PROVE  UNCHANGED cacheVars /\ UNCHANGED timeVars /\ TypeOK'
  BY <1>1, <1>5, <1>7 DEF BecomesInvisible, StaysAsItIs, AbortRenderRequest, TypeOK, cacheVars, timeVars
<1>8. ASSUME NEW p \in Pages, Draw(p)
      PROVE  /\ UNCHANGED cacheVars /\ TypeOK'
             /\ \A q : Timed(q) => Timed(q)'
  <2>1. /\ UNCHANGED <<viewVars, cacheVars, surface, thumbnail, resize>> /\ dirty' = dirty \ {p}
        /\ \/ job' = [job EXCEPT ![p] = "current"] /\ (Touch(p) \/ TouchAhead(p))
           \/ UNCHANGED <<job, timeVars>>
    BY <1>8 DEF Draw
  <2>2. /\ past' \in Seq(Pages) /\ future' \in Seq(Pages)
        /\ \A q : Timed(q) => Timed(q)'
    <3>1. CASE Touch(p) \/ TouchAhead(p)
      BY <1>1, <3>1, TouchProperties DEF TypeOK
    <3>2. CASE UNCHANGED timeVars
      BY <1>1, <3>2, TimesStay DEF TypeOK, timeVars
    <3> QED BY <2>1, <3>1, <3>2
  <2> QED BY <1>1, <2>1, <2>2 DEF TypeOK, viewVars, cacheVars
<1>9. ASSUME NEW p \in Pages, Expose(p) \/ Completed(p) \/ RenderFails(p) \/ SizeAllocate(p)
      PROVE  UNCHANGED cacheVars /\ UNCHANGED timeVars /\ TypeOK'
  BY <1>1, <1>9 DEF Expose, Completed, RenderFails, SizeAllocate, TypeOK, viewVars, cacheVars, timeVars
<1>10. RenderAll => UNCHANGED cacheVars /\ UNCHANGED timeVars /\ TypeOK'
  BY <1>1 DEF RenderAll, TypeOK, viewVars, cacheVars, timeVars
<1>11. Tick => /\ UNCHANGED cacheVars /\ TypeOK'
               /\ \A q : Timed(q) => Timed(q)'
  <2> SUFFICES ASSUME Tick
               PROVE  /\ UNCHANGED cacheVars /\ TypeOK'
                      /\ \A q : Timed(q) => Timed(q)'
    OBVIOUS
  <2>1. /\ past' \in Seq(Pages) /\ future' \in Seq(Pages)
        /\ \A q : Timed(q) => Timed(q)'
    BY <1>1, TickProperties DEF TypeOK
  <2>2. UNCHANGED <<viewVars, cacheVars, widgetVars>>
    BY DEF Tick
  <2> QED BY <1>1, <2>1, <2>2 DEF TypeOK, viewVars, cacheVars, widgetVars
<1> QED
  <2>1. UNCHANGED cacheVars /\ TypeOK' /\ (\A q : Timed(q) => Timed(q)')
          => /\ CacheInv'
             /\ ~HasIcon => \A q \in Cached \ Cached' : \A r \in Cached \ {q} : Before(q, r)
    BY <1>2, CacheStays
  <2> QED BY <1>3, <1>4, <1>6, <1>7, <1>8, <1>9, <1>10, <1>11, <2>1, TimesStay DEF Next, Sweep

\* The queued resize outlives whatever was made for the earlier layout.
LEMMA LayoutNext ==
  ASSUME CacheInv, OldLayoutIsDiscarded, [Next]_vars
  PROVE  OldLayoutIsDiscarded'
<1> USE DEF OldLayoutIsDiscarded
<1>1. TypeOK
  BY DEF CacheInv, CacheWellFormed
<1>2. CASE UNCHANGED vars
  BY <1>2 DEF vars
<1>3. ASSUME NEW x \in Scrolls, WheelTo(x) \/ PositionSet(x)
      PROVE  OldLayoutIsDiscarded'
  BY <1>3 DEF WheelTo, PositionSet
<1>4. ASSUME NEW p \in Pages, BecomesVisible(p)
      PROVE  OldLayoutIsDiscarded'
  <2> DEFINE f == visible'
  <2>1. CacheAdd(p, f) /\ job' = job /\ resize' = resize
    BY <1>4 DEF BecomesVisible, SweepOn
  <2> HIDE DEF f
  <2>2. \A q \in Pages : surface'[q] \in {surface[q], "none"}
    BY <2>1, CacheAddProperties
  <2> QED BY <2>1, <2>2
<1>5. ASSUME NEW p \in Pages, BecomesInvisible(p) \/ StaysAsItIs(p)
      PROVE  OldLayoutIsDiscarded'
  BY <1>1, <1>5 DEF BecomesInvisible, StaysAsItIs, SweepOn, AbortRenderRequest, TypeOK
<1>6. ASSUME NEW p \in Pages,
             Draw(p) \/ Expose(p) \/ Completed(p) \/ RenderFails(p) \/ SizeAllocate(p)
      PROVE  OldLayoutIsDiscarded'
  <2>1. CASE Draw(p)
    BY <1>1, <2>1 DEF Draw, TypeOK
  <2>2. CASE Expose(p)
    BY <1>1, <2>2 DEF Expose, TypeOK
  <2>3. CASE Completed(p)
    BY <1>1, <2>3 DEF Completed, TypeOK
  <2>4. CASE RenderFails(p)
    BY <1>1, <2>4 DEF RenderFails, TypeOK
  <2>5. CASE SizeAllocate(p)
    BY <1>1, <2>5 DEF SizeAllocate, TypeOK
  <2> QED BY <1>6, <2>1, <2>2, <2>3, <2>4, <2>5
<1>7. RenderAll \/ Tick => OldLayoutIsDiscarded'
  BY DEF RenderAll, Tick, widgetVars
<1> QED BY <1>2, <1>3, <1>4, <1>5, <1>6, <1>7 DEF Next, Sweep

\* As long as zathura does the scrolling itself: position and view move together,
\* so a page that is drawn is flagged, and one that is flagged no more is let go.
LEMMA ViewNext ==
  ASSUME ViewInv, ~Wheel, CacheInv', [Next]_vars
  PROVE  ViewInv'
<1> USE SizesAssumption DEF ViewInv, SweptSoFar, SurfacesAreCounted
<1>1. TypeOK
  BY DEF CacheInv, CacheWellFormed
<1>2. CASE UNCHANGED vars
  BY <1>2 DEF vars
<1>3. ASSUME NEW x \in Scrolls, WheelTo(x) \/ PositionSet(x)
      PROVE  ViewInv'
  <2>1. PositionSet(x)
    BY <1>3 DEF WheelTo
  <2>2. position' = scroll' /\ sweep' = 0 /\ UNCHANGED <<visible, cached, surface, job>>
    BY <2>1 DEF PositionSet, cacheVars
  <2>3. \A p \in Pages : ~(p < 0)
    BY DEF Pages
  <2> QED BY <2>2, <2>3
<1>4. ASSUME NEW p \in Pages, SweepOn(p), sweep = p,
             p \in visible' <=> p \in OnScreen(position),
             \A q \in Pages : q # p => (q \in visible' <=> q \in visible)
      PROVE  /\ position' = scroll'
             /\ \A q \in Pages : q < sweep' => (q \in visible' <=> q \in OnScreen(position'))
  <2>1. position' = position /\ position' = scroll' /\ sweep' = p + 1
    BY <1>4 DEF SweepOn
  <2>2. \A q \in Pages : q < p + 1 => q = p \/ q < p
    BY DEF Pages
  <2> QED BY <1>4, <2>1, <2>2
<1>5. ASSUME NEW p \in Pages, BecomesVisible(p)
      PROVE  ViewInv'
  <2> DEFINE f == visible'
  <2>1. /\ CacheAdd(p, f) /\ job' = job /\ visible' = visible \union {p}
        /\ SweepOn(p) /\ sweep = p /\ p \in OnScreen(position)
    BY <1>5 DEF BecomesVisible
  <2> HIDE DEF f
  <2>2. /\ \A q \in Pages : surface'[q] \in {surface[q], "none"}
        /\ \A q \in Pages : surface'[q] # "none" /\ q \in cached /\ q \notin f => q \in cached'
    BY <2>1, CacheAddProperties
  <2>3. SurfacesAreCounted'
    BY <2>1, <2>2 DEF f
  <2>4. SweptSoFar'
    BY <1>4, <2>1
  <2> QED BY <2>3, <2>4
<1>6. ASSUME NEW p \in Pages, BecomesInvisible(p)
      PROVE  ViewInv'
  <2>1. /\ visible' = visible \ {p} /\ cached' = cached /\ job' = [job EXCEPT ![p] = "none"]
        /\ SweepOn(p) /\ sweep = p /\ p \notin OnScreen(position) /\ AbortRenderRequest(p)
    BY <1>6 DEF BecomesInvisible, cacheVars, AbortRenderRequest
  <2>2. SweptSoFar'
    BY <1>1, <1>4, <2>1 DEF TypeOK
  <2>3. SurfacesAreCounted'
    BY <1>1, <2>1 DEF TypeOK, AbortRenderRequest
  <2> QED BY <2>2, <2>3
<1>7. ASSUME NEW p \in Pages, StaysAsItIs(p)
      PROVE  ViewInv'
  <2>1. /\ UNCHANGED <<visible, cached, surface, job>> /\ SweepOn(p) /\ sweep = p
        /\ p \in OnScreen(position) <=> p \in visible
    BY <1>7 DEF StaysAsItIs, cacheVars
  <2> QED BY <1>4, <2>1
<1>8. ASSUME NEW p \in Pages,
             Draw(p) \/ Expose(p) \/ Completed(p) \/ RenderFails(p) \/ SizeAllocate(p)
      PROVE  ViewInv'
  <2>1. UNCHANGED <<scroll, position, sweep, visible, cached>>
    BY <1>8 DEF Draw, Expose, Completed, RenderFails, SizeAllocate, viewVars, cacheVars
  <2>2. CASE Draw(p)
    <3>1. p \in visible
      <4>1. sweep = NumPages /\ p \in OnScreen(position) /\ p < NumPages
        BY <2>2 DEF Draw, Idle, Pages
      <4> QED BY <4>1
    <3>2. surface' = surface /\ (job' = [job EXCEPT ![p] = "current"] \/ job' = job)
      BY <2>2 DEF Draw, timeVars
    <3> QED BY <1>1, <2>1, <3>1, <3>2 DEF TypeOK
  <2>3. CASE Expose(p)
    BY <2>1, <2>3 DEF Expose
  <2>4. CASE Completed(p)
    BY <1>1, <2>1, <2>4 DEF Completed, TypeOK
  <2>5. CASE RenderFails(p)
    BY <1>1, <2>1, <2>5 DEF RenderFails, TypeOK
  <2>6. CASE SizeAllocate(p)
    BY <1>1, <2>1, <2>6 DEF SizeAllocate, TypeOK
  <2> QED BY <1>8, <2>2, <2>3, <2>4, <2>5, <2>6
<1>9. RenderAll \/ Tick => ViewInv'
  BY DEF RenderAll, Tick, viewVars, cacheVars, widgetVars
<1> QED BY <1>2, <1>3, <1>5, <1>6, <1>7, <1>8, <1>9 DEF Next, Sweep

-----------------------------------------------------------------------------
(* Theorems *)

\* The invariant of the cache.
LEMMA CacheInvariance == Spec => []CacheInv
<1>1. CacheInv /\ [Next]_vars => CacheInv'
  BY CacheNext
<1> QED BY <1>1, CacheInit, PTL DEF Spec

\* The cache holds distinct pages in its first cells and nothing beyond, through any
\* order of additions and evictions: what page_cache_is_full and the store at
\* cache[num++] rely on.
THEOREM CacheInOrder == Spec => []CacheWellFormed
<1>1. CacheInv => CacheWellFormed
  BY DEF CacheInv
<1> QED BY <1>1, CacheInvariance, PTL

\* A widget believes it is cached exactly when it is, the page of the window's icon
\* excepted, which is told nothing.
THEOREM WidgetsKnow == Spec => []FlagsMatchCache
<1>1. CacheInv => FlagsMatchCache
  BY DEF CacheInv
<1> QED BY <1>1, CacheInvariance, PTL

\* Without the icon's request the page evicted is the one viewed least recently: every
\* cached page has a view time, and the search finds the least.
THEOREM OldestIsEvicted ==
  ASSUME ~HasIcon
  PROVE  Spec => EvictsLeastRecent
<1>1. CacheInv /\ [Next]_vars
        => [\A p \in Cached \ Cached' : \A q \in Cached \ {p} : Before(p, q)]_vars
  BY CacheNext
<1> QED BY <1>1, CacheInvariance, PTL DEF Spec, EvictsLeastRecent

\* Surfaces and asks of an earlier layout go with the resize that is queued for their
\* widget, although the worker reads the zoom when it gets to it.
THEOREM NoOldLayout == Spec => []OldLayoutIsDiscarded
<1>1. Init => OldLayoutIsDiscarded
  BY DEF Init, OldLayoutIsDiscarded
<1>2. CacheInv /\ OldLayoutIsDiscarded /\ [Next]_vars => OldLayoutIsDiscarded'
  BY LayoutNext
<1> QED BY <1>1, <1>2, CacheInvariance, PTL DEF Spec

\* While zathura does the scrolling, a page out of sight keeps its surface only if the
\* cache counts it.
THEOREM HiddenAreCounted ==
  ASSUME ~Wheel
  PROVE  Spec => []InvisibleOnlyCached
<1>1. Init => SweptSoFar /\ SurfacesAreCounted
  <2>1. \A p \in Pages : ~(p < 0)
    BY SizesAssumption DEF Pages
  <2> QED BY <2>1 DEF Init, SweptSoFar, SurfacesAreCounted
<1>2. ViewInv /\ CacheInv' /\ [Next]_vars => ViewInv'
  BY ViewNext
<1>3. ViewInv => InvisibleOnlyCached
  BY DEF ViewInv, SurfacesAreCounted, InvisibleOnlyCached
<1>4. Init => ViewInv
  BY <1>1, CacheInit DEF ViewInv
<1> QED BY <1>2, <1>3, <1>4, CacheInvariance, PTL DEF Spec

-----------------------------------------------------------------------------
(***************************************************************************)
(* The render service.  PageCache is about the widgets and has no signals: *)
(* `completed' adds them, for a step of Completed.  Behaviours that leave  *)
(* some signals out are included: there the ask counts as dropped.         *)
(***************************************************************************)
VARIABLE completed

Signals ==
  \/ /\ Next
     /\ UNCHANGED completed
  \/ \E p \in Pages : Completed(p) /\ completed' = [completed EXCEPT ![p] = ~@]

SpecWithSignals ==
  Init /\ completed = [p \in Pages |-> FALSE] /\ [][Signals]_<<vars, completed>>

Asking == {p \in Pages : job[p] # "none"}

Service == INSTANCE RenderService WITH Requests <- Pages, wanted <- Asking, closed <- FALSE

\* A step that settles one ask, or makes one, or neither.
AsksOfStep ==
  \/ UNCHANGED Asking
  \/ \E p \in Pages :
       \/ p \notin Asking /\ Asking' = Asking \union {p}
       \/ p \in Asking /\ Asking' = Asking \ {p}

\* One page's ask changed, to a value that is its ask or none.
LEMMA OneJob ==
  ASSUME TypeOK, NEW p \in Pages, NEW j, job' = [job EXCEPT ![p] = j]
  PROVE  Asking' = IF j = "none" THEN Asking \ {p} ELSE Asking \union {p}
<1>1. \A q \in Pages : job'[q] = IF q = p THEN j ELSE job[q]
  BY DEF TypeOK
<1> QED BY <1>1 DEF Asking

\* No operation of the widgets asks for a page twice, and none settles two asks.
LEMMA StepAsks ==
  ASSUME TypeOK, Next
  PROVE  AsksOfStep
<1>1. job' = job => UNCHANGED Asking
  BY DEF Asking
<1>2. ASSUME NEW p \in Pages, job' = [job EXCEPT ![p] = "none"]
      PROVE  AsksOfStep
  <2>1. Asking' = Asking \ {p}
    BY <1>2, OneJob
  <2> QED BY <2>1 DEF AsksOfStep
<1>3. ASSUME NEW x \in Scrolls, WheelTo(x) \/ PositionSet(x)
      PROVE  AsksOfStep
  BY <1>1, <1>3 DEF WheelTo, PositionSet, AsksOfStep
<1>4. ASSUME NEW p \in Pages, BecomesVisible(p) \/ StaysAsItIs(p)
      PROVE  AsksOfStep
  BY <1>1, <1>4 DEF BecomesVisible, StaysAsItIs, AsksOfStep
<1>5. ASSUME NEW p \in Pages, BecomesInvisible(p)
      PROVE  AsksOfStep
  BY <1>2, <1>5 DEF BecomesInvisible, AbortRenderRequest
<1>6. ASSUME NEW p \in Pages, Draw(p)
      PROVE  AsksOfStep
  <2>1. CASE job[p] = "none" /\ surface[p] = "none"
    <3>1. job' = [job EXCEPT ![p] = "current"] /\ p \notin Asking
      BY <1>6, <2>1 DEF Draw, Asking
    <3>2. Asking' = IF "current" = "none" THEN Asking \ {p} ELSE Asking \union {p}
      BY <3>1, OneJob
    <3>3. Asking' = Asking \union {p}
      BY <3>2
    <3> QED BY <3>1, <3>3 DEF AsksOfStep
  <2>2. CASE ~(job[p] = "none" /\ surface[p] = "none")
    BY <1>1, <1>6, <2>2 DEF Draw, AsksOfStep
  <2> QED BY <2>1, <2>2
<1>7. ASSUME NEW p \in Pages, Completed(p) \/ RenderFails(p) \/ SizeAllocate(p)
      PROVE  AsksOfStep
  BY <1>2, <1>7 DEF Completed, RenderFails, SizeAllocate
<1>8. CASE RenderAll
  <2>1. \A p \in Pages : job'[p] = "none" <=> job[p] = "none"
    BY <1>8 DEF RenderAll
  <2>2. UNCHANGED Asking
    BY <2>1 DEF Asking
  <2> QED BY <2>2 DEF AsksOfStep
<1>9. CASE Tick \/ \E p \in Pages : Expose(p)
  BY <1>1, <1>9 DEF Tick, widgetVars, Expose, AsksOfStep
<1> QED BY <1>3, <1>4, <1>5, <1>6, <1>7, <1>8, <1>9 DEF Next, Sweep

\* What the widgets see of the renderer is the service that RenderJobs implements: they
\* never ask for a page that they wait for, each answer or abort settles one ask, and
\* a zoom, which makes all of them old, settles none.
THEOREM WidgetsUseService == SpecWithSignals => Service!Spec
<1>1. Init /\ completed = [p \in Pages |-> FALSE] => CacheInv /\ Service!Init
  BY CacheInit DEF Init, Service!Init, Asking
<1>2. CacheInv /\ [Signals]_<<vars, completed>> => CacheInv'
  <2>1. \A p \in Pages : Completed(p) => Next
    BY DEF Next
  <2>2. [Signals]_<<vars, completed>> => [Next]_vars
    BY <2>1 DEF Signals
  <2> QED BY <2>2, CacheNext
<1>3. CacheInv /\ [Signals]_<<vars, completed>> => [Service!Next]_Service!vars
  <2> SUFFICES ASSUME CacheInv, [Signals]_<<vars, completed>>
               PROVE  [Service!Next]_Service!vars
    OBVIOUS
  <2>1. TypeOK
    BY DEF CacheInv, CacheWellFormed
  <2>2. CASE Next /\ UNCHANGED completed
    <3>1. AsksOfStep
      BY <2>1, <2>2, StepAsks
    <3> QED BY <2>2, <3>1
            DEF AsksOfStep, Service!Next, Service!vars, Service!Ask, Service!Drop
  <2>3. ASSUME NEW p \in Pages, Completed(p), completed' = [completed EXCEPT ![p] = ~@]
        PROVE  [Service!Next]_Service!vars
    <3>1. p \in Asking /\ job' = [job EXCEPT ![p] = "none"]
      BY <2>3 DEF Completed, Asking
    <3>2. Asking' = Asking \ {p}
      BY <2>1, <3>1, OneJob
    <3>3. Service!Answer(p)
      BY <2>3, <3>1, <3>2 DEF Service!Answer
    <3> QED BY <3>3 DEF Service!Next
  <2>4. CASE UNCHANGED <<vars, completed>>
    BY <2>4 DEF vars, Service!vars, Asking
  <2> QED BY <2>2, <2>3, <2>4 DEF Signals
<1> QED BY <1>1, <1>2, <1>3, PTL DEF SpecWithSignals, Service!Spec

=============================================================================
