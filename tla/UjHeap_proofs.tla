---------------------------- MODULE UjHeap_proofs ----------------------------
(***************************************************************************)
(* Proofs about UjHeap, for a heap of any size, any number of handles and  *)
(* any requests.  The chunk operators are dealt with first, on a chunk map *)
(* c that is not yet tied to the state: each maps a valid map to a valid   *)
(* one and leaves every chunk in use alone except the one it is about.     *)
(***************************************************************************)
EXTENDS UjHeap, Recursion, TLAPS

\* What every operator of ujHeap.c needs of the chunk list, and preserves.
Valid(c) ==
  /\ DOMAIN c \subseteq Address
  /\ c \in [DOMAIN c -> Header]
  /\ TiledBy(c)
  /\ Coalesced(c)

-----------------------------------------------------------------------------

\* The shape of a valid map, with NextAddr left folded.
LEMMA ChunkFacts ==
  ASSUME NEW c, Valid(c), NEW a \in DOMAIN c
  PROVE  /\ a \in Int /\ a >= FIRST
         /\ c[a] \in Header
         /\ NextAddr(c, a) \in Int
         /\ NextAddr(c, a) = a + HDR + c[a].size
         /\ NextAddr(c, a) >= a + HDR
         /\ NextAddr(c, a) <= END
         /\ NextAddr(c, a) = END \/ NextAddr(c, a) \in DOMAIN c
         /\ c[a].wsze \in Nat /\ c[a].size \in Nat /\ c[a].wsze <= c[a].size
         /\ c[a].free \in BOOLEAN /\ c[a].lock \in BOOLEAN
<1>1. c[a] \in Header /\ a \in FIRST..END
  BY DEF Valid, Address
<1>2. a \in Int /\ a >= FIRST /\ c[a].size \in Nat /\ c[a].wsze \in Nat
      /\ c[a].free \in BOOLEAN /\ c[a].lock \in BOOLEAN
  BY <1>1, HeapAssumption DEF Header
<1>3. NextAddr(c, a) = a + HDR + c[a].size
  BY DEF NextAddr
<1>4. NextAddr(c, a) = END \/ NextAddr(c, a) \in DOMAIN c
  BY DEF Valid, TiledBy
<1>5. NextAddr(c, a) <= END
  BY <1>4, HeapAssumption DEF Valid, Address
<1>6. c[a].wsze <= c[a].size
  BY DEF Valid, Coalesced
<1> QED BY <1>1, <1>2, <1>3, <1>4, <1>5, <1>6, HeapAssumption

\* Two chunks do not overlap, and at most one ends where another begins.
LEMMA ChunkOrder ==
  ASSUME NEW c, Valid(c), NEW a \in DOMAIN c, NEW b \in DOMAIN c
  PROVE  /\ a < b => NextAddr(c, a) <= b
         /\ NextAddr(c, a) = NextAddr(c, b) => a = b
<1>1. \A x, y \in DOMAIN c : x < y => NextAddr(c, x) <= y
  BY DEF Valid, TiledBy
<1>2. /\ a \in Int /\ NextAddr(c, a) >= a + HDR /\ NextAddr(c, a) \in Int
      /\ b \in Int /\ NextAddr(c, b) >= b + HDR /\ NextAddr(c, b) \in Int
  BY ChunkFacts
<1> QED BY <1>1, <1>2, HeapAssumption

\* The chunk before another ends where it begins.
LEMMA PrevFacts ==
  ASSUME NEW c, Valid(c), NEW a \in DOMAIN c, HasPrev(c, a)
  PROVE  /\ PrevAddr(c, a) \in DOMAIN c
         /\ NextAddr(c, PrevAddr(c, a)) = a
         /\ PrevAddr(c, a) < a
<1>1. PrevAddr(c, a) \in DOMAIN c /\ NextAddr(c, PrevAddr(c, a)) = a
  BY DEF HasPrev, PrevAddr
<1> QED BY <1>1, ChunkFacts, HeapAssumption

\* Every chunk but the first has one before it.
LEMMA PrevExists ==
  ASSUME NEW c, Valid(c), NEW a \in DOMAIN c, a # FIRST
  PROVE  HasPrev(c, a)
<1> DEFINE Before == {x \in DOMAIN c : x < a}
           T == {a - x : x \in Before}
<1>1. a \in Int /\ a >= FIRST /\ FIRST \in Before /\ FIRST \in Nat
  <2>1. a \in Int /\ a >= FIRST
    BY ChunkFacts
  <2>2. FIRST \in DOMAIN c
    BY DEF Valid, TiledBy
  <2> QED BY <2>1, <2>2, HeapAssumption
<1>2. \A x \in Before : x \in DOMAIN c /\ x \in Int /\ x < a /\ a - x \in Nat
  BY <1>1, ChunkFacts
<1>3. PICK d \in T : \A e \in T : d <= e
  <2>1. T \in SUBSET Nat
    BY <1>2
  <2>2. T # {}
    BY <1>1
  <2> HIDE DEF T
  <2> QED BY <2>1, <2>2, LeastNat
<1>4. PICK p \in Before : d = a - p
  OBVIOUS
<1>5. \A x \in Before : x <= p
  <2> SUFFICES ASSUME NEW x \in Before PROVE x <= p
    OBVIOUS
  <2>1. d <= a - x
    BY <1>3
  <2> QED BY <1>1, <1>2, <1>4, <2>1
<1> DEFINE n == NextAddr(c, p)
<1>6. n \in Int /\ n > p /\ (n = END \/ n \in DOMAIN c)
  BY <1>2, <1>4, ChunkFacts, HeapAssumption
<1>7. n <= a
  BY <1>2, <1>4, ChunkOrder
<1>8. a < END
  BY <1>1, ChunkFacts, HeapAssumption
<1>9. n = a
  <2> SUFFICES ASSUME n # a PROVE FALSE
    OBVIOUS
  <2>1. n < a /\ n # END
    BY <1>1, <1>6, <1>7, <1>8, HeapAssumption
  <2>2. n \in Before
    BY <1>6, <2>1
  <2>3. n <= p
    BY <1>5, <2>2
  <2> QED BY <1>2, <1>4, <1>6, <2>3
<1> QED BY <1>2, <1>4, <1>9 DEF HasPrev

-----------------------------------------------------------------------------
(* Freeing. *)

\* The span [from, to) that FreeChunk turns into one free chunk.
Span(c, a, from, to) ==
  /\ from \in Int /\ to \in Int
  /\ FIRST <= from /\ from <= a /\ from + HDR <= to /\ a < to
  /\ to = END \/ (to \in DOMAIN c /\ ~c[to].free)
  /\ \A x \in DOMAIN c : x < to => NextAddr(c, x) <= to
  /\ \A x \in DOMAIN c : x < from =>
       \/ NextAddr(c, x) = a /\ ~c[x].free /\ a - c[x].wsze = from
       \/ NextAddr(c, x) # a /\ NextAddr(c, x) <= from
  /\ \A x \in DOMAIN c :
       x < from /\ NextAddr(c, x) = from /\ NextAddr(c, x) # a =>
         ~c[x].free /\ c[x].wsze = 0
  /\ \A x \in DOMAIN c : x >= from /\ x < to /\ x # a => c[x].free

\* The span ujHeapPrvFreeChunk frees: where it begins and ends and what lies in it.
LEMMA FreeSpan ==
  ASSUME NEW c, Valid(c), NEW a \in DOMAIN c, ~c[a].free
  PROVE  Span(c, a, FreeStart(c, a), FreeEnd(c, a))
<1> DEFINE from == FreeStart(c, a)
           to   == FreeEnd(c, a)
           n    == NextAddr(c, a)
<1>a. /\ a \in Int /\ a >= FIRST /\ n \in Int /\ n >= a + HDR
      /\ n = END \/ n \in DOMAIN c
  BY ChunkFacts
<1>1. /\ to \in Int /\ a + HDR <= to
      /\ to = END \/ (to \in DOMAIN c /\ ~c[to].free)
      /\ \A x \in DOMAIN c : x < to => NextAddr(c, x) <= to
      /\ \A x \in DOMAIN c : x > a /\ x < to => c[x].free
  <2>1. CASE ~FreeAt(c, n)
    <3>1. to = n
      BY <2>1 DEF FreeEnd
    <3>2. to = END \/ (to \in DOMAIN c /\ ~c[to].free)
      BY <3>1, <2>1, <1>a DEF FreeAt
    <3>3. \A x \in DOMAIN c : x < to => NextAddr(c, x) <= to
      BY <3>2, ChunkFacts, ChunkOrder, HeapAssumption
    <3>4. \A x \in DOMAIN c : x > a => x >= to
      BY <3>1, ChunkOrder, ChunkFacts
    <3> QED BY <3>1, <3>2, <3>3, <3>4, <1>a, ChunkFacts
  <2>2. CASE FreeAt(c, n)
    <3>1. to = NextAddr(c, n) /\ n \in DOMAIN c /\ c[n].free
      BY <2>2 DEF FreeEnd, FreeAt
    <3>2. ~FreeAt(c, to)
      BY <3>1 DEF Valid, Coalesced
    <3>3. to \in Int /\ to >= n + HDR /\ (to = END \/ to \in DOMAIN c)
      BY <3>1, ChunkFacts
    <3>4. to = END \/ (to \in DOMAIN c /\ ~c[to].free)
      BY <3>2, <3>3 DEF FreeAt
    <3>5. \A x \in DOMAIN c : x < to => NextAddr(c, x) <= to
      BY <3>4, <3>3, ChunkFacts, ChunkOrder, HeapAssumption
    <3>6. \A x \in DOMAIN c : x > a /\ x < to => x = n
      <4> SUFFICES ASSUME NEW x \in DOMAIN c, x > a, x < to, x # n PROVE FALSE
        OBVIOUS
      <4>1. n <= x
        BY ChunkOrder
      <4>2. n < x
        BY <4>1, <1>a, ChunkFacts
      <4>3. to <= x
        BY <4>2, <3>1, ChunkOrder
      <4> QED BY <4>3, <3>3, ChunkFacts
    <3> QED BY <3>1, <3>3, <3>4, <3>5, <3>6, <1>a, HeapAssumption
  <2> QED BY <2>1, <2>2
<1>2. /\ from \in Int /\ FIRST <= from /\ from <= a
      /\ \A x \in DOMAIN c : x < from =>
           \/ NextAddr(c, x) = a /\ ~c[x].free /\ a - c[x].wsze = from
           \/ NextAddr(c, x) # a /\ NextAddr(c, x) <= from
      /\ \A x \in DOMAIN c :
           x < from /\ NextAddr(c, x) = from /\ NextAddr(c, x) # a =>
             ~c[x].free /\ c[x].wsze = 0
      /\ \A x \in DOMAIN c : x >= from /\ x < a => c[x].free
  <2>1. CASE ~HasPrev(c, a)
    <3>1. from = a
      BY <2>1 DEF FreeStart
    <3>2. \A x \in DOMAIN c : NextAddr(c, x) # a
      BY <2>1 DEF HasPrev
    <3>3. \A x \in DOMAIN c : x < a => NextAddr(c, x) <= a
      BY ChunkOrder
    <3> QED BY <3>1, <3>2, <3>3, <1>a, ChunkFacts
  <2>2. CASE HasPrev(c, a)
    <3> DEFINE p == PrevAddr(c, a)
    <3>1. p \in DOMAIN c /\ NextAddr(c, p) = a /\ p < a
      BY <2>2, PrevFacts
    <3>2. /\ p \in Int /\ p >= FIRST /\ c[p].wsze \in Nat /\ c[p].size \in Nat
          /\ c[p].wsze <= c[p].size /\ a = p + HDR + c[p].size
          /\ c[p].free \in BOOLEAN
      BY <3>1, ChunkFacts
    <3>3. \A x \in DOMAIN c : NextAddr(c, x) = a => x = p
      BY <3>1, ChunkOrder
    <3>4. \A x \in DOMAIN c : x < a => x <= p
      <4> SUFFICES ASSUME NEW x \in DOMAIN c, x < a, ~(x <= p) PROVE FALSE
        OBVIOUS
      <4>1. p < x /\ x \in Int
        BY <3>2, ChunkFacts
      <4>2. a <= x
        BY <4>1, <3>1, ChunkOrder
      <4> QED BY <4>1, <4>2, <1>a
    <3>5. \A x \in DOMAIN c : x < p => NextAddr(c, x) <= p
      BY <3>1, ChunkOrder
    <3>6. CASE c[p].free
      <4>1. from = p
        BY <2>2, <3>6 DEF FreeStart
      <4>2. \A x \in DOMAIN c : NextAddr(c, x) = p => ~c[x].free /\ c[x].wsze = 0
        <5> SUFFICES ASSUME NEW x \in DOMAIN c, NextAddr(c, x) = p
                     PROVE  ~c[x].free /\ c[x].wsze = 0
          OBVIOUS
        <5>1. FreeAt(c, NextAddr(c, x))
          BY <3>1, <3>6 DEF FreeAt
        <5> QED BY <5>1 DEF Valid, Coalesced
      <4>3. \A x \in DOMAIN c : x >= p /\ x < a => x = p
        BY <3>4, <3>2, ChunkFacts
      <4>4. \A x \in DOMAIN c : x < p => NextAddr(c, x) # a
        BY <3>3, <3>2
      <4> QED BY <4>1, <4>2, <4>3, <4>4, <3>2, <3>5, <3>6, <1>a, HeapAssumption
    <3>7. CASE ~c[p].free
      <4>1. from = a - c[p].wsze
        BY <2>2, <3>7 DEF FreeStart
      <4>2. from \in Int /\ p < from /\ from <= a
        BY <4>1, <3>2, <1>a, HeapAssumption
      <4>3. \A x \in DOMAIN c : x < a => x = p \/ NextAddr(c, x) <= p
        BY <3>4, <3>5, <3>2, ChunkFacts
      <4>4. \A x \in DOMAIN c : x >= from => ~(x < a)
        BY <3>4, <4>2, <3>2, ChunkFacts
      <4>5. \A x \in DOMAIN c : x < from => x < a
        BY <4>2, <1>a, ChunkFacts
      <4>6. \A x \in DOMAIN c : x < from =>
              \/ NextAddr(c, x) = a /\ ~c[x].free /\ a - c[x].wsze = from
              \/ NextAddr(c, x) # a /\ NextAddr(c, x) <= from
        <5> SUFFICES ASSUME NEW x \in DOMAIN c, x < from, x # p
                     PROVE  NextAddr(c, x) # a /\ NextAddr(c, x) <= from
          BY <3>1, <3>7, <4>1
        <5>1. NextAddr(c, x) <= p /\ NextAddr(c, x) \in Int
          BY <4>3, <4>5, ChunkFacts
        <5> QED BY <5>1, <4>2, <3>2, <3>1, <1>a
      <4>7. \A x \in DOMAIN c :
              x < from /\ NextAddr(c, x) = from => NextAddr(c, x) = a
        <5> SUFFICES ASSUME NEW x \in DOMAIN c, x < from, NextAddr(c, x) = from,
                            x # p
                     PROVE  FALSE
          BY <3>1
        <5>1. NextAddr(c, x) <= p
          BY <4>3, <4>5
        <5> QED BY <5>1, <4>2, <3>2
      <4>8. \A x \in DOMAIN c : x >= from /\ x < a => c[x].free
        BY <4>4
      <4> HIDE DEF from
      <4> QED BY <4>2, <4>6, <4>7, <4>8, <3>2, HeapAssumption
    <3> QED BY <3>6, <3>7, <3>2
  <2> QED BY <2>1, <2>2
<1>3. \A x \in DOMAIN c : x >= from /\ x < to /\ x # a => c[x].free
  BY <1>1, <1>2, <1>a, ChunkFacts
<1> HIDE DEF from, to, n
<1>4. from + HDR <= to /\ a < to
  BY <1>1, <1>2, <1>a, HeapAssumption
<1>5. Span(c, a, from, to)
  BY <1>1, <1>2, <1>3, <1>4 DEF Span
<1> QED BY <1>5 DEF from, to


\* Headers stay headers.
LEMMA HeaderFacts ==
  /\ \A s \in Nat : FreeHeader(s) \in Header
  /\ \A hd \in Header : hd.wsze <= hd.size =>
       /\ GiveUpWaste(hd) \in Header
       /\ GiveUpWaste(hd).size = hd.size - hd.wsze
       /\ GiveUpWaste(hd).wsze = 0
       /\ GiveUpWaste(hd).free = hd.free /\ GiveUpWaste(hd).lock = hd.lock
       /\ GiveUpWaste(hd).mark = hd.mark /\ GiveUpWaste(hd).data = hd.data
  /\ \A s : FreeHeader(s).size = s /\ FreeHeader(s).wsze = 0
            /\ FreeHeader(s).free /\ ~FreeHeader(s).lock
<1>1. 0 \in 0..NH
  BY HeapAssumption
<1>2. \A s \in Nat : FreeHeader(s) \in Header
  BY <1>1 DEF FreeHeader, Header
<1>3. ASSUME NEW hd \in Header, hd.wsze <= hd.size
      PROVE  /\ GiveUpWaste(hd) \in Header
             /\ GiveUpWaste(hd).size = hd.size - hd.wsze
             /\ GiveUpWaste(hd).wsze = 0
             /\ GiveUpWaste(hd).free = hd.free /\ GiveUpWaste(hd).lock = hd.lock
             /\ GiveUpWaste(hd).mark = hd.mark /\ GiveUpWaste(hd).data = hd.data
  <2> DEFINE s == hd.size - hd.wsze
             g == [hd EXCEPT !.size = s, !.wsze = 0]
  <2>1. s \in Nat
    BY <1>3 DEF Header
  <2> HIDE DEF s
  <2>2. g \in Header /\ g.size = s /\ g.wsze = 0 /\ g.free = hd.free
        /\ g.lock = hd.lock /\ g.mark = hd.mark /\ g.data = hd.data
    BY <2>1 DEF Header
  <2>3. GiveUpWaste(hd) = g
    BY DEF GiveUpWaste, s, Header
  <2> QED BY <2>2, <2>3 DEF s
<1>4. \A s : FreeHeader(s).size = s /\ FreeHeader(s).wsze = 0
             /\ FreeHeader(s).free /\ ~FreeHeader(s).lock
  BY DEF FreeHeader
<1> QED BY ONLY <1>2, <1>3, <1>4

\* A header b of d says what header a of c said, as far as its owner can tell.
SameUse(c, a, d, b) ==
  /\ b \in DOMAIN d
  /\ d[b].free = c[a].free /\ d[b].lock = c[a].lock /\ d[b].mark = c[a].mark
  /\ d[b].data = c[a].data
  /\ Room(d, b) = Room(c, a)

\* Freeing keeps the map valid, frees chunk a and no other, and takes nothing
\* from a chunk in use but the space it had wasted.
LEMMA FreeChunkFacts ==
  ASSUME NEW c, Valid(c), NEW a \in DOMAIN c, ~c[a].free
  PROVE  /\ Valid(FreeChunk(c, a))
         /\ \A x \in DOMAIN c : ~c[x].free /\ x # a =>
              SameUse(c, x, FreeChunk(c, a), x)
         /\ \A x \in DOMAIN FreeChunk(c, a) : ~FreeChunk(c, a)[x].free =>
              x \in DOMAIN c /\ ~c[x].free /\ x # a
<1> DEFINE from == FreeStart(c, a)
           to   == FreeEnd(c, a)
           kept == {x \in DOMAIN c : x < from \/ x >= to}
           d    == FreeChunk(c, a)
<1>1. Span(c, a, from, to)
  BY FreeSpan
<1>2. /\ DOMAIN d = kept \cup {from}
      /\ d[from] = FreeHeader(to - from - HDR)
      /\ \A x \in kept : x # from =>
           d[x] = IF NextAddr(c, x) = a THEN GiveUpWaste(c[x]) ELSE c[x]
  BY DEF FreeChunk
<1> HIDE DEF from, to, d
<1>3. /\ from \in Int /\ to \in Int /\ FIRST <= from /\ from + HDR <= to
      /\ from <= a /\ a < to /\ a \in Int
      /\ to = END \/ (to \in DOMAIN c /\ ~c[to].free)
  BY <1>1, ChunkFacts DEF Span
<1>4. NextAddr(d, from) = to
  BY <1>2, <1>3, HeaderFacts, HeapAssumption DEF NextAddr
<1>5. to <= END
  BY <1>3, ChunkFacts, HeapAssumption
<1>6. ASSUME NEW x \in kept
      PROVE  /\ x \in DOMAIN c /\ x # from /\ x # a /\ x \in DOMAIN d
             /\ d[x] \in Header
             /\ d[x].free = c[x].free
             /\ SameUse(c, x, d, x)
             /\ d[x].wsze <= d[x].size
             /\ \/ /\ NextAddr(c, x) = a /\ ~c[x].free
                   /\ NextAddr(d, x) = from /\ d[x].wsze = 0
                \/ NextAddr(c, x) # a /\ NextAddr(d, x) = NextAddr(c, x)
                   /\ d[x] = c[x]
  <2>1. x \in DOMAIN c /\ x # from /\ x # a /\ x \in Int /\ x \in DOMAIN d
    BY <1>3, <1>2, ChunkFacts, HeapAssumption
  <2>2. CASE NextAddr(c, x) = a
    <3>1. d[x] = GiveUpWaste(c[x])
      BY <2>1, <2>2, <1>2
    <3>2. x < from
      BY <2>1, <2>2, <1>3, ChunkFacts, HeapAssumption
    <3>3. ~c[x].free /\ a - c[x].wsze = from
      BY <2>1, <2>2, <3>2, <1>1 DEF Span
    <3>4. c[x] \in Header /\ c[x].wsze <= c[x].size /\ c[x].wsze \in Nat
          /\ c[x].size \in Nat
      BY <2>1, ChunkFacts
    <3>5. /\ d[x] \in Header /\ d[x].size = c[x].size - c[x].wsze
          /\ d[x].wsze = 0 /\ d[x].free = c[x].free /\ d[x].lock = c[x].lock
          /\ d[x].mark = c[x].mark /\ d[x].data = c[x].data
      BY <3>1, <3>4, HeaderFacts
    <3>6. NextAddr(d, x) = from
      BY <3>5, <3>3, <3>4, <2>2, <2>1, HeapAssumption DEF NextAddr
    <3>7. SameUse(c, x, d, x)
      BY <3>5, <3>4, <2>1 DEF SameUse, Room
    <3>8. d[x].wsze <= d[x].size
      BY <3>5, <3>4
    <3> QED BY <2>1, <2>2, <3>3, <3>5, <3>6, <3>7, <3>8
  <2>3. CASE NextAddr(c, x) # a
    <3>1. d[x] = c[x]
      BY <2>1, <2>3, <1>2
    <3>2. NextAddr(d, x) = NextAddr(c, x)
      BY <3>1 DEF NextAddr
    <3>3. d[x] \in Header /\ d[x].wsze <= d[x].size
      BY <3>1, <2>1, ChunkFacts
    <3>4. SameUse(c, x, d, x)
      BY <3>1, <2>1 DEF SameUse, Room
    <3> QED BY <2>1, <2>3, <3>1, <3>2, <3>3, <3>4
  <2> QED BY <2>2, <2>3
<1>7. \A x \in DOMAIN c : ~c[x].free /\ x # a => x \in kept
  BY <1>1, <1>3, ChunkFacts DEF Span
<1>8. DOMAIN d \subseteq Address /\ d \in [DOMAIN d -> Header]
  <2>1. from \in Address
    BY <1>3, <1>5, HeapAssumption DEF Address
  <2>2. to - from - HDR \in Nat
    BY <1>3, HeapAssumption
  <2>3. d[from] \in Header
    BY <2>2, <1>2, HeaderFacts
  <2>4. kept \subseteq Address
    BY DEF Valid
  <2>5. d = [x \in DOMAIN d |-> d[x]]
    BY DEF d, FreeChunk
  <2> QED BY <2>1, <2>3, <2>4, <2>5, <1>2, <1>6
<1>9. TiledBy(d)
  <2>1. FIRST \in DOMAIN d
    <3>1. FIRST \in DOMAIN c
      BY DEF Valid, TiledBy
    <3> QED BY <3>1, <1>2, <1>3, HeapAssumption
  <2>2. ASSUME NEW x \in DOMAIN d
        PROVE  NextAddr(d, x) = END \/ NextAddr(d, x) \in DOMAIN d
    <3>1. CASE x = from
      BY <3>1, <1>4, <1>3, <1>2
    <3>2. CASE x \in kept /\ NextAddr(d, x) # from
      <4>1. x \in DOMAIN c /\ NextAddr(c, x) # a /\ NextAddr(d, x) = NextAddr(c, x)
            /\ x \in Int /\ NextAddr(c, x) \in Int /\ NextAddr(c, x) >= x + HDR
        BY <3>2, <1>6, ChunkFacts
      <4>2. NextAddr(c, x) <= from \/ NextAddr(c, x) >= to
        BY <4>1, <3>2, <1>1, <1>3, HeapAssumption DEF Span
      <4>3. NextAddr(c, x) < from \/ NextAddr(c, x) >= to
        BY <4>1, <4>2, <3>2, <1>3
      <4>4. NextAddr(c, x) = END \/ NextAddr(c, x) \in DOMAIN c
        BY <4>1, ChunkFacts
      <4> QED BY <4>1, <4>3, <4>4, <1>2
    <3> QED BY <3>1, <3>2, <1>2
  <2>3. ASSUME NEW x \in DOMAIN d, NEW y \in DOMAIN d, x < y
        PROVE  NextAddr(d, x) <= y
    <3>1. CASE x = from /\ y \in kept
      BY <3>1, <2>3, <1>4, <1>3, <1>6, ChunkFacts
    <3>2. CASE x \in kept /\ y \in kept
      <4>1. NextAddr(c, x) <= y /\ x \in DOMAIN c
        BY <3>2, <2>3, <1>6, ChunkOrder
      <4>2. NextAddr(d, x) <= NextAddr(c, x) /\ NextAddr(d, x) \in Int
            /\ NextAddr(c, x) \in Int /\ y \in Int
        BY <3>2, <1>6, <1>3, ChunkFacts
      <4> QED BY <4>1, <4>2
    <3>3. CASE x \in kept /\ y = from
      <4>1. x \in DOMAIN c /\ x < from
        BY <3>3, <2>3, <1>6
      <4>2. NextAddr(d, x) = from \/ NextAddr(d, x) <= from
        BY <3>3, <4>1, <1>6, <1>1 DEF Span
      <4> QED BY <4>2, <3>3, <1>3
    <3>4. CASE x = from /\ y = from
      BY <3>4, <2>3, <1>3
    <3> QED BY <3>1, <3>2, <3>3, <3>4, <1>2
  <2> QED BY <2>1, <2>2, <2>3 DEF TiledBy
<1>10. Coalesced(d)
  <2> SUFFICES ASSUME NEW x \in DOMAIN d
               PROVE  /\ d[x].wsze <= d[x].size
                      /\ d[x].free => d[x].wsze = 0 /\ ~d[x].lock
                      /\ FreeAt(d, NextAddr(d, x)) => ~d[x].free /\ d[x].wsze = 0
    BY DEF Coalesced
  <2>1. CASE x = from
    <3>1. d[x].wsze = 0 /\ ~d[x].lock /\ d[x].size \in Nat
      BY <2>1, <1>2, <1>3, HeaderFacts, HeapAssumption
    <3>2. ~FreeAt(d, to)
      <4>1. to # from
        BY <1>3, HeapAssumption
      <4>2. to \in DOMAIN d => to \in kept
        BY <4>1, <1>2
      <4>3. to \in kept => ~d[to].free
        BY <1>6, <1>3, <1>5, ChunkFacts, HeapAssumption
      <4> QED BY <4>2, <4>3 DEF FreeAt
    <3> QED BY <2>1, <3>1, <3>2, <1>4
  <2>2. CASE x \in kept
    <3>1. d[x].free => d[x].wsze = 0 /\ ~d[x].lock
      <4>1. c[x].free => c[x].wsze = 0 /\ ~c[x].lock
        BY <2>2 DEF Valid, Coalesced
      <4> QED BY <4>1, <2>2, <1>6
    <3>2. ASSUME FreeAt(d, NextAddr(d, x)) PROVE ~d[x].free /\ d[x].wsze = 0
      <4>1. CASE NextAddr(c, x) = a
        BY <4>1, <2>2, <1>6
      <4>2. CASE NextAddr(c, x) # a /\ NextAddr(c, x) = from
        <5>1. x < from
          BY <4>2, <2>2, ChunkFacts, HeapAssumption
        <5> QED BY <5>1, <4>2, <2>2, <1>6, <1>1 DEF Span
      <4>3. CASE NextAddr(c, x) # a /\ NextAddr(c, x) # from
        <5>1. NextAddr(d, x) = NextAddr(c, x) /\ d[x] = c[x] /\ x \in DOMAIN c
          BY <4>3, <2>2, <1>6
        <5>2. NextAddr(c, x) \in kept
          BY <5>1, <4>3, <3>2, <1>2 DEF FreeAt
        <5>3. FreeAt(c, NextAddr(c, x))
          BY <5>1, <5>2, <3>2, <1>6 DEF FreeAt
        <5> QED BY <5>1, <5>3 DEF Valid, Coalesced
      <4> QED BY <4>1, <4>2, <4>3
    <3> QED BY <2>2, <3>1, <3>2, <1>6
  <2> QED BY <2>1, <2>2, <1>2
<1>11. Valid(d)
  BY <1>8, <1>9, <1>10 DEF Valid
<1>12. \A x \in DOMAIN d : ~d[x].free => x \in DOMAIN c /\ ~c[x].free /\ x # a
  BY <1>2, <1>6, HeaderFacts
<1> QED BY <1>6, <1>7, <1>11, <1>12 DEF d

-----------------------------------------------------------------------------
(* Allocating. *)

\* A rounded request is a size.
LEMMA RoundFacts == ASSUME NEW s \in Nat PROVE Round(s) \in Nat
<1> DEFINE q == (s + ALIGN - 1) \div ALIGN
<1>1. q \in Int /\ ALIGN \in Int /\ SIZES \in Nat \ {0}
  BY HeapAssumption
<1> HIDE DEF q
<1>2. q * ALIGN \in Int
  BY <1>1
<1> DEFINE r == q * ALIGN
<1> HIDE DEF r
<1>3. r % SIZES \in Nat
  BY <1>1, <1>2 DEF r
<1> QED BY <1>3 DEF Round, q, r

\* Allocating keeps the map valid, puts one more chunk in use, with room for
\* the request and unlocked, and leaves every other chunk in use as it was.
LEMMA AllocChunkFacts ==
  ASSUME NEW c, Valid(c), NEW s \in Nat, NEW a, BestFit(c, s, a),
         NEW m \in BOOLEAN
  PROVE  LET d == AllocChunk(c, s, a, m)
             b == AllocAddr(c, s, a)
         IN  /\ Valid(d)
             /\ b \in DOMAIN d /\ ~d[b].free /\ ~d[b].lock /\ Room(d, b) = s
             /\ \A x \in DOMAIN c : ~c[x].free =>
                  x \in DOMAIN d /\ d[x] = c[x] /\ x # b
             /\ \A x \in DOMAIN d : ~d[x].free /\ x # b =>
                  x \in DOMAIN c /\ ~c[x].free
<1> DEFINE d == AllocChunk(c, s, a, m)
           b == AllocAddr(c, s, a)
           u(size, waste) == [size |-> size, free |-> FALSE, lock |-> FALSE,
                              mark |-> m, wsze |-> waste, data |-> 0]
<1>1. a \in DOMAIN c /\ c[a].free /\ c[a].size >= s
  BY DEF BestFit, Fits
<1>2. /\ a \in Int /\ a >= FIRST /\ c[a].size \in Nat
      /\ NextAddr(c, a) = a + HDR + c[a].size /\ NextAddr(c, a) <= END
      /\ NextAddr(c, a) = END \/ NextAddr(c, a) \in DOMAIN c
      /\ ~FreeAt(c, NextAddr(c, a))
      /\ c[a].wsze = 0
  BY <1>1, ChunkFacts DEF Valid, Coalesced
<1>3. \A size, waste \in Nat : u(size, waste) \in Header
  BY HeapAssumption DEF Header
<1>p. HDR \in Nat /\ HDR > 0 /\ FIRST \in Nat /\ END \in Nat
  BY HeapAssumption
<1>4. \A x \in DOMAIN c : FreeAt(c, NextAddr(c, x)) => x # a
  BY <1>2
<1>i. \A x \in DOMAIN c : x \in Int /\ NextAddr(c, x) \in Int
  BY ChunkFacts
<1>5. \A x \in DOMAIN c : x # a => x < a \/ x >= NextAddr(c, a)
  BY <1>1, <1>2, <1>i, ChunkOrder
<1>6. CASE Splits(c, s, a)
  <2> DEFINE rest == c[a].size - s - HDR
  <2>1. rest \in Nat /\ b = a + HDR + rest /\ b + HDR + s = NextAddr(c, a)
        /\ b \in Int /\ a < b /\ b < NextAddr(c, a)
    BY <1>6, <1>2, <1>p DEF Splits, AllocAddr
  <2>2. b \notin DOMAIN c
    <3> HIDE DEF b, rest
    <3> QED BY <2>1, <1>2, <1>5, <1>p
  <2>3. /\ DOMAIN d = DOMAIN c \cup {b}
        /\ d[b] = u(s, 0)
        /\ d[a] = FreeHeader(rest)
        /\ \A x \in DOMAIN c : x # a => d[x] = c[x]
        /\ d = [x \in DOMAIN d |-> d[x]]
    BY <1>6, <2>2, <1>1 DEF AllocChunk
  <2> HIDE DEF d, b, rest
  <2>4. /\ d[a].size = rest /\ d[a].free /\ ~d[a].lock /\ d[a].wsze = 0
        /\ d[a] \in Header
    BY <2>1, <2>3, HeaderFacts
  <2>5. /\ d[b].size = s /\ ~d[b].free /\ ~d[b].lock /\ d[b].wsze = 0
        /\ d[b] \in Header
    BY <2>3, <1>3
  <2>6. NextAddr(d, a) = b /\ NextAddr(d, b) = NextAddr(c, a)
    BY <2>1, <2>4, <2>5 DEF NextAddr
  <2>7. \A x \in DOMAIN c : x # a => NextAddr(d, x) = NextAddr(c, x)
    BY <2>3 DEF NextAddr
  <2>8. DOMAIN d \subseteq Address /\ d \in [DOMAIN d -> Header]
    <3>1. b \in Address
      BY <2>1, <1>2, <1>p DEF Address
    <3> QED BY <3>1, <2>3, <2>4, <2>5, ChunkFacts DEF Valid
  <2>9. TiledBy(d)
    <3>1. FIRST \in DOMAIN d
      BY <2>3 DEF Valid, TiledBy
    <3>2. \A x \in DOMAIN d : NextAddr(d, x) = END \/ NextAddr(d, x) \in DOMAIN d
      BY <1>2, <2>3, <2>6, <2>7, ChunkFacts
    <3>3. ASSUME NEW x \in DOMAIN d, NEW y \in DOMAIN d, x < y
          PROVE  NextAddr(d, x) <= y
      <4>1. CASE x \in DOMAIN c /\ y \in DOMAIN c /\ x # a
        BY <3>3, <4>1, <2>7, ChunkOrder
      <4>2. CASE x = a /\ y \in DOMAIN c
        <5>1. y >= NextAddr(c, a)
          BY <3>3, <4>2, <1>5, <1>2, <1>i
        <5> QED BY <5>1, <4>2, <2>6, <2>1, <1>2, <1>i, <1>p
      <4>3. CASE x \in DOMAIN c /\ x # a /\ y = b
        <5>1. NextAddr(c, x) <= a
          BY <3>3, <4>3, <1>5, <2>1, ChunkOrder, ChunkFacts, <1>1
        <5> QED BY <5>1, <4>3, <2>7, <2>1, <1>2, ChunkFacts
      <4>4. CASE x = a /\ y = b
        BY <4>4, <2>6, <2>1
      <4>5. CASE x = b /\ y \in DOMAIN c
        <5>1. y # a /\ ~(y < a)
          BY <3>3, <4>5, <2>1, <1>2, <1>i
        <5> QED BY <5>1, <4>5, <2>6, <1>5
      <4>6. CASE x = b /\ y = b
        BY <3>3, <4>6, <2>1
      <4> QED BY <4>1, <4>2, <4>3, <4>4, <4>5, <4>6, <2>3
    <3> QED BY <3>1, <3>2, <3>3 DEF TiledBy
  <2>10. Coalesced(d)
    <3> SUFFICES ASSUME NEW x \in DOMAIN d
                 PROVE  /\ d[x].wsze <= d[x].size
                        /\ d[x].free => d[x].wsze = 0 /\ ~d[x].lock
                        /\ FreeAt(d, NextAddr(d, x)) => ~d[x].free /\ d[x].wsze = 0
      BY DEF Coalesced
    <3>1. CASE x = a
      <4>1. ~FreeAt(d, NextAddr(d, x))
        BY <3>1, <2>6, <2>5 DEF FreeAt
      <4> QED BY <4>1, <3>1, <2>4, <2>1
    <3>2. CASE x = b
      <4>1. ~FreeAt(d, NextAddr(d, x))
        <5>1. NextAddr(d, x) # a /\ NextAddr(d, x) # b
          BY <3>2, <2>6, <2>1, <1>2, <1>p
        <5> QED BY <5>1, <3>2, <2>6, <2>3, <1>2 DEF FreeAt
      <4> QED BY <4>1, <3>2, <2>5, <2>1
    <3>3. CASE x \in DOMAIN c /\ x # a
      <4>1. d[x] = c[x] /\ NextAddr(d, x) = NextAddr(c, x)
        BY <3>3, <2>3, <2>7
      <4>2. FreeAt(d, NextAddr(d, x)) => FreeAt(c, NextAddr(c, x))
        BY <4>1, <2>3, <2>5, <1>1 DEF FreeAt
      <4> QED BY <4>1, <4>2, <3>3 DEF Valid, Coalesced
    <3> QED BY <3>1, <3>2, <3>3, <2>3
  <2>11. Room(d, b) = s
    BY <2>5 DEF Room
  <2>12. Valid(d)
    BY <2>8, <2>9, <2>10 DEF Valid
  <2> QED BY <2>2, <2>3, <2>4, <2>5, <2>11, <2>12, <1>1 DEF d, b
<1>7. CASE ~Splits(c, s, a)
  <2> DEFINE w == c[a].size - s
  <2>1. b = a /\ w \in Nat /\ w <= c[a].size
    BY <1>7, <1>1, <1>2 DEF AllocAddr
  <2>2. /\ DOMAIN d = DOMAIN c
        /\ d[a] = u(c[a].size, w)
        /\ \A x \in DOMAIN c : x # a => d[x] = c[x]
        /\ d = [x \in DOMAIN d |-> d[x]]
    BY <1>7, <1>1 DEF AllocChunk, Valid
  <2> HIDE DEF d, b, w
  <2>3. /\ d[a].size = c[a].size /\ ~d[a].free /\ ~d[a].lock /\ d[a].wsze = w
        /\ d[a] \in Header
    BY <2>1, <2>2, <1>2, <1>3
  <2>4. \A x \in DOMAIN c : NextAddr(d, x) = NextAddr(c, x)
    BY <2>2, <2>3 DEF NextAddr
  <2>5. DOMAIN d \subseteq Address /\ d \in [DOMAIN d -> Header]
    BY <2>2, <2>3, ChunkFacts DEF Valid
  <2>6. TiledBy(d)
    BY <2>2, <2>4 DEF Valid, TiledBy
  <2>7. Coalesced(d)
    <3> SUFFICES ASSUME NEW x \in DOMAIN c
                 PROVE  /\ d[x].wsze <= d[x].size
                        /\ d[x].free => d[x].wsze = 0 /\ ~d[x].lock
                        /\ FreeAt(d, NextAddr(d, x)) => ~d[x].free /\ d[x].wsze = 0
      BY <2>2 DEF Coalesced
    <3>1. FreeAt(d, NextAddr(d, x)) => FreeAt(c, NextAddr(c, x))
      BY <2>2, <2>3, <2>4 DEF FreeAt
    <3>2. CASE x = a
      BY <3>1, <3>2, <1>2, <2>1, <2>3
    <3>3. CASE x # a
      BY <3>1, <3>3, <2>2 DEF Valid, Coalesced
    <3> QED BY <3>2, <3>3
  <2>8. Room(d, b) = s
    BY <2>1, <2>3, <1>2 DEF Room, w
  <2>9. Valid(d)
    BY <2>5, <2>6, <2>7 DEF Valid
  <2> QED BY <2>1, <2>2, <2>3, <2>8, <2>9, <1>1 DEF d, b
<1> QED BY <1>6, <1>7

-----------------------------------------------------------------------------
(* Moving. *)

\* Moving keeps the map valid, carries chunk p to the end of the free chunk
\* behind it, and leaves every other chunk in use as it was.
LEMMA MoveFacts ==
  ASSUME NEW c, Valid(c), NEW p \in Movable(c)
  PROVE  LET d == Move(c, p)
             f == MovedTo(c, p)
         IN  /\ Valid(d)
             /\ f \in Address /\ f # p
             /\ SameUse(c, p, d, f)
             /\ \A x \in DOMAIN c : ~c[x].free /\ x # p =>
                  x # f /\ SameUse(c, x, d, x)
             /\ \A x \in DOMAIN d : ~d[x].free /\ x # f =>
                  x \in DOMAIN c /\ ~c[x].free /\ x # p
<1> DEFINE n == NextAddr(c, p)
           f == MovedTo(c, p)
           e == Swap(c, p)
           d == Move(c, p)
<1>1. /\ p \in DOMAIN c /\ ~c[p].free /\ ~c[p].lock
      /\ n \in DOMAIN c /\ c[n].free /\ c[p].wsze = 0
  BY DEF Movable, FreeAt, Valid, Coalesced
<1>2. /\ p \in Int /\ p >= FIRST /\ n = p + HDR + c[p].size /\ n \in Int
      /\ c[p].size \in Nat /\ c[n].size \in Nat /\ c[p] \in Header
      /\ NextAddr(c, n) = n + HDR + c[n].size /\ NextAddr(c, n) <= END
      /\ NextAddr(c, n) = END \/ NextAddr(c, n) \in DOMAIN c
      /\ ~FreeAt(c, NextAddr(c, n))
  BY <1>1, ChunkFacts DEF Valid, Coalesced
<1>p. HDR \in Nat /\ HDR > 0 /\ FIRST \in Nat /\ END \in Nat
  BY HeapAssumption
<1>3. /\ f = p + HDR + c[n].size /\ f \in Int /\ p < f
      /\ f + HDR + c[p].size = NextAddr(c, n) /\ f < NextAddr(c, n)
  BY <1>1, <1>2, <1>p DEF MovedTo
<1>i. \A x \in DOMAIN c : x \in Int /\ NextAddr(c, x) \in Int
  BY ChunkFacts
<1>4. \A x \in DOMAIN c : x # p /\ x # n => x < p \/ x >= NextAddr(c, n)
  BY <1>1, <1>2, <1>i, ChunkOrder
<1>5. f \notin DOMAIN c \ {n}
  BY <1>2, <1>3, <1>4, <1>p
<1>6. /\ DOMAIN e = (DOMAIN c \ {n}) \cup {f}
      /\ e[f] = [c[p] EXCEPT !.size = @ - c[p].wsze]
      /\ e[p] = [FreeHeader(f - p - HDR) EXCEPT !.free = FALSE]
      /\ \A x \in DOMAIN c : x # p /\ x # n => e[x] = c[x]
      /\ e = [x \in DOMAIN e |-> e[x]]
      /\ p \in DOMAIN e /\ n # p
  BY <1>1, <1>2, <1>3, <1>5, <1>p DEF Swap
<1> HIDE DEF n, f, e, d
<1>7. e[f] = c[p]
  <2>1. e[f] = [c[p] EXCEPT !.size = @ - 0]
    BY <1>6, <1>1
  <2>2. c[p].size - 0 = c[p].size
    BY <1>2
  <2> QED BY <2>1, <2>2, <1>2 DEF Header
<1>8. /\ e[p].size = f - p - HDR /\ ~e[p].free /\ ~e[p].lock /\ e[p].wsze = 0
      /\ e[p] \in Header /\ e[p].size = c[n].size
  <2>1. f - p - HDR = c[n].size
    BY <1>2, <1>3, <1>p
  <2>2. e[p] = [size |-> c[n].size, free |-> FALSE, lock |-> FALSE,
                mark |-> FALSE, wsze |-> 0, data |-> 0]
    BY <2>1, <1>6 DEF FreeHeader
  <2> QED BY <2>1, <2>2, <1>2, HeapAssumption DEF Header
<1>9. NextAddr(e, p) = f /\ NextAddr(e, f) = NextAddr(c, n)
  BY <1>2, <1>3, <1>7, <1>8, <1>p DEF NextAddr
<1>10. \A x \in DOMAIN c : x # p /\ x # n =>
         /\ NextAddr(e, x) = NextAddr(c, x)
         /\ NextAddr(c, x) # n
         /\ x # f
  <2>1. \A x \in DOMAIN c : x # p => NextAddr(c, x) # n
    BY <1>1, ChunkOrder DEF n
  <2> QED BY <2>1, <1>5, <1>6 DEF NextAddr
<1>11. DOMAIN e \subseteq Address /\ e \in [DOMAIN e -> Header] /\ f \in Address
  <2>1. f \in Address
    BY <1>2, <1>3, <1>p DEF Address
  <2> QED BY <2>1, <1>2, <1>6, <1>7, <1>8, ChunkFacts DEF Valid
<1>12. TiledBy(e)
  <2>1. FIRST \in DOMAIN e
    <3>1. FIRST \in DOMAIN c
      BY DEF Valid, TiledBy
    <3>2. FIRST # n
      BY <1>2, <1>p
    <3> QED BY <3>1, <3>2, <1>6
  <2>2. \A x \in DOMAIN e : NextAddr(e, x) = END \/ NextAddr(e, x) \in DOMAIN e
    <3>1. NextAddr(c, n) # n
      BY <1>2, <1>p
    <3> QED BY <3>1, <1>2, <1>6, <1>9, <1>10, ChunkFacts
  <2>3. ASSUME NEW x \in DOMAIN e, NEW y \in DOMAIN e, x < y
        PROVE  NextAddr(e, x) <= y
    <3>1. CASE x = p
      BY <3>1, <2>3, <1>2, <1>3, <1>4, <1>6, <1>9, ChunkFacts
    <3>2. CASE x = f
      BY <3>2, <2>3, <1>2, <1>3, <1>4, <1>6, <1>9, ChunkFacts
    <3>3. CASE x # p /\ x # f
      <4>1. x \in DOMAIN c /\ x # n /\ x # p /\ NextAddr(e, x) = NextAddr(c, x)
        BY <3>3, <1>6, <1>10
      <4>2. CASE y \in DOMAIN c
        BY <4>1, <4>2, <2>3, ChunkOrder
      <4>3. CASE y = f
        <5>1. x < p
          BY <4>1, <4>3, <2>3, <1>2, <1>3, <1>4, <1>i, <1>p
        <5>2. NextAddr(c, x) <= p
          BY <4>1, <5>1, <1>1, ChunkOrder
        <5> QED BY <4>1, <4>3, <5>2, <1>2, <1>3, ChunkFacts
      <4> QED BY <4>2, <4>3, <1>6
    <3> QED BY <3>1, <3>2, <3>3
  <2> QED BY <2>1, <2>2, <2>3 DEF TiledBy
<1>13. Coalesced(e)
  <2> SUFFICES ASSUME NEW x \in DOMAIN e
               PROVE  /\ e[x].wsze <= e[x].size
                      /\ e[x].free => e[x].wsze = 0 /\ ~e[x].lock
                      /\ FreeAt(e, NextAddr(e, x)) => ~e[x].free /\ e[x].wsze = 0
    BY DEF Coalesced
  <2>1. CASE x = p
    BY <2>1, <1>1, <1>2, <1>7, <1>8, <1>9 DEF FreeAt
  <2>2. CASE x = f
    <3>1. ~FreeAt(e, NextAddr(e, f))
      <4>1. NextAddr(c, n) # p /\ NextAddr(c, n) # n /\ NextAddr(c, n) # f
        BY <1>2, <1>3, <1>p
      <4> QED BY <4>1, <1>2, <1>6, <1>9 DEF FreeAt
    <3> QED BY <2>2, <3>1, <1>1, <1>2, <1>7
  <2>3. CASE x # p /\ x # f
    <3>1. x \in DOMAIN c /\ x # n /\ e[x] = c[x] /\ NextAddr(e, x) = NextAddr(c, x)
      BY <2>3, <1>6, <1>10
    <3>2. FreeAt(e, NextAddr(e, x)) => FreeAt(c, NextAddr(c, x))
      BY <3>1, <1>1, <1>6, <1>7, <1>8 DEF FreeAt
    <3> QED BY <3>1, <3>2 DEF Valid, Coalesced
  <2> QED BY <2>1, <2>2, <2>3
<1>14. Valid(e)
  BY <1>11, <1>12, <1>13 DEF Valid
<1>15. /\ Valid(d)
       /\ \A x \in DOMAIN e : ~e[x].free /\ x # p => SameUse(e, x, d, x)
       /\ \A x \in DOMAIN d : ~d[x].free => x \in DOMAIN e /\ ~e[x].free /\ x # p
  BY <1>14, <1>6, <1>8, FreeChunkFacts DEF d, Move, e
<1>16. f # p /\ SameUse(c, p, d, f)
  <2>1. SameUse(e, f, d, f)
    BY <1>1, <1>3, <1>2, <1>6, <1>7, <1>15
  <2> QED BY <2>1, <1>2, <1>3, <1>7 DEF SameUse, Room
<1>17. ASSUME NEW x \in DOMAIN c, ~c[x].free, x # p
       PROVE  x # f /\ SameUse(c, x, d, x)
  <2>1. x # n /\ x # f /\ x \in DOMAIN e /\ e[x] = c[x]
    BY <1>17, <1>1, <1>6, <1>10
  <2>2. SameUse(e, x, d, x)
    BY <2>1, <1>17, <1>15
  <2> QED BY <2>1, <2>2 DEF SameUse, Room
<1>18. ASSUME NEW x \in DOMAIN d, ~d[x].free, x # f
       PROVE  x \in DOMAIN c /\ ~c[x].free /\ x # p
  BY <1>18, <1>15, <1>6
<1> QED BY <1>11, <1>15, <1>16, <1>17, <1>18 DEF d, f

-----------------------------------------------------------------------------
(* The chunk map together with the handle table. *)

Heap(c, t) ==
  /\ Valid(c)
  /\ t \in [Handle -> {0} \cup Address]
  /\ NameOwnChunk(c, t)

\* The objects of all handles but those in S are the same in (d, u) as in (c, t).
KeepsObjects(c, t, d, u, S) ==
  \A g \in Handle \ S :
    /\ t[g] = 0 <=> u[g] = 0
    /\ t[g] # 0 => SameUse(c, t[g], d, u[g])

\* Locked chunks are pinned in the step from c to d.
KeepsPinned(c, d) ==
  \A a \in DOMAIN c : c[a].lock => SameUse(c, a, d, a) /\ ~d[a].free

\* A locked chunk is in use.
LEMMA LockedInUse ==
  ASSUME NEW c, Valid(c), NEW a \in DOMAIN c, c[a].lock
  PROVE  ~c[a].free
BY DEF Valid, Coalesced

\* A chunk left alone is in the same use.
LEMMA SameUseRefl == ASSUME NEW c, NEW a \in DOMAIN c PROVE SameUse(c, a, c, a)
BY DEF SameUse

\* Changing no header's extent and unlocking no free chunk keeps a map valid.
LEMMA EditFacts ==
  ASSUME NEW c, Valid(c), NEW d, d \in [DOMAIN c -> Header],
         \A x \in DOMAIN c : /\ d[x].size = c[x].size /\ d[x].free = c[x].free
                             /\ d[x].wsze = c[x].wsze
                             /\ d[x].free => ~d[x].lock
  PROVE  Valid(d)
<1>1. DOMAIN d = DOMAIN c /\ \A x \in DOMAIN c : NextAddr(d, x) = NextAddr(c, x)
  BY DEF NextAddr
<1>2. \A x : FreeAt(d, x) <=> FreeAt(c, x)
  BY <1>1 DEF FreeAt
<1>3. TiledBy(d)
  BY <1>1 DEF Valid, TiledBy
<1>4. Coalesced(d)
  BY <1>1, <1>2 DEF Valid, Coalesced
<1> QED BY <1>1, <1>3, <1>4 DEF Valid

\* Setting the lock bit of a header keeps it a header.
LEMMA LockHeader ==
  ASSUME NEW hd \in Header, NEW v \in BOOLEAN
  PROVE  LET g == [hd EXCEPT !.lock = v]
         IN  /\ g \in Header /\ g.size = hd.size /\ g.wsze = hd.wsze
             /\ g.free = hd.free /\ g.data = hd.data /\ g.mark = hd.mark
             /\ g.lock = v
BY DEF Header

\* ujHeapHandleFree of an unlocked object keeps the heap well formed.
LEMMA HeapFree ==
  ASSUME NEW c, NEW t, Heap(c, t), NEW h \in Handle, t[h] # 0
  PROVE  LET d == FreeChunk(c, t[h])
             u == [t EXCEPT ![h] = 0]
         IN  /\ Heap(d, u)
             /\ KeepsObjects(c, t, d, u, {h})
             /\ ~c[t[h]].lock => KeepsPinned(c, d)
<1> DEFINE d == FreeChunk(c, t[h])
           u == [t EXCEPT ![h] = 0]
<1>1. /\ t[h] \in DOMAIN c /\ ~c[t[h]].free /\ Valid(c)
      /\ u \in [Handle -> {0} \cup Address] /\ u[h] = 0
      /\ \A g \in Handle : g # h => u[g] = t[g]
  BY DEF Heap, NameOwnChunk, InUse
<1>2. /\ Valid(d)
      /\ \A x \in DOMAIN c : ~c[x].free /\ x # t[h] => SameUse(c, x, d, x)
      /\ \A x \in DOMAIN d : ~d[x].free => x \in DOMAIN c /\ ~c[x].free /\ x # t[h]
  BY <1>1, FreeChunkFacts
<1> HIDE DEF d, u
<1>3. \A g \in Handle : g # h /\ t[g] # 0 =>
        t[g] \in DOMAIN c /\ ~c[t[g]].free /\ t[g] # t[h] /\ c[t[g]].data = g
  BY DEF Heap, NameOwnChunk, InUse
<1>4. KeepsObjects(c, t, d, u, {h})
  BY <1>1, <1>2, <1>3 DEF KeepsObjects
<1>5. NameOwnChunk(d, u)
  <2>1. ASSUME NEW g \in Handle, u[g] # 0
        PROVE  InUse(d, u[g]) /\ d[u[g]].data = g
    BY <2>1, <1>1, <1>2, <1>3 DEF InUse, SameUse
  <2>2. ASSUME NEW x \in DOMAIN d, ~d[x].free
        PROVE  d[x].lock \/ \E g \in Handle : u[g] = x
    <3>1. x \in DOMAIN c /\ ~c[x].free /\ x # t[h] /\ d[x].lock = c[x].lock
      BY <2>2, <1>2 DEF SameUse
    <3> QED BY <3>1, <1>1 DEF Heap, NameOwnChunk
  <2> QED BY <2>1, <2>2 DEF NameOwnChunk
<1>6. ~c[t[h]].lock => KeepsPinned(c, d)
  BY <1>1, <1>2, LockedInUse DEF KeepsPinned, SameUse
<1> QED BY <1>1, <1>2, <1>4, <1>5, <1>6 DEF Heap, d, u

WithData(c, b, h) == [c EXCEPT ![b].data = h]
WithLock(c, b) == [c EXCEPT ![b].lock = TRUE]

\* ujHeapPrvAllocChunk followed by storing the handle keeps the heap well formed.
LEMMA HeapAlloc ==
  ASSUME NEW c, NEW t, Heap(c, t), NEW s \in Nat, NEW a, BestFit(c, s, a),
         NEW m \in BOOLEAN, NEW h \in Handle, t[h] = 0
  PROVE  LET e == AllocChunk(c, s, a, m)
             b == AllocAddr(c, s, a)
             d == WithData(e, b, h)
             u == [t EXCEPT ![h] = b]
             l == WithLock(e, b)
         IN  /\ Heap(d, u)
             /\ KeepsObjects(c, t, d, u, {h})
             /\ KeepsPinned(c, d)
             /\ u[h] # 0 /\ d[u[h]].data = h /\ ~d[u[h]].lock /\ Room(d, u[h]) = s
             /\ Heap(l, t)
             /\ KeepsObjects(c, t, l, t, {})
             /\ KeepsPinned(c, l)
<1> DEFINE e == AllocChunk(c, s, a, m)
           b == AllocAddr(c, s, a)
           d == WithData(e, b, h)
           u == [t EXCEPT ![h] = b]
           l == WithLock(e, b)
<1>0. Valid(c) /\ t \in [Handle -> {0} \cup Address]
  BY DEF Heap
<1>1. /\ Valid(e)
      /\ b \in DOMAIN e /\ ~e[b].free /\ ~e[b].lock /\ Room(e, b) = s
      /\ \A x \in DOMAIN c : ~c[x].free => x \in DOMAIN e /\ e[x] = c[x] /\ x # b
      /\ \A x \in DOMAIN e : ~e[x].free /\ x # b => x \in DOMAIN c /\ ~c[x].free
  BY <1>0, AllocChunkFacts
<1> HIDE DEF e, b
<1>2. /\ e \in [DOMAIN e -> Header] /\ DOMAIN d = DOMAIN e /\ DOMAIN l = DOMAIN e
      /\ d[b] = [e[b] EXCEPT !.data = h] /\ l[b] = [e[b] EXCEPT !.lock = TRUE]
      /\ \A x \in DOMAIN e : x # b => d[x] = e[x] /\ l[x] = e[x]
      /\ d = [x \in DOMAIN e |-> d[x]] /\ l = [x \in DOMAIN e |-> l[x]]
      /\ e[b] \in Header
  <2>1. e \in [DOMAIN e -> Header] /\ e[b] \in Header
    BY <1>1 DEF Valid
  <2>2. /\ DOMAIN d = DOMAIN e /\ d[b] = [e[b] EXCEPT !.data = h]
        /\ \A x \in DOMAIN e : x # b => d[x] = e[x]
        /\ d = [x \in DOMAIN e |-> d[x]]
    BY <1>1, <2>1 DEF WithData
  <2>3. /\ DOMAIN l = DOMAIN e /\ l[b] = [e[b] EXCEPT !.lock = TRUE]
        /\ \A x \in DOMAIN e : x # b => l[x] = e[x]
        /\ l = [x \in DOMAIN e |-> l[x]]
    BY <1>1, <2>1 DEF WithLock
  <2> HIDE DEF d, l
  <2> QED BY <2>1, <2>2, <2>3
<1>3. /\ d[b] \in Header /\ d[b].size = e[b].size /\ d[b].wsze = e[b].wsze
      /\ d[b].free = e[b].free /\ ~d[b].free /\ d[b].lock = e[b].lock
      /\ d[b].data = h
  BY <1>1, <1>2 DEF Header, Handle
<1>4. /\ l[b] \in Header /\ l[b].size = e[b].size /\ l[b].wsze = e[b].wsze
      /\ l[b].free = e[b].free /\ ~l[b].free /\ l[b].lock
  <2>1. \A v \in BOOLEAN : LET g == [e[b] EXCEPT !.lock = v]
                           IN  /\ g \in Header /\ g.size = e[b].size
                               /\ g.wsze = e[b].wsze /\ g.free = e[b].free
                               /\ g.lock = v
    BY <1>2, LockHeader
  <2>2. TRUE \in BOOLEAN
    OBVIOUS
  <2>3. PICK v \in BOOLEAN : v = TRUE
    BY <2>2
  <2>4. l[b] = [e[b] EXCEPT !.lock = v]
    BY <1>2, <2>3
  <2> QED BY <2>1, <2>3, <2>4, <1>1
<1>d. d \in [DOMAIN e -> Header] /\ l \in [DOMAIN e -> Header]
  BY <1>2, <1>3, <1>4
<1>5. /\ u \in [Handle -> {0} \cup Address] /\ u[h] = b /\ b # 0
      /\ \A g \in Handle : g # h => u[g] = t[g]
  <2>1. b \in Address
    BY <1>1 DEF Valid
  <2>2. b # 0
    BY <2>1, HeapAssumption DEF Address
  <2> QED BY <2>1, <2>2, <1>0
<1> HIDE DEF d, u, l
<1>6. \A x \in DOMAIN e : e[x].free => ~e[x].lock
  BY <1>1 DEF Valid, Coalesced
<1>7. Valid(d)
  <2>1. ASSUME NEW x \in DOMAIN e
        PROVE  /\ d[x].size = e[x].size /\ d[x].free = e[x].free
               /\ d[x].wsze = e[x].wsze
               /\ d[x].free => ~d[x].lock
    <3>1. CASE x = b
      BY <3>1, <1>3
    <3>2. CASE x # b
      BY <3>2, <1>2, <1>6
    <3> QED BY <3>1, <3>2
  <2> QED BY <2>1, <1>1, <1>d, EditFacts
<1>8. Valid(l)
  <2>1. ASSUME NEW x \in DOMAIN e
        PROVE  /\ l[x].size = e[x].size /\ l[x].free = e[x].free
               /\ l[x].wsze = e[x].wsze
               /\ l[x].free => ~l[x].lock
    <3>1. CASE x = b
      BY <3>1, <1>4
    <3>2. CASE x # b
      BY <3>2, <1>2, <1>6
    <3> QED BY <3>1, <3>2
  <2> QED BY <2>1, <1>1, <1>d, EditFacts
<1>9. \A x \in DOMAIN c : ~c[x].free => SameUse(c, x, d, x) /\ SameUse(c, x, l, x)
  BY <1>1, <1>2 DEF SameUse, Room
<1>10. KeepsPinned(c, d) /\ KeepsPinned(c, l)
  BY <1>0, <1>9, LockedInUse DEF KeepsPinned, SameUse
<1>11. \A g \in Handle : t[g] # 0 => t[g] \in DOMAIN c /\ ~c[t[g]].free /\ c[t[g]].data = g
  BY DEF Heap, NameOwnChunk, InUse
<1>12. KeepsObjects(c, t, d, u, {h}) /\ KeepsObjects(c, t, l, t, {})
  BY <1>5, <1>9, <1>11 DEF KeepsObjects
<1>13. NameOwnChunk(d, u)
  <2>1. ASSUME NEW g \in Handle, u[g] # 0 PROVE InUse(d, u[g]) /\ d[u[g]].data = g
    <3>1. CASE g = h
      BY <3>1, <1>1, <1>2, <1>3, <1>5 DEF InUse
    <3>2. CASE g # h
      <4>1. u[g] = t[g] /\ SameUse(c, t[g], d, t[g]) /\ ~c[t[g]].free /\ c[t[g]].data = g
        BY <3>2, <2>1, <1>5, <1>9, <1>11
      <4> QED BY <4>1 DEF InUse, SameUse
    <3> QED BY <3>1, <3>2
  <2>2. ASSUME NEW x \in DOMAIN d, ~d[x].free
        PROVE  d[x].lock \/ \E g \in Handle : u[g] = x
    <3>1. CASE x # b
      <4>0. x \in DOMAIN e /\ d[x] = e[x] /\ ~e[x].free
        BY <3>1, <2>2, <1>2
      <4>1. x \in DOMAIN c /\ ~c[x].free /\ d[x].lock = c[x].lock
        BY <4>0, <3>1, <1>1
      <4>2. x # 0
        BY <4>1, <1>0, HeapAssumption DEF Valid, Address
      <4> QED BY <4>1, <4>2, <1>5 DEF Heap, NameOwnChunk
    <3> QED BY <3>1, <1>5
  <2> QED BY <2>1, <2>2 DEF NameOwnChunk
<1>14. NameOwnChunk(l, t)
  <2>1. ASSUME NEW g \in Handle, t[g] # 0 PROVE InUse(l, t[g]) /\ l[t[g]].data = g
    BY <2>1, <1>9, <1>11 DEF InUse, SameUse
  <2>2. ASSUME NEW x \in DOMAIN l, ~l[x].free
        PROVE  l[x].lock \/ \E g \in Handle : t[g] = x
    <3>1. CASE x # b
      <4>0. x \in DOMAIN e /\ l[x] = e[x] /\ ~e[x].free
        BY <3>1, <2>2, <1>2
      <4>1. x \in DOMAIN c /\ ~c[x].free /\ l[x].lock = c[x].lock
        BY <4>0, <3>1, <1>1
      <4> QED BY <4>1 DEF Heap, NameOwnChunk
    <3> QED BY <3>1, <1>4
  <2> QED BY <2>1, <2>2 DEF NameOwnChunk
<1>15. Room(d, b) = s /\ ~d[b].lock
  BY <1>1, <1>3 DEF Room
<1> QED BY <1>0, <1>3, <1>5, <1>7, <1>8, <1>10, <1>12, <1>13, <1>14, <1>15
        DEF Heap, d, u, l, e, b

\* A move of the compactor, with the table updated, keeps the heap well formed.
LEMMA HeapMove ==
  ASSUME NEW c, NEW t, Heap(c, t), NEW p \in Movable(c)
  PROVE  LET d == Move(c, p)
             u == [h \in Handle |-> IF t[h] = p THEN MovedTo(c, p) ELSE t[h]]
         IN  /\ Heap(d, u)
             /\ KeepsObjects(c, t, d, u, {})
             /\ KeepsPinned(c, d)
<1> DEFINE d == Move(c, p)
           f == MovedTo(c, p)
           u == [h \in Handle |-> IF t[h] = p THEN f ELSE t[h]]
<1>0. Valid(c) /\ t \in [Handle -> {0} \cup Address]
  BY DEF Heap
<1>1. /\ Valid(d)
      /\ f \in Address /\ f # p
      /\ SameUse(c, p, d, f)
      /\ \A x \in DOMAIN c : ~c[x].free /\ x # p => x # f /\ SameUse(c, x, d, x)
      /\ \A x \in DOMAIN d : ~d[x].free /\ x # f =>
           x \in DOMAIN c /\ ~c[x].free /\ x # p
  BY <1>0, MoveFacts
<1>2. p \in DOMAIN c /\ ~c[p].free /\ ~c[p].lock
  BY DEF Movable
<1>3. f # 0 /\ p # 0
  BY <1>0, <1>1, <1>2, HeapAssumption DEF Address, Valid
<1>4. u \in [Handle -> {0} \cup Address]
  BY <1>0, <1>1
<1>5. \A g \in Handle : u[g] = IF t[g] = p THEN f ELSE t[g]
  OBVIOUS
<1> HIDE DEF d, f, u
<1>6. \A g \in Handle : t[g] # 0 => t[g] \in DOMAIN c /\ ~c[t[g]].free /\ c[t[g]].data = g
  BY DEF Heap, NameOwnChunk, InUse
<1>7. KeepsObjects(c, t, d, u, {})
  BY <1>1, <1>3, <1>5, <1>6 DEF KeepsObjects
<1>8. KeepsPinned(c, d)
  BY <1>0, <1>1, <1>2, LockedInUse DEF KeepsPinned, SameUse
<1>9. NameOwnChunk(d, u)
  <2>1. ASSUME NEW g \in Handle, u[g] # 0 PROVE InUse(d, u[g]) /\ d[u[g]].data = g
    <3>1. t[g] # 0
      BY <2>1, <1>3, <1>5
    <3>2. SameUse(c, t[g], d, u[g]) /\ ~c[t[g]].free /\ c[t[g]].data = g
      BY <3>1, <1>6, <1>7 DEF KeepsObjects
    <3> QED BY <3>2 DEF SameUse, InUse
  <2>2. ASSUME NEW x \in DOMAIN d, ~d[x].free
        PROVE  d[x].lock \/ \E g \in Handle : u[g] = x
    <3>1. CASE x = f
      <4>1. \E g \in Handle : t[g] = p
        BY <1>2 DEF Heap, NameOwnChunk
      <4> QED BY <4>1, <3>1, <1>5
    <3>2. CASE x # f
      <4>1. x \in DOMAIN c /\ ~c[x].free /\ x # p /\ d[x].lock = c[x].lock
        BY <3>2, <2>2, <1>1 DEF SameUse
      <4> QED BY <4>1, <1>5 DEF Heap, NameOwnChunk
    <3> QED BY <3>1, <3>2
  <2> QED BY <2>1, <2>2 DEF NameOwnChunk
<1> QED BY <1>1, <1>4, <1>7, <1>8, <1>9 DEF Heap, d, u, f

\* Allocating a chunk and freeing it again, when there is no handle for it.
LEMMA HeapAllocFree ==
  ASSUME NEW c, NEW t, Heap(c, t), NEW s \in Nat, NEW a, BestFit(c, s, a),
         NEW m \in BOOLEAN
  PROVE  LET d == FreeChunk(AllocChunk(c, s, a, m), AllocAddr(c, s, a))
         IN  /\ Heap(d, t)
             /\ KeepsObjects(c, t, d, t, {})
             /\ KeepsPinned(c, d)
<1> DEFINE e == AllocChunk(c, s, a, m)
           b == AllocAddr(c, s, a)
           d == FreeChunk(e, b)
<1>0. Valid(c) /\ t \in [Handle -> {0} \cup Address]
  BY DEF Heap
<1>1. /\ Valid(e)
      /\ b \in DOMAIN e /\ ~e[b].free
      /\ \A x \in DOMAIN c : ~c[x].free => x \in DOMAIN e /\ e[x] = c[x] /\ x # b
      /\ \A x \in DOMAIN e : ~e[x].free /\ x # b => x \in DOMAIN c /\ ~c[x].free
  BY <1>0, AllocChunkFacts
<1> HIDE DEF e, b
<1>2. /\ Valid(d)
      /\ \A x \in DOMAIN e : ~e[x].free /\ x # b => SameUse(e, x, d, x)
      /\ \A x \in DOMAIN d : ~d[x].free => x \in DOMAIN e /\ ~e[x].free /\ x # b
  BY <1>1, FreeChunkFacts
<1> HIDE DEF d
<1>3. \A x \in DOMAIN c : ~c[x].free => SameUse(c, x, d, x)
  BY <1>1, <1>2 DEF SameUse, Room
<1>4. \A x \in DOMAIN d : ~d[x].free => x \in DOMAIN c /\ ~c[x].free
  BY <1>1, <1>2
<1>5. \A g \in Handle : t[g] # 0 => t[g] \in DOMAIN c /\ ~c[t[g]].free /\ c[t[g]].data = g
  BY DEF Heap, NameOwnChunk, InUse
<1>6. KeepsObjects(c, t, d, t, {}) /\ KeepsPinned(c, d)
  BY <1>0, <1>3, <1>5, LockedInUse DEF KeepsObjects, KeepsPinned, SameUse
<1>7. NameOwnChunk(d, t)
  <2>1. ASSUME NEW g \in Handle, t[g] # 0 PROVE InUse(d, t[g]) /\ d[t[g]].data = g
    BY <2>1, <1>3, <1>5 DEF InUse, SameUse
  <2>2. ASSUME NEW x \in DOMAIN d, ~d[x].free
        PROVE  d[x].lock \/ \E g \in Handle : t[g] = x
    <3>1. x \in DOMAIN c /\ ~c[x].free /\ d[x].lock = c[x].lock
      BY <2>2, <1>3, <1>4 DEF SameUse
    <3> QED BY <3>1 DEF Heap, NameOwnChunk
  <2> QED BY <2>1, <2>2 DEF NameOwnChunk
<1> QED BY <1>0, <1>2, <1>6, <1>7 DEF Heap, d, e, b

-----------------------------------------------------------------------------
(* The inductive invariant.  Beyond the invariants themselves it says what   *)
(* the sweep has done up to handle idx.                                      *)

SweepInv ==
  pc = "sweep" =>
    \A h \in Handle :
      /\ h \in rooted <=> table[h] # 0 /\ chunk[table[h]].mark
      /\ table[h] # 0 /\ h < idx => h \in rooted \/ chunk[table[h]].lock

IInv == TypeOK /\ Heap(chunk, table) /\ SweepInv /\ SweepExact

\* A well formed heap gives the types of chunk and table.
LEMMA HeapTypeOK ==
  ASSUME NEW c, NEW t, Heap(c, t)
  PROVE  /\ DOMAIN c \subseteq Address /\ c \in [DOMAIN c -> Header]
         /\ t \in [Handle -> {0} \cup Address]
         /\ \A h \in Handle : t[h] # 0 => InUse(c, t[h]) /\ c[t[h]].data = h
BY DEF Heap, Valid, NameOwnChunk

\* The heap of ujHeapInit satisfies the invariant.
LEMMA InitIInv == Init => IInv
<1> SUFFICES ASSUME Init PROVE IInv
  OBVIOUS
<1> DEFINE hd == FreeHeader(END - FIRST - HDR)
<1>1. END - FIRST - HDR \in Nat /\ FIRST \in Address /\ FIRST # 0
  BY HeapAssumption DEF Address
<1>2. hd \in Header /\ hd.size = END - FIRST - HDR /\ hd.wsze = 0 /\ hd.free /\ ~hd.lock
  BY <1>1, HeaderFacts
<1>3. chunk = [a \in {FIRST} |-> hd] /\ DOMAIN chunk = {FIRST} /\ chunk[FIRST] = hd
  BY DEF Init
<1> HIDE DEF hd
<1>4. NextAddr(chunk, FIRST) = END /\ END # FIRST
  BY <1>2, <1>3, HeapAssumption DEF NextAddr
<1>5. TiledBy(chunk)
  BY <1>3, <1>4, HeapAssumption DEF TiledBy
<1>6. Coalesced(chunk)
  BY <1>1, <1>2, <1>3, <1>4 DEF Coalesced, FreeAt
<1>7. Valid(chunk)
  BY <1>1, <1>2, <1>3, <1>5, <1>6 DEF Valid
<1>8. table \in [Handle -> {0} \cup Address] /\ NameOwnChunk(chunk, table)
  BY <1>2, <1>3 DEF Init, NameOwnChunk
<1>9. TypeOK
  <2>1. pc = "idle" /\ sz = 0 /\ fixed = FALSE /\ idx = 1 /\ rooted = {}
    BY DEF Init
  <2>2. DOMAIN chunk \subseteq Address /\ chunk \in [DOMAIN chunk -> Header]
    BY <1>7 DEF Valid
  <2>3. idx \in Nat \ {0} /\ rooted \subseteq Handle
    BY <2>1
  <2>5. fixed \in BOOLEAN
    BY <2>1
  <2>4. pc \in {"idle", "gc", "sweep", "compact", "retry"}
    BY <2>1
  <2> QED BY <2>1, <2>2, <2>3, <2>4, <2>5, <1>8 DEF TypeOK
<1> QED BY <1>7, <1>8, <1>9 DEF Init, IInv, Heap, SweepInv, SweepExact

\* What a step does to the objects behind the handles; it covers Pinned, too.
Gentle(S) ==
  /\ Heap(chunk', table')
  /\ KeepsObjects(chunk, table, chunk', table', S)
  /\ KeepsPinned(chunk, chunk')

\* A best fit for a rounded request is a free chunk large enough for it.
LEMMA BestFitRound ==
  ASSUME IInv, NEW s \in Requests PROVE Round(s) \in Nat
BY RoundFacts, HeapAssumption

\* A successful allocation.
LEMMA AllocateStep ==
  ASSUME IInv, NEW s \in Requests, NEW n \in BOOLEAN, Allocate(s, n)
  PROVE  \/ Gentle({}) /\ UNCHANGED table
         \/ \E h \in Handle :
              /\ Gentle({h})
              /\ table[h] = 0 /\ table'[h] # 0
              /\ chunk'[table'[h]].data = h /\ ~chunk'[table'[h]].lock
              /\ Room(chunk', table'[h]) = Round(s)
<1>1. PICK h \in Handle, a \in DOMAIN chunk, m \in BOOLEAN :
        /\ table[h] = 0
        /\ BestFit(chunk, Round(s), a)
        /\ Give(AllocChunk(chunk, Round(s), a, m),
                AllocAddr(chunk, Round(s), a), h, n)
  BY DEF Allocate, FirstUnused, Unused
<1>2. Round(s) \in Nat /\ Heap(chunk, table)
  BY BestFitRound DEF IInv
<1>r. table[h] = 0 /\ BestFit(chunk, Round(s), a)
  BY <1>1
<1> DEFINE e == AllocChunk(chunk, Round(s), a, m)
           b == AllocAddr(chunk, Round(s), a)
           d == WithData(e, b, h)
           u == [table EXCEPT ![h] = b]
           l == WithLock(e, b)
<1>3. /\ Heap(d, u)
      /\ KeepsObjects(chunk, table, d, u, {h})
      /\ KeepsPinned(chunk, d)
      /\ u[h] # 0 /\ d[u[h]].data = h /\ ~d[u[h]].lock /\ Room(d, u[h]) = Round(s)
      /\ Heap(l, table)
      /\ KeepsObjects(chunk, table, l, table, {})
      /\ KeepsPinned(chunk, l)
  BY <1>r, <1>2, HeapAlloc
<1>4. CASE n
  <2>1. chunk' = l /\ table' = table
    BY <1>1, <1>4 DEF Give, WithLock
  <2> HIDE DEF d, u, l
  <2> QED BY <2>1, <1>3 DEF Gentle
<1>5. CASE ~n
  <2>1. chunk' = d /\ table' = u
    BY <1>1, <1>5 DEF Give, WithData
  <2> HIDE DEF d, u, l
  <2> QED BY <2>1, <1>1, <1>3 DEF Gentle
<1> QED BY <1>4, <1>5

\* Freeing a handle, as a step: by its holder or by the sweep.
LEMMA FreeHandleStep ==
  ASSUME IInv, NEW h \in Handle, ~Unused(h), ~chunk[table[h]].lock, FreeHandle(h)
  PROVE  Gentle({h}) /\ table'[h] = 0 /\ \A g \in Handle : g # h => table'[g] = table[g]
<1>1. /\ Heap(chunk, table) /\ table[h] # 0
      /\ chunk' = FreeChunk(chunk, table[h]) /\ table' = [table EXCEPT ![h] = 0]
  BY DEF IInv, FreeHandle, Unused
<1>2. table \in [Handle -> {0} \cup Address]
  BY <1>1, HeapTypeOK
<1> QED BY <1>1, <1>2, HeapFree DEF Gentle

\* One iteration of the compactor, as a step.
LEMMA CompactStep ==
  ASSUME IInv, Compact
  PROVE  Gentle({})
<1>1. PICK p \in Movable(chunk) :
        chunk' = Move(chunk, p) /\ table' = Repoint(p, MovedTo(chunk, p))
  BY DEF Compact
<1> QED BY <1>1, HeapMove DEF IInv, Gentle, Repoint

\* The chunk allocated and freed again, as a step.
LEMMA OutOfHandlesStep ==
  ASSUME IInv, OutOfHandles
  PROVE  Gentle({}) /\ UNCHANGED table
<1>1. PICK a \in DOMAIN chunk, m \in BOOLEAN :
        /\ BestFit(chunk, Round(sz), a)
        /\ chunk' = FreeChunk(AllocChunk(chunk, Round(sz), a, m),
                              AllocAddr(chunk, Round(sz), a))
  BY DEF OutOfHandles
<1>2. sz \in Requests
  BY DEF IInv, TypeOK, OutOfHandles
<1>3. UNCHANGED table /\ Round(sz) \in Nat
  BY <1>2, BestFitRound DEF OutOfHandles
<1> QED BY <1>1, <1>3, HeapAllocFree DEF IInv, Gentle

\* The steps that change headers in place.
LEMMA CollectStep ==
  ASSUME IInv, NEW M, Collect(M)
  PROVE  /\ Heap(chunk', table')
         /\ \A a \in DOMAIN chunk :
              /\ a \in DOMAIN chunk' /\ chunk'[a].free = chunk[a].free
              /\ chunk'[a].lock = chunk[a].lock /\ chunk'[a].data = chunk[a].data
              /\ Room(chunk', a) = Room(chunk, a)
              /\ chunk'[a].mark = \E h \in M : table[h] = a
<1>1. /\ chunk' = [a \in DOMAIN chunk |->
                     [chunk[a] EXCEPT !.mark = \E h \in M : table[h] = a]]
      /\ table' = table
  BY DEF Collect
<1>2. Valid(chunk) /\ \A a \in DOMAIN chunk : chunk[a] \in Header
  BY DEF IInv, Heap, Valid
<1>3. ASSUME NEW a \in DOMAIN chunk
      PROVE  /\ chunk'[a] \in Header
             /\ chunk'[a].size = chunk[a].size /\ chunk'[a].wsze = chunk[a].wsze
             /\ chunk'[a].free = chunk[a].free /\ chunk'[a].lock = chunk[a].lock
             /\ chunk'[a].data = chunk[a].data
             /\ chunk'[a].mark = \E h \in M : table[h] = a
  <2> DEFINE v == \E h \in M : table[h] = a
  <2>1. v \in BOOLEAN
    OBVIOUS
  <2>2. chunk'[a] = [chunk[a] EXCEPT !.mark = v]
    BY <1>1
  <2> HIDE DEF v
  <2>3. chunk[a] \in Header
    BY <1>2
  <2>4. /\ chunk'[a] \in Header
        /\ chunk'[a].size = chunk[a].size /\ chunk'[a].wsze = chunk[a].wsze
        /\ chunk'[a].free = chunk[a].free /\ chunk'[a].lock = chunk[a].lock
        /\ chunk'[a].data = chunk[a].data /\ chunk'[a].mark = v
    BY <2>1, <2>2, <2>3 DEF Header
  <2> QED BY <2>4 DEF v
<1>4. chunk' \in [DOMAIN chunk -> Header]
  BY <1>1, <1>3
<1>5. \A a \in DOMAIN chunk : chunk[a].free => ~chunk[a].lock
  BY <1>2 DEF Valid, Coalesced
<1>6. Valid(chunk')
  <2> DEFINE d == chunk'
  <2>1. d \in [DOMAIN chunk -> Header]
    BY <1>4
  <2>2. ASSUME NEW x \in DOMAIN chunk
        PROVE  /\ d[x].size = chunk[x].size /\ d[x].free = chunk[x].free
               /\ d[x].wsze = chunk[x].wsze
               /\ d[x].free => ~d[x].lock
    BY <1>3, <1>5
  <2> HIDE DEF d
  <2>3. Valid(d)
    BY <2>1, <2>2, <1>2, EditFacts
  <2> QED BY <2>3 DEF d
<1>7. DOMAIN chunk' = DOMAIN chunk
  BY <1>4
<1>8. NameOwnChunk(chunk', table')
  <2>1. NameOwnChunk(chunk, table) /\ table' = table
    BY <1>1 DEF IInv, Heap
  <2>2. ASSUME NEW h \in Handle, table[h] # 0
        PROVE  InUse(chunk', table[h]) /\ chunk'[table[h]].data = h
    BY <2>1, <2>2, <1>3, <1>7 DEF NameOwnChunk, InUse
  <2>3. ASSUME NEW a \in DOMAIN chunk, ~chunk'[a].free
        PROVE  chunk'[a].lock \/ \E h \in Handle : table[h] = a
    <3>1. ~chunk[a].free /\ chunk'[a].lock = chunk[a].lock
      BY <2>3, <1>3
    <3> QED BY <3>1, <2>1 DEF NameOwnChunk
  <2> QED BY <2>1, <2>2, <2>3, <1>7 DEF NameOwnChunk
<1>9. table' \in [Handle -> {0} \cup Address]
  BY <1>1 DEF IInv, Heap
<1> QED BY <1>3, <1>6, <1>7, <1>8, <1>9 DEF Heap, Room

\* Locking or releasing an object, as a step.
LEMMA SetLockStep ==
  ASSUME IInv, NEW h \in Handle, NEW l \in BOOLEAN, SetLock(h, l)
  PROVE  /\ Heap(chunk', table') /\ table' = table
         /\ table[h] \in DOMAIN chunk /\ chunk'[table[h]].lock = l
         /\ DOMAIN chunk' = DOMAIN chunk
         /\ \A a \in DOMAIN chunk :
              /\ a # table[h] => chunk'[a] = chunk[a]
              /\ chunk'[a].free = chunk[a].free /\ chunk'[a].data = chunk[a].data
              /\ Room(chunk', a) = Room(chunk, a)
<1> DEFINE b == table[h]
           d == [chunk EXCEPT ![b].lock = l]
<1>1. /\ chunk' = d /\ table' = table /\ Valid(chunk)
      /\ b # 0 /\ b \in DOMAIN chunk /\ ~chunk[b].free
      /\ \A a \in DOMAIN chunk : chunk[a] \in Header
  BY DEF IInv, Heap, Valid, NameOwnChunk, InUse, SetLock, Unused
<1>2. /\ DOMAIN d = DOMAIN chunk
      /\ d[b] = [chunk[b] EXCEPT !.lock = l]
      /\ \A x \in DOMAIN chunk : x # b => d[x] = chunk[x]
      /\ d = [x \in DOMAIN chunk |-> d[x]]
  BY <1>1
<1> HIDE DEF d, b
<1>3. /\ d[b] \in Header /\ d[b].size = chunk[b].size /\ d[b].wsze = chunk[b].wsze
      /\ d[b].free = chunk[b].free /\ d[b].data = chunk[b].data /\ d[b].lock = l
  BY <1>1, <1>2, LockHeader
<1>4. d \in [DOMAIN chunk -> Header]
  BY <1>1, <1>2, <1>3
<1>5. \A x \in DOMAIN chunk : chunk[x].free => ~chunk[x].lock
  BY <1>1 DEF Valid, Coalesced
<1>6. ASSUME NEW x \in DOMAIN chunk
      PROVE  /\ d[x].size = chunk[x].size /\ d[x].free = chunk[x].free
             /\ d[x].wsze = chunk[x].wsze /\ d[x].data = chunk[x].data
             /\ d[x].free => ~d[x].lock
  BY <1>1, <1>2, <1>3, <1>5
<1>7. Valid(d)
  BY <1>1, <1>4, <1>6, EditFacts
<1>8. NameOwnChunk(d, table)
  <2>1. \A g \in Handle : table[g] # 0 => InUse(d, table[g]) /\ d[table[g]].data = g
    BY <1>2, <1>6 DEF IInv, Heap, NameOwnChunk, InUse
  <2>2. ASSUME NEW x \in DOMAIN chunk, ~d[x].free
        PROVE  d[x].lock \/ \E g \in Handle : table[g] = x
    BY <2>2, <1>2, <1>6 DEF IInv, Heap, NameOwnChunk, b
  <2> QED BY <2>1, <2>2, <1>2 DEF NameOwnChunk
<1>9. table \in [Handle -> {0} \cup Address]
  BY DEF IInv, Heap
<1> QED BY <1>1, <1>2, <1>3, <1>6, <1>7, <1>8, <1>9 DEF Heap, Room, b

-----------------------------------------------------------------------------
(* Every step keeps the invariant.                                           *)

\* What remains of IInv' once the objects are dealt with.
LEMMA Bookkeeping ==
  ASSUME Heap(chunk', table'),
         pc' \in {"idle", "gc", "sweep", "compact", "retry"},
         IF pc' = "idle" THEN sz' = 0 ELSE sz' \in Requests,
         fixed' \in BOOLEAN, idx' \in Nat \ {0}, rooted' \subseteq Handle,
         SweepInv', SweepExact'
  PROVE  IInv'
BY HeapTypeOK DEF IInv, TypeOK

\* Once back in the caller nothing of the slow path is left to keep.
LEMMA ReturnFacts ==
  ASSUME Return
  PROVE  /\ pc' = "idle" /\ sz' = 0 /\ fixed' \in BOOLEAN
         /\ idx' \in Nat \ {0} /\ rooted' \subseteq Handle
<1>1. fixed' \in BOOLEAN
  BY DEF Return
<1>2. idx' \in Nat \ {0} /\ rooted' \subseteq Handle /\ pc' = "idle" /\ sz' = 0
  BY DEF Return
<1> QED BY <1>1, <1>2

\* An allocation, from idle or from retry, keeps the whole invariant.
LEMMA AllocateInv ==
  ASSUME IInv, NEW s \in Requests, NEW n \in BOOLEAN, Allocate(s, n),
         pc' = "idle", sz' = 0, fixed' \in BOOLEAN, idx' \in Nat \ {0},
         rooted' \subseteq Handle
  PROVE  IInv'
<1>1. Heap(chunk', table')
  BY AllocateStep DEF Gentle
<1>2. SweepInv' /\ SweepExact'
  BY DEF SweepInv, SweepExact
<1> QED BY <1>1, <1>2, Bookkeeping

\* One iteration of the sweep keeps what was established about the handles before it.
LEMMA SweepStep ==
  ASSUME IInv, Sweep
  PROVE  Heap(chunk', table') /\ SweepInv'
<1>1. /\ Heap(chunk, table) /\ pc = "sweep" /\ pc' = "sweep" /\ idx' = idx + 1
      /\ rooted' = rooted /\ idx \in Handle /\ idx \in Nat /\ Handle \subseteq Nat
      /\ \A h \in Handle :
           /\ h \in rooted <=> table[h] # 0 /\ chunk[table[h]].mark
           /\ table[h] # 0 /\ h < idx => h \in rooted \/ chunk[table[h]].lock
  BY DEF IInv, Sweep, SweepInv, Handle, TypeOK
<1>2. CASE Garbage(idx)
  <2>1. /\ Gentle({idx}) /\ table'[idx] = 0
        /\ \A g \in Handle : g # idx => table'[g] = table[g]
    BY <1>1, <1>2, FreeHandleStep DEF Sweep, Garbage
  <2>2. idx \notin rooted
    BY <1>1, <1>2 DEF Garbage
  <2>3. ASSUME NEW h \in Handle
        PROVE  /\ h \in rooted <=> table'[h] # 0 /\ chunk'[table'[h]].mark
               /\ table'[h] # 0 /\ h < idx + 1 => h \in rooted \/ chunk'[table'[h]].lock
    <3>1. CASE h = idx
      BY <3>1, <2>1, <2>2
    <3>2. CASE h # idx
      <4>1. /\ table'[h] = table[h]
            /\ table[h] # 0 => /\ chunk'[table'[h]].mark = chunk[table[h]].mark
                               /\ chunk'[table'[h]].lock = chunk[table[h]].lock
        BY <3>2, <2>1 DEF Gentle, KeepsObjects, SameUse
      <4>2. h < idx + 1 => h < idx
        BY <3>2, <1>1
      <4> QED BY <4>1, <4>2, <1>1
    <3> QED BY <3>1, <3>2
  <2> QED BY <1>1, <2>1, <2>3 DEF SweepInv, Gentle
<1>3. CASE ~Garbage(idx)
  <2>1. chunk' = chunk /\ table' = table
    BY <1>3 DEF Sweep
  <2>2. \A h \in Handle : table[h] # 0 /\ h < idx + 1 =>
          h \in rooted \/ chunk[table[h]].lock
    <3> SUFFICES ASSUME NEW h \in Handle, table[h] # 0, h < idx + 1
                 PROVE  h \in rooted \/ chunk[table[h]].lock
      OBVIOUS
    <3>1. CASE h = idx
      BY <3>1, <1>1, <1>3 DEF Garbage, Unused
    <3>2. CASE h < idx
      BY <3>2, <1>1
    <3> QED BY <3>1, <3>2, <1>1
  <2> QED BY <1>1, <2>1, <2>2 DEF SweepInv
<1> QED BY <1>2, <1>3

\* Every step keeps the invariant.
LEMMA NextIInv == IInv /\ [Next]_vars => IInv'
<1> SUFFICES ASSUME IInv, [Next]_vars PROVE IInv'
  OBVIOUS
<1>t. TypeOK /\ Heap(chunk, table) /\ Heap(chunk, table)
  BY DEF IInv
<1>1. ASSUME NEW s \in Requests, NEW n \in BOOLEAN, HandleNew(s, n)
      PROVE  IInv'
  BY <1>1, <1>t, AllocateInv DEF HandleNew, TypeOK
<1>2. ASSUME NEW s \in Requests, NEW n \in BOOLEAN, HandleNewSlow(s, n)
      PROVE  IInv'
  <2>1. SweepInv' /\ SweepExact'
    BY <1>2 DEF HandleNewSlow, SweepInv, SweepExact
  <2> QED BY <1>2, <2>1, <1>t, Bookkeeping DEF HandleNewSlow, TypeOK
<1>3. ASSUME NEW h \in Handle, HandleFree(h) PROVE IInv'
  <2>1. Heap(chunk', table')
    BY <1>3, FreeHandleStep DEF HandleFree, Gentle
  <2>2. SweepInv' /\ SweepExact'
    BY <1>3 DEF HandleFree, SweepInv, SweepExact
  <2> QED BY <1>3, <2>1, <2>2, <1>t, Bookkeeping DEF HandleFree, TypeOK
<1>4. ASSUME NEW h \in Handle, NEW l \in BOOLEAN, SetLock(h, l) PROVE IInv'
  <2>1. Heap(chunk', table')
    BY <1>4, SetLockStep
  <2>2. SweepInv' /\ SweepExact'
    BY <1>4 DEF SetLock, SweepInv, SweepExact
  <2> QED BY <1>4, <2>1, <2>2, <1>t, Bookkeeping DEF SetLock, TypeOK
<1>5. ASSUME NEW M, Collect(M) PROVE IInv'
  <2>1. /\ pc' = "sweep" /\ idx' = 1 /\ rooted' = M /\ table' = table
        /\ M \subseteq Handle /\ \A h \in M : table[h] # 0
        /\ sz' = sz /\ fixed' = fixed /\ pc = "gc"
    BY <1>5 DEF Collect, Unused
  <2>2. Heap(chunk', table')
    BY <1>5, CollectStep
  <2>3. SweepInv'
    <3>1. ASSUME NEW h \in Handle, table[h] # 0
          PROVE  h \in M <=> chunk'[table[h]].mark
      <4>1. table[h] \in DOMAIN chunk /\ chunk[table[h]].data = h
        BY <3>1, <1>t, HeapTypeOK DEF InUse
      <4>2. chunk'[table[h]].mark = \E g \in M : table[g] = table[h]
        BY <4>1, <1>5, CollectStep
      <4>3. \A g \in M : table[g] = table[h] => g = h
        BY <4>1, <2>1, <1>t, HeapTypeOK
      <4> QED BY <4>2, <4>3
    <3>2. \A h \in Handle : ~(h < 1)
      BY DEF Handle
    <3> QED BY <3>1, <3>2, <2>1 DEF SweepInv
  <2>4. SweepExact'
    BY <2>1 DEF SweepExact
  <2> QED BY <2>1, <2>2, <2>3, <2>4, <1>t, Bookkeeping DEF TypeOK
<1>6. CASE Sweep
  <2>1. Heap(chunk', table') /\ SweepInv'
    BY <1>6, SweepStep
  <2>2. SweepExact'
    BY <1>6 DEF Sweep, SweepExact
  <2>3. /\ pc = "sweep" /\ UNCHANGED <<pc, sz, fixed, rooted>>
        /\ idx' \in Nat \ {0}
    BY <1>6, <1>t DEF Sweep, TypeOK
  <2> QED BY <2>1, <2>2, <2>3, <1>t, Bookkeeping DEF TypeOK
<1>7. CASE SweepDone
  <2>1. /\ pc = "sweep" /\ idx \notin Handle /\ pc' = "compact"
        /\ UNCHANGED <<chunk, table, sz, fixed, idx, rooted>>
    BY <1>7 DEF SweepDone
  <2>2. SweepInv'
    BY <2>1 DEF SweepInv
  <2>3. \A h \in Handle : h < idx
    BY <2>1, <1>t, HeapAssumption DEF TypeOK, Handle
  <2>4. SweepExact'
    BY <2>1, <2>3, <1>t DEF IInv, SweepInv, SweepExact, Unused, TypeOK
  <2> QED BY <2>1, <2>2, <2>4, <1>t, Bookkeeping DEF TypeOK
<1>8. CASE Compact
  <2>1. Gentle({})
    BY <1>8, CompactStep
  <2>2. pc = "compact" /\ UNCHANGED <<pc, sz, fixed, idx, rooted>>
    BY <1>8 DEF Compact
  <2>3. SweepInv'
    BY <2>2 DEF SweepInv
  <2>4. ASSUME NEW h \in Handle
        PROVE  /\ table[h] = 0 <=> table'[h] = 0
               /\ table[h] # 0 => chunk'[table'[h]].lock = chunk[table[h]].lock
    BY <2>1 DEF Gentle, KeepsObjects, SameUse
  <2>5. SweepExact'
    <3>1. rooted \subseteq Handle
      BY <1>t DEF TypeOK
    <3> QED BY <3>1, <2>2, <2>4 DEF IInv, SweepExact, Unused
  <2> QED BY <2>1, <2>2, <2>3, <2>5, <1>t, Bookkeeping DEF TypeOK, Gentle
<1>9. CASE CompactDone
  <2>1. SweepInv' /\ SweepExact'
    BY <1>9 DEF CompactDone, SweepInv, SweepExact
  <2> QED BY <1>9, <2>1, <1>t, Bookkeeping DEF CompactDone, TypeOK
<1>10. CASE Retry
  <2>1. sz \in Requests /\ fixed \in BOOLEAN /\ Allocate(sz, fixed)
    BY <1>10, <1>t DEF Retry, TypeOK
  <2> QED BY <1>10, <2>1, ReturnFacts, AllocateInv DEF Retry
<1>11. CASE OutOfMemory
  <2>1. SweepInv' /\ SweepExact'
    BY <1>11, ReturnFacts DEF OutOfMemory, SweepInv, SweepExact
  <2>2. Heap(chunk', table')
    BY <1>11, <1>t DEF OutOfMemory
  <2> QED BY <1>11, <2>1, <2>2, ReturnFacts, Bookkeeping DEF OutOfMemory
<1>12. CASE OutOfHandles
  <2>1. Heap(chunk', table')
    BY <1>12, OutOfHandlesStep DEF Gentle
  <2>2. SweepInv' /\ SweepExact'
    BY <1>12, ReturnFacts DEF OutOfHandles, SweepInv, SweepExact
  <2> QED BY <1>12, <2>1, <2>2, ReturnFacts, Bookkeeping DEF OutOfHandles
<1>13. CASE UNCHANGED vars
  BY <1>13 DEF vars, IInv, TypeOK, SweepInv, SweepExact, Unused
<1> QED BY <1>1, <1>2, <1>3, <1>4, <1>5, <1>6, <1>7, <1>8, <1>9, <1>10, <1>11,
           <1>12, <1>13 DEF Next, SlowPath, HandleLock, HandleRelease

-----------------------------------------------------------------------------
(* The theorems. *)

\* The inductive invariant of the allocator, collector sweep and compactor.
THEOREM Invariant == Spec => []IInv
BY InitIInv, NextIInv, PTL DEF Spec

\* The variables keep their types in ujHeap.c, whatever is asked of the heap.
THEOREM TypeCorrect == Spec => []TypeOK
<1>1. IInv => TypeOK
  BY DEF IInv
<1> QED BY <1>1, Invariant, PTL

\* The chunk list tiles the heap: no walk of ujHeap.c leaves it or goes astray.
THEOREM HeapTiled == Spec => []Tiled
<1>1. IInv => Tiled
  BY DEF IInv, Heap, Valid, Tiled
<1> QED BY <1>1, Invariant, PTL

\* Free chunks are merged and waste before them is given up (ujHeapPrvFreeChunk).
THEOREM HeapNoSlack == Spec => []NoSlack
<1>1. IInv => NoSlack
  BY DEF IInv, Heap, Valid, NoSlack
<1> QED BY <1>1, Invariant, PTL

\* Each handle in use names a chunk of its own that holds its data.
THEOREM HandlesSound == Spec => []HandlesNameOwnChunk
<1>1. IInv => HandlesNameOwnChunk
  BY DEF IInv, Heap, HandlesNameOwnChunk
<1> QED BY <1>1, Invariant, PTL

\* ujHeapFreeUnmarked frees the unmarked and unlocked handles and no others.
THEOREM SweepIsExact == Spec => []SweepExact
<1>1. IInv => SweepExact
  BY DEF IInv
<1> QED BY <1>1, Invariant, PTL

\* ujHeapPrvCompact has ended when the allocation is tried again.
Compacted == pc = "retry" => Movable(chunk) = {}

LEMMA CompactedInv == Spec => []Compacted
<1>1. Init => Compacted
  BY DEF Init, Compacted
<1>2. ASSUME Compacted, [Next]_vars PROVE Compacted'
  <2>1. CASE pc' # "retry"
    BY <2>1 DEF Compacted
  <2>2. CASE pc' = "retry"
    <3>1. chunk' = chunk /\ (pc = "retry" \/ CompactDone)
      BY <1>2, <2>2 DEF Next, SlowPath, HandleNew, HandleNewSlow, HandleFree, HandleLock,
         HandleRelease, SetLock, Collect, Sweep, SweepDone, Compact, CompactDone, Retry,
         OutOfMemory, OutOfHandles, Return, vars
    <3>2. Movable(chunk) = {}
      BY <1>2, <3>1 DEF Compacted, CompactDone
    <3>3. Movable(chunk)' = Movable(chunk)
      BY <3>1 DEF Movable, FreeAt, NextAddr, HasPrev, PrevAddr
    <3> QED BY <3>2, <3>3 DEF Compacted
  <2> QED BY <2>1, <2>2
<1> QED BY <1>1, <1>2, PTL DEF Spec

\* A chunk list with two free chunks has one that can be moved, unless something is pinned:
\* the chunk in front of the second one.
LEMMA OneFree ==
  ASSUME NEW c, Valid(c), \A a \in DOMAIN c : ~c[a].lock, Movable(c) = {},
         NEW a \in DOMAIN c, NEW b \in DOMAIN c, c[a].free, c[b].free
  PROVE  ~(a < b)
<1> SUFFICES ASSUME a < b PROVE FALSE
  OBVIOUS
<1>1. a \in Int /\ b \in Int /\ a >= FIRST /\ FIRST \in Nat
  BY ChunkFacts, HeapAssumption
<1>2. HasPrev(c, b)
  BY <1>1, PrevExists
<1>3. PICK p \in DOMAIN c : NextAddr(c, p) = b
  BY <1>2 DEF HasPrev
<1>4. FreeAt(c, NextAddr(c, p))
  BY <1>3 DEF FreeAt
<1>5. ~c[p].free
  BY <1>4 DEF Valid, Coalesced
<1>6. p \in Int /\ p >= FIRST /\ p # a
  BY <1>5, ChunkFacts
<1>7. a < p
  <2>1. ~(p < a)
    <3> SUFFICES ASSUME p < a PROVE FALSE
      OBVIOUS
    <3>1. b <= a
      BY <1>3, ChunkOrder
    <3> QED BY <1>1, <3>1
  <2> QED BY <1>1, <1>6, <2>1
<1>8. HasPrev(c, p)
  <2>1. p # FIRST
    BY <1>1, <1>6, <1>7
  <2> QED BY <2>1, PrevExists
<1>9. PrevAddr(c, p) \in DOMAIN c
  BY <1>8, PrevFacts
<1> QED BY <1>4, <1>5, <1>8, <1>9 DEF Movable

\* After a compaction in which nothing was pinned, all free space is one chunk: the second
\* attempt fails only for a request that is larger than all of it.
THEOREM CompactionIsComplete == Spec => []CompactionCoalesces
<1>1. ASSUME IInv, Compacted PROVE CompactionCoalesces
  <2> SUFFICES ASSUME pc = "retry", NothingPinned, NEW a \in DOMAIN chunk, NEW b \in DOMAIN chunk,
                      chunk[a].free, chunk[b].free
               PROVE  a = b
    BY DEF CompactionCoalesces
  <2>1. Valid(chunk) /\ Movable(chunk) = {} /\ \A x \in DOMAIN chunk : ~chunk[x].lock
    BY <1>1 DEF IInv, Heap, Compacted, NothingPinned
  <2>2. ~(a < b) /\ ~(b < a)
    BY <2>1, OneFree
  <2>3. a \in Int /\ b \in Int
    BY <2>1, ChunkFacts
  <2> QED BY <2>2, <2>3
<1> QED BY <1>1, Invariant, CompactedInv, PTL

PinnedStep ==
  \A a \in DOMAIN chunk : chunk[a].lock =>
    /\ a \in DOMAIN chunk'
    /\ ~chunk'[a].free
    /\ Room(chunk', a) = Room(chunk, a)
    /\ chunk'[a].data = chunk[a].data
    /\ chunk'[a].lock \/ \E h \in Handle : HandleRelease(h)

\* A locked chunk is not moved, freed, shortened or unlocked by anything but
\* the release of its handle.
THEOREM LockedPinned == Spec => Pinned
<1>1. KeepsPinned(chunk, chunk') => PinnedStep
  BY DEF KeepsPinned, SameUse, PinnedStep
<1>2. IInv /\ [Next]_vars => [PinnedStep]_vars
  <2> SUFFICES ASSUME IInv, [Next]_vars, vars' # vars PROVE PinnedStep
    OBVIOUS
  <2>t. Heap(chunk, table) /\ Valid(chunk) /\ TypeOK
    BY DEF IInv, Heap
  <2>u. chunk' = chunk => PinnedStep
    BY <2>t, LockedInUse DEF PinnedStep, Room
  <2>a. ASSUME NEW s \in Requests, NEW n \in BOOLEAN, Allocate(s, n) PROVE PinnedStep
    BY <2>a, <1>1, AllocateStep DEF Gentle
  <2>1. ASSUME NEW s \in Requests, NEW n \in BOOLEAN,
               HandleNew(s, n) \/ HandleNewSlow(s, n)
        PROVE  PinnedStep
    BY <2>1, <2>a, <2>u DEF HandleNew, HandleNewSlow
  <2>2. ASSUME NEW h \in Handle, HandleFree(h) PROVE PinnedStep
    BY <2>2, <1>1, FreeHandleStep DEF HandleFree, Gentle
  <2>3. ASSUME NEW h \in Handle, NEW l \in BOOLEAN, SetLock(h, l),
               l \/ HandleRelease(h)
        PROVE  PinnedStep
    <3> SUFFICES ASSUME NEW a \in DOMAIN chunk, chunk[a].lock
                 PROVE  /\ a \in DOMAIN chunk' /\ ~chunk'[a].free
                        /\ Room(chunk', a) = Room(chunk, a)
                        /\ chunk'[a].data = chunk[a].data
                        /\ chunk'[a].lock \/ \E g \in Handle : HandleRelease(g)
      BY DEF PinnedStep
    <3>1. ~chunk[a].free
      BY <2>t, LockedInUse
    <3>2. /\ a \in DOMAIN chunk' /\ chunk'[a].free = chunk[a].free
          /\ Room(chunk', a) = Room(chunk, a) /\ chunk'[a].data = chunk[a].data
          /\ a # table[h] => chunk'[a] = chunk[a]
          /\ chunk'[table[h]].lock = l
      BY <2>3, SetLockStep
    <3>3. chunk'[a].lock \/ \E g \in Handle : HandleRelease(g)
      BY <2>3, <3>2
    <3> QED BY <3>1, <3>2, <3>3
  <2>4. ASSUME NEW M, Collect(M) PROVE PinnedStep
    BY <2>4, <2>t, CollectStep, LockedInUse DEF PinnedStep
  <2>5. CASE Sweep
    <3>1. CASE Garbage(idx)
      BY <2>5, <3>1, <1>1, FreeHandleStep DEF Sweep, Garbage, Gentle
    <3>2. CASE ~Garbage(idx)
      BY <2>5, <3>2, <2>u DEF Sweep
    <3> QED BY <3>1, <3>2
  <2>6. CASE Compact
    BY <2>6, <1>1, CompactStep DEF Gentle
  <2>7. CASE SweepDone \/ CompactDone \/ OutOfMemory
    BY <2>7, <2>u DEF SweepDone, CompactDone, OutOfMemory
  <2>8. CASE Retry
    BY <2>8, <2>a, <2>t DEF Retry, TypeOK
  <2>9. CASE OutOfHandles
    BY <2>9, <1>1, OutOfHandlesStep DEF Gentle
  <2> QED BY <2>1, <2>2, <2>3, <2>4, <2>5, <2>6, <2>7, <2>8, <2>9
          DEF Next, SlowPath, HandleLock, HandleRelease
<1>3. [PinnedStep]_vars => 
      [\A a \in DOMAIN chunk : chunk[a].lock =>
         /\ a \in DOMAIN chunk'
         /\ ~chunk'[a].free
         /\ Room(chunk', a) = Room(chunk, a)
         /\ chunk'[a].data = chunk[a].data
         /\ chunk'[a].lock \/ \E h \in Handle : HandleRelease(h)]_vars
  BY DEF PinnedStep
<1> QED BY <1>2, <1>3, Invariant, PTL DEF Spec, Pinned

-----------------------------------------------------------------------------
(* Refinement of HeapStore. *)

\* How the store sees a handle in use.
LEMMA ViewOfUsed ==
  ASSUME NEW h \in Handle, table[h] # 0, Heap(chunk, table)
  PROVE  StoreView[h] = ObjectAt(chunk, table[h]) /\ h \in Store!Live
<1>1. StoreView[h] = ObjectAt(chunk, table[h])
  BY DEF StoreView, Unused
<1>2. ObjectAt(chunk, table[h]).data = h /\ h # 0
  BY HeapTypeOK DEF ObjectAt, Handle
<1> QED BY <1>1, <1>2 DEF Store!Live, Store!NoObject

\* Objects kept by a step look the same in the store before and after it.
LEMMA ViewKept ==
  ASSUME NEW S, KeepsObjects(chunk, table, chunk', table', S)
  PROVE  \A g \in Handle \ S : StoreView'[g] = StoreView[g]
<1> SUFFICES ASSUME NEW g \in Handle, g \notin S PROVE StoreView'[g] = StoreView[g]
  OBVIOUS
<1>1. CASE table[g] = 0
  BY <1>1 DEF KeepsObjects, StoreView, Unused
<1>2. CASE table[g] # 0
  <2>1. table'[g] # 0 /\ SameUse(chunk, table[g], chunk', table'[g])
    BY <1>2 DEF KeepsObjects
  <2>2. ObjectAt(chunk', table'[g]) = ObjectAt(chunk, table[g])
    BY <2>1 DEF SameUse, ObjectAt
  <2> QED BY <1>2, <2>1, <2>2 DEF StoreView, Unused
<1> QED BY <1>1, <1>2

\* The store is a function on the handles.
LEMMA ViewFunction ==
  /\ StoreView = [h \in Handle |-> StoreView[h]]
  /\ StoreView' = [h \in Handle |-> StoreView'[h]]
BY DEF StoreView

\* The heap implements the store: operations of handles are steps of the store,
\* and merging, sweeping past a survivor and compaction do not change it.
THEOREM HeapRefinesStore == Spec => StoreSpec
<1>1. Init => Store!StoreInit
  BY DEF Init, Store!StoreInit, Store!NoObject, StoreView, Unused
<1>2. IInv /\ [Next]_vars => [Store!StoreNext]_StoreView
  <2> SUFFICES ASSUME IInv, [Next]_vars
               PROVE  Store!StoreNext \/ StoreView' = StoreView
    OBVIOUS
  <2>t. Heap(chunk, table) /\ TypeOK
    BY DEF IInv
  <2>k. KeepsObjects(chunk, table, chunk', table', {}) => StoreView' = StoreView
    BY ViewKept, ViewFunction
  <2>u. chunk' = chunk /\ table' = table => StoreView' = StoreView
    BY DEF StoreView, Unused, ObjectAt, Room
  <2>a. ASSUME NEW s \in Requests, NEW n \in BOOLEAN, Allocate(s, n)
        PROVE  Store!StoreNext \/ StoreView' = StoreView
    <3>1. CASE Gentle({})
      BY <3>1, <2>k DEF Gentle
    <3>2. ASSUME NEW h \in Handle, Gentle({h}), table[h] = 0, table'[h] # 0,
                 chunk'[table'[h]].data = h, ~chunk'[table'[h]].lock,
                 Room(chunk', table'[h]) = Round(s)
          PROVE  Store!StoreNext
      <4>1. StoreView[h] = Store!NoObject
        BY <3>2 DEF StoreView, Unused, Store!NoObject
      <4>2. chunk'[table'[h]].lock = FALSE
        <5>1. chunk'[table'[h]] \in Header
          BY <3>2, HeapTypeOK DEF Gentle, InUse
        <5> QED BY <5>1, <3>2 DEF Header
      <4>3. StoreView'[h] = [room |-> Round(s), lock |-> FALSE, data |-> h]
        BY <3>2, <4>2 DEF StoreView, Unused, ObjectAt
      <4>4. \A g \in Handle : g # h => StoreView'[g] = StoreView[g]
        BY <3>2, ViewKept DEF Gentle
      <4>5. StoreView' = [StoreView EXCEPT ![h] =
                            [room |-> Round(s), lock |-> FALSE, data |-> h]]
        BY <4>3, <4>4, ViewFunction
      <4>6. Store!New(h, Round(s))
        BY <4>1, <4>5 DEF Store!New, Store!Live
      <4> QED BY <4>6 DEF Store!StoreNext
    <3> QED BY <3>1, <3>2, <2>a, AllocateStep
  <2>f. ASSUME NEW h \in Handle, ~Unused(h), ~chunk[table[h]].lock, FreeHandle(h)
        PROVE  Store!StoreNext
    <3>1. Gentle({h}) /\ table'[h] = 0
      BY <2>f, FreeHandleStep
    <3>2. StoreView'[h] = Store!NoObject
      BY <3>1 DEF StoreView, Unused, Store!NoObject
    <3>3. \A g \in Handle : g # h => StoreView'[g] = StoreView[g]
      BY <3>1, ViewKept DEF Gentle
    <3>4. StoreView' = [StoreView EXCEPT ![h] = Store!NoObject]
      BY <3>2, <3>3, ViewFunction
    <3>5. h \in Store!Live /\ ~StoreView[h].lock
      <4>1. StoreView[h] = ObjectAt(chunk, table[h]) /\ h \in Store!Live
        BY <2>f, <2>t, ViewOfUsed DEF Unused
      <4>2. ObjectAt(chunk, table[h]).lock = chunk[table[h]].lock
        BY DEF ObjectAt
      <4> QED BY <4>1, <4>2, <2>f
    <3>6. Store!Drop(h)
      BY <3>4, <3>5 DEF Store!Drop
    <3> QED BY <3>6 DEF Store!StoreNext
  <2>1. ASSUME NEW s \in Requests, NEW n \in BOOLEAN,
               HandleNew(s, n) \/ HandleNewSlow(s, n)
        PROVE  Store!StoreNext \/ StoreView' = StoreView
    BY <2>1, <2>a, <2>u DEF HandleNew, HandleNewSlow
  <2>2. ASSUME NEW h \in Handle, HandleFree(h) PROVE Store!StoreNext
    BY <2>2, <2>f DEF HandleFree
  <2>3. ASSUME NEW h \in Handle, NEW l \in BOOLEAN, SetLock(h, l)
        PROVE  Store!StoreNext
    <3>1. /\ table' = table /\ table[h] \in DOMAIN chunk /\ table[h] # 0
          /\ chunk'[table[h]].lock = l
          /\ \A a \in DOMAIN chunk :
               /\ a # table[h] => chunk'[a] = chunk[a]
               /\ chunk'[a].data = chunk[a].data /\ Room(chunk', a) = Room(chunk, a)
      BY <2>3, SetLockStep DEF SetLock, Unused
    <3>2. StoreView[h] = ObjectAt(chunk, table[h]) /\ h \in Store!Live
      BY <3>1, <2>t, ViewOfUsed
    <3>3. StoreView'[h] = ObjectAt(chunk', table[h])
      BY <3>1 DEF StoreView, Unused
    <3>4. ObjectAt(chunk', table[h]) = [ObjectAt(chunk, table[h]) EXCEPT !.lock = l]
      BY <3>1 DEF ObjectAt
    <3>5. ASSUME NEW g \in Handle, g # h PROVE StoreView'[g] = StoreView[g]
      <4>1. CASE table[g] = 0
        BY <4>1, <3>1 DEF StoreView, Unused
      <4>2. CASE table[g] # 0
        <5>1. table[g] \in DOMAIN chunk /\ table[g] # table[h]
          BY <4>2, <3>1, <3>5, <2>t, HeapTypeOK DEF InUse
        <5> QED BY <5>1, <4>2, <3>1 DEF StoreView, Unused, ObjectAt
      <4> QED BY <4>1, <4>2
    <3>6. StoreView' = [StoreView EXCEPT ![h].lock = l]
      BY <3>2, <3>3, <3>4, <3>5, ViewFunction
    <3>7. Store!SetLock(h, l)
      BY <3>2, <3>6 DEF Store!SetLock
    <3> QED BY <3>7 DEF Store!StoreNext
  <2>4. ASSUME NEW M, Collect(M) PROVE StoreView' = StoreView
    <3>1. table' = table
      BY <2>4 DEF Collect
    <3>2. ASSUME NEW g \in Handle PROVE StoreView'[g] = StoreView[g]
      <4>1. CASE table[g] = 0
        BY <4>1, <3>1 DEF StoreView, Unused
      <4>2. CASE table[g] # 0
        <5>1. table[g] \in DOMAIN chunk
          BY <4>2, <2>t, HeapTypeOK DEF InUse
        <5> QED BY <5>1, <4>2, <3>1, <2>4, CollectStep DEF StoreView, Unused, ObjectAt
      <4> QED BY <4>1, <4>2
    <3> QED BY <3>2, ViewFunction
  <2>5. CASE Sweep
    <3>1. CASE Garbage(idx)
      BY <2>5, <3>1, <2>f DEF Sweep, Garbage
    <3>2. CASE ~Garbage(idx)
      BY <2>5, <3>2, <2>u DEF Sweep
    <3> QED BY <3>1, <3>2
  <2>6. CASE Compact
    BY <2>6, <2>k, CompactStep DEF Gentle
  <2>7. CASE SweepDone \/ CompactDone \/ OutOfMemory \/ UNCHANGED vars
    BY <2>7, <2>u DEF SweepDone, CompactDone, OutOfMemory, vars
  <2>8. CASE Retry
    BY <2>8, <2>a, <2>t DEF Retry, TypeOK
  <2>9. CASE OutOfHandles
    BY <2>9, <2>k, OutOfHandlesStep DEF Gentle
  <2> QED BY <2>1, <2>2, <2>3, <2>4, <2>5, <2>6, <2>7, <2>8, <2>9
          DEF Next, SlowPath, HandleLock, HandleRelease
<1> QED BY <1>1, <1>2, Invariant, PTL DEF Spec, StoreSpec, Store!StoreSpec

=============================================================================
