-------------------------- MODULE ClassConvert_proofs --------------------------
(*************************************************************************)
(* What the class converter keeps, for every class.                      *)
(*                                                                       *)
(* TargetsKept, about the code of methods: instructions are known by     *)
(* their numbers, which no pass changes, and blocks by where they begin  *)
(* and end in these numbers (Cuts): the parts are the recursive          *)
(* definitions, the blocks while the addresses in the queue are taken    *)
(* (Loaded), the targets that have become blocks (Resolved), the export  *)
(* (Numbered, SameTargets), and the invariant of the converter (Inv).    *)
(*                                                                       *)
(* ReferencesKept, about the constants: the parts are the addresses of   *)
(* the file as sums of sizes (Total), the new order of the constants     *)
(* (NewIndex), what is found in the file (Laid, ConstantFound,           *)
(* ExportKeeps), and what instructions and entries name on their way     *)
(* through the converter (Names, NamesInv).                              *)
(*************************************************************************)
EXTENDS ClassConvert, Recursion, SequenceTheorems, TLAPS

-----------------------------------------------------------------------------
(* Sequences as functions. *)

\* A function on 1..n is a sequence of length n.
LEMMA IsSeq ==
  ASSUME NEW S, NEW n \in Nat, NEW f \in [1..n -> S]
  PROVE  f \in Seq(S) /\ Len(f) = n /\ DOMAIN f = 1..n
OBVIOUS

\* A sequence of whatever there is.
Entries(s, n) == n \in Nat /\ s = [j \in 1..n |-> s[j]]

\* Such a function is a sequence, of every set that has its values.
LEMMA EntriesSeq ==
  ASSUME NEW s, NEW n, Entries(s, n)
  PROVE  /\ n \in Nat /\ Len(s) = n /\ DOMAIN s = 1..n
         /\ \A T : {s[j] : j \in 1..n} \subseteq T => s \in Seq(T)
<1>1. n \in Nat /\ s \in [1..n -> {s[j] : j \in 1..n}]
  BY DEF Entries
<1>2. Len(s) = n /\ DOMAIN s = 1..n
  BY <1>1, IsSeq
<1>3. ASSUME NEW T, {s[j] : j \in 1..n} \subseteq T PROVE s \in Seq(T)
  <2>1. s \in [1..n -> T]
    BY <1>1, <1>3
  <2> QED BY <1>1, <2>1, IsSeq
<1> QED BY <1>1, <1>2, <1>3

Concatenates(u, s, n, t, l) ==
  /\ Entries(u, n + l)
  /\ \A j \in 1..n : u[j] = s[j]
  /\ \A j \in 1..l : u[n + j] = t[j]

\* What stands where in a concatenation.
LEMMA ConcatEntries ==
  ASSUME NEW s, NEW n \in Nat, Entries(s, n), NEW t, NEW l \in Nat, Entries(t, l)
  PROVE  Concatenates(s \o t, s, n, t, l)
<1> DEFINE T == {s[j] : j \in 1..n} \cup {t[j] : j \in 1..l}
           u == s \o t
<1>1. s \in Seq(T) /\ t \in Seq(T) /\ Len(s) = n /\ Len(t) = l /\ n \in Nat /\ l \in Nat
  BY EntriesSeq
<1> HIDE DEF T
<1>2. /\ u \in Seq(T) /\ Len(u) = n + l
      /\ \A j \in 1..(n + l) : u[j] = IF j <= n THEN s[j] ELSE t[j - n]
  BY <1>1, ConcatProperties
<1>3. u \in [1..(n + l) -> T]
  BY <1>2, LenProperties
<1> HIDE DEF u
<1>4. Entries(u, n + l)
  BY <1>1, <1>3 DEF Entries
<1>5. \A j \in 1..n : u[j] = s[j]
  BY <1>1, <1>2
<1>6. ASSUME NEW j \in 1..l PROVE u[n + j] = t[j]
  <2>1. n + j \in 1..(n + l) /\ ~(n + j <= n) /\ (n + j) - n = j
    BY <1>1
  <2> QED BY <1>2, <2>1
<1> QED BY <1>4, <1>5, <1>6 DEF u, Concatenates

\* What stands where in a part of a sequence.
LEMMA SubSeqEntries ==
  ASSUME NEW s, NEW n \in Nat, Entries(s, n), NEW a \in 1..(n + 1), NEW b \in 0..n, a <= b + 1
  PROVE  /\ Entries(SubSeq(s, a, b), b - a + 1)
         /\ \A j \in 1..(b - a + 1) : SubSeq(s, a, b)[j] = s[a + j - 1]
<1>1. n \in Nat /\ Len(s) = n
  BY EntriesSeq
<1>2. SubSeq(s, a, b) = [j \in 1..(b - a + 1) |-> s[a + j - 1]]
  BY <1>1
<1>3. b - a + 1 \in Nat
  BY <1>1
<1> QED BY <1>2, <1>3 DEF Entries

\* The sequence of one element.
LEMMA OneEntry ==
  ASSUME NEW x
  PROVE  Entries(<<x>>, 1) /\ <<x>>[1] = x
BY DEF Entries

\* The empty sequence.
LEMMA NoEntries == Entries(<<>>, 0)
BY DEF Entries

\* Sequences of the same length with the same elements are equal.
LEMMA SameEntries ==
  ASSUME NEW s, NEW t, NEW n \in Nat, Entries(s, n), Entries(t, n), \A j \in 1..n : s[j] = t[j]
  PROVE  s = t
BY DEF Entries

\* An insertion moves what follows by one.
LEMMA InsertEntries ==
  ASSUME NEW s, NEW n \in Nat, Entries(s, n), NEW a \in 1..(n + 1), NEW x
  PROVE  /\ Entries(InsertAt(s, a, x), n + 1)
         /\ \A j \in 1..(n + 1) :
              InsertAt(s, a, x)[j] = IF j < a THEN s[j] ELSE IF j = a THEN x ELSE s[j - 1]
<1> DEFINE f == SubSeq(s, 1, a - 1)
           g == SubSeq(s, a, Len(s))
           h == f \o <<x>>
           u == h \o g
<1>1. n \in Nat /\ Len(s) = n
  BY EntriesSeq
<1>2. Entries(f, a - 1) /\ \A j \in 1..(a - 1) : f[j] = s[j]
  <2>1. 1 \in 1..(n + 1) /\ a - 1 \in 0..n /\ 1 <= (a - 1) + 1
        /\ (a - 1) - 1 + 1 = a - 1 /\ \A j \in 1..(a - 1) : 1 + j - 1 = j
    BY <1>1
  <2> QED BY <2>1, SubSeqEntries
<1>3. Entries(g, n - a + 1) /\ \A j \in 1..(n - a + 1) : g[j] = s[a + j - 1]
  <2>1. n \in 0..n /\ a <= n + 1
    BY <1>1
  <2> QED BY <1>1, <2>1, SubSeqEntries
<1> HIDE DEF f, g
<1>4. Entries(<<x>>, 1) /\ <<x>>[1] = x
  BY OneEntry
<1>5. /\ Entries(h, (a - 1) + 1) /\ \A j \in 1..(a - 1) : h[j] = f[j]
      /\ \A j \in 1..1 : h[(a - 1) + j] = <<x>>[j]
  <2> DEFINE r == a - 1
  <2>1. Entries(f, r) /\ r \in Nat /\ 1 \in Nat
    BY <1>2
  <2> HIDE DEF r
  <2>2. Concatenates(f \o <<x>>, f, r, <<x>>, 1)
    BY <1>4, <2>1, ConcatEntries
  <2> QED BY <2>2 DEF r, Concatenates
<1> HIDE DEF h
<1>6. Entries(h, a) /\ h[a] = x /\ \A j \in 1..(a - 1) : h[j] = s[j]
  <2>1. (a - 1) + 1 = a
    BY <1>1
  <2> QED BY <1>2, <1>4, <1>5, <2>1
<1>7. /\ Entries(u, a + (n - a + 1)) /\ \A j \in 1..a : u[j] = h[j]
      /\ \A j \in 1..(n - a + 1) : u[a + j] = g[j]
  <2> DEFINE r == n - a + 1
  <2>1. Entries(g, r) /\ r \in Nat /\ a \in Nat
    BY <1>1, <1>3
  <2> HIDE DEF r
  <2>2. Concatenates(h \o g, h, a, g, r)
    BY <1>6, <2>1, ConcatEntries
  <2> QED BY <2>2 DEF r, Concatenates
<1> HIDE DEF u
<1>8. Entries(u, n + 1)
  <2>1. a + (n - a + 1) = n + 1
    BY <1>1
  <2> QED BY <1>7, <2>1
<1>9. ASSUME NEW j \in 1..(n + 1)
      PROVE  u[j] = IF j < a THEN s[j] ELSE IF j = a THEN x ELSE s[j - 1]
  <2>1. CASE j <= a
    BY <1>1, <1>6, <1>7, <2>1
  <2>2. CASE j > a
    <3>1. j - a \in 1..(n - a + 1) /\ a + (j - a) = j /\ a + (j - a) - 1 = j - 1
      BY <1>1, <2>2
    <3>2. u[j] = g[j - a] /\ g[j - a] = s[j - 1]
      BY <1>3, <1>7, <3>1
    <3> QED BY <1>1, <2>2, <3>2
  <2> QED BY <1>1, <2>1, <2>2
<1>10. InsertAt(s, a, x) = u
  BY DEF InsertAt, u, h, f, g
<1> QED BY <1>8, <1>9, <1>10

-----------------------------------------------------------------------------
(* Instructions. *)

\* An instruction as it is decoded, resolved, and rewritten.
Sound(i) ==
  /\ i.op \in Fixed \cup Switches \cup Branches
  /\ i.wide \in BOOLEAN /\ (i.wide => WideHandled(i))
  /\ i.dests \in Seq(Int)
  /\ i.op \in Fixed => Len(i.dests) = 0 /\ i.numBytes = ExtraSz(i)
  /\ i.op \in Branches => Len(i.dests) = 1
  /\ i.op \in Switches => Len(i.dests) > 0

\* The operands of an instruction that is neither a switch nor a branch
\* take at most four bytes.
LEMMA ExtraSzType ==
  ASSUME NEW i, i.op \in Fixed, i.wide \in BOOLEAN
  PROVE  ExtraSz(i) \in 0..4
BY DEF ExtraSz, Fixed

\* Every instruction takes at least one byte, wherever it is put.
LEMMA SoundLen ==
  ASSUME NEW i, Sound(i), NEW pc \in Int
  PROVE  ExportLen(i, pc) \in Nat /\ ExportLen(i, pc) >= 1
<1>1. Opcode(i) \in 1..2
  BY DEF Opcode
<1>2. CASE i.op \in Switches
  <2>1. Padding(pc) \in 0..3
    BY DEF Padding
  <2>2. Len(i.dests) \in Nat /\ Len(i.dests) > 0
    BY <1>2, LenProperties DEF Sound
  <2>3. TableSz(i) \in Nat
    BY <2>2 DEF TableSz
  <2>4. i.op \notin Branches
    BY <1>2 DEF Branches, Switches
  <2> QED BY <1>1, <1>2, <2>1, <2>3, <2>4 DEF ExportLen
<1>3. CASE i.op \in Branches
  <2>1. i.op \notin Switches
    BY <1>3 DEF Branches, Switches
  <2>2. BranchSz(i) \in Nat
    BY DEF BranchSz
  <2> QED BY <1>1, <1>3, <2>1, <2>2 DEF ExportLen
<1>4. CASE i.op \in Fixed
  <2>1. i.op \notin Switches /\ i.op \notin Branches
    BY <1>4 DEF Branches, Switches, Fixed
  <2>2. i.numBytes \in 0..4
    BY <1>4, ExtraSzType DEF Sound
  <2> QED BY <1>1, <2>1, <2>2 DEF ExportLen
<1> QED BY <1>2, <1>3, <1>4 DEF Sound

-----------------------------------------------------------------------------
(* The order of the instructions in well-formed code. *)

Count(code) == Cardinality(DOMAIN code.at)
Places(code) == DOMAIN code.at \cup {code.len}
Behind(code, a) == a + ExportLen(Parsed(code.at[a], a), a)

\* What bbPrvDisasm makes of an instruction has the targets that are meant,
\* each an instruction.
LEMMA ParsedSound ==
  ASSUME NEW code, WellFormed(code), NEW a \in DOMAIN code.at
  PROVE  /\ Sound(Parsed(code.at[a], a))
         /\ Len(Parsed(code.at[a], a).dests) = Len(code.at[a].dests)
         /\ \A j \in 1..Len(code.at[a].dests) :
              /\ Parsed(code.at[a], a).dests[j] = a + code.at[a].dests[j]
              /\ a + code.at[a].dests[j] \in DOMAIN code.at
<1> DEFINE i == code.at[a]
           p == Parsed(i, a)
<1>1. /\ i.op \in Fixed \cup Switches \cup Branches
      /\ i.wide \in BOOLEAN /\ (i.wide => WideHandled(i))
      /\ i.dests \in Seq(Int)
      /\ i.op \in Fixed => Len(i.dests) = 0
      /\ i.op \in Branches => Len(i.dests) = 1
      /\ i.op \in Switches => Len(i.dests) > 0
      /\ \A j \in DOMAIN i.dests : a + i.dests[j] \in DOMAIN code.at
      /\ a \in Int
  BY DEF WellFormed
<1>2. /\ p.op = i.op /\ p.wide = i.wide
      /\ p.numBytes = IF i.op \in Switches \cup Branches THEN 0 ELSE ExtraSz(i)
      /\ p.dests = [j \in DOMAIN i.dests |-> a + i.dests[j]]
  BY DEF Parsed
<1>3. Len(i.dests) \in Nat /\ DOMAIN i.dests = 1..Len(i.dests)
      /\ \A j \in 1..Len(i.dests) : i.dests[j] \in Int
  BY <1>1, LenProperties, ElementOfSeq
<1> HIDE DEF i, p
<1>4. p.dests \in Seq(Int) /\ Len(p.dests) = Len(i.dests)
  <2>1. p.dests \in [1..Len(i.dests) -> Int]
    BY <1>1, <1>2, <1>3
  <2> QED BY <1>3, <2>1, IsSeq
<1>5. i.op \in Fixed => i.op \notin Switches \cup Branches
  BY DEF Fixed, Switches, Branches
<1>6. ExtraSz(p) = ExtraSz(i) /\ WideHandled(p) = WideHandled(i)
  BY <1>2 DEF ExtraSz, WideHandled
<1>7. Sound(p)
  BY <1>1, <1>2, <1>4, <1>5, <1>6 DEF Sound
<1> QED BY <1>1, <1>2, <1>3, <1>4, <1>7 DEF i, p
\* How many instructions are before an address.
Before(code, a) == {b \in DOMAIN code.at : b < a}

\* Instructions are numbered 1, 2, 3, ... in the order of their addresses, and
\* the end of the code has the number after the last.
LEMMA NumberFacts ==
  ASSUME NEW code, WellFormed(code)
  PROVE  /\ IsFiniteSet(DOMAIN code.at) /\ Count(code) \in Nat
         /\ \A a \in Int : Number(code, a) \in 1..(Count(code) + 1)
         /\ \A a \in DOMAIN code.at : \A b \in Int : a < b => Number(code, a) < Number(code, b)
         /\ Number(code, 0) = 1 /\ Number(code, code.len) = Count(code) + 1
<1> DEFINE D == DOMAIN code.at
<1>1. D \subseteq 0..(code.len - 1) /\ code.len \in Nat /\ 0 \in D
  BY DEF WellFormed
<1>2. IsFiniteSet(D)
  <2>1. IsFiniteSet(0..(code.len - 1))
    <3>1. 0 \in Int /\ code.len - 1 \in Int
      BY <1>1
    <3> HIDE DEF D
    <3> QED BY <3>1, FS_Interval
  <2> HIDE DEF D
  <2> QED BY <1>1, <2>1, FS_Subset
<1>3. \A a : Before(code, a) \subseteq D
  BY DEF Before
<1>4. \A a : IsFiniteSet(Before(code, a)) /\ Cardinality(Before(code, a)) \in Nat
             /\ Cardinality(Before(code, a)) <= Cardinality(D)
  BY <1>2, <1>3, FS_Subset, FS_CardinalityType
<1>5. \A a : Number(code, a) = Cardinality(Before(code, a)) + 1
  BY DEF Number, Before
<1>6. Cardinality(D) \in Nat
  BY <1>2, FS_CardinalityType
<1>7. ASSUME NEW a \in D, NEW b \in Int, a < b PROVE Number(code, a) < Number(code, b)
  <2>1. Before(code, a) \subseteq Before(code, b)
    BY <1>1, <1>7 DEF Before
  <2>2. a \in Before(code, b) /\ a \notin Before(code, a)
    BY <1>1, <1>7 DEF Before
  <2>3. Cardinality(Before(code, a)) # Cardinality(Before(code, b))
        /\ Cardinality(Before(code, a)) <= Cardinality(Before(code, b))
    BY <1>4, <2>1, <2>2, FS_Subset
  <2> QED BY <1>4, <1>5, <2>3
<1>8. Number(code, 0) = 1
  <2>1. Before(code, 0) = {}
    BY <1>1 DEF Before
  <2> QED BY <1>5, <2>1, FS_EmptySet
<1>9. Number(code, code.len) = Count(code) + 1
  <2>1. Before(code, code.len) = D
    BY <1>1 DEF Before
  <2> QED BY <1>5, <2>1 DEF Count
<1>10. \A a : Number(code, a) \in 1..(Count(code) + 1)
  BY <1>4, <1>5, <1>6 DEF Count
<1> QED BY <1>2, <1>6, <1>7, <1>8, <1>9, <1>10 DEF Count

\* The instruction behind another has the next number.
LEMMA BehindFacts ==
  ASSUME NEW code, WellFormed(code), NEW a \in DOMAIN code.at
  PROVE  /\ Behind(code, a) \in Places(code) /\ Behind(code, a) \in Int /\ a < Behind(code, a)
         /\ Number(code, Behind(code, a)) = Number(code, a) + 1
<1> DEFINE D == DOMAIN code.at
           next == Behind(code, a)
<1>1. D \subseteq 0..(code.len - 1) /\ code.len \in Nat
  BY DEF WellFormed
<1>2. next \in D \cup {code.len} /\ \A b \in D : b <= a \/ b >= next
  BY DEF WellFormed, Behind
<1>3. a \in Int /\ next \in Int /\ a < next
  <2>1. a \in Int
    BY <1>1
  <2>2. ExportLen(Parsed(code.at[a], a), a) \in Nat /\ ExportLen(Parsed(code.at[a], a), a) >= 1
    BY <2>1, ParsedSound, SoundLen
  <2> QED BY <2>1, <2>2 DEF Behind
<1> HIDE DEF next
<1>4. Before(code, next) = Before(code, a) \cup {a}
  BY <1>1, <1>2, <1>3 DEF Before
<1>5. a \notin Before(code, a)
  BY <1>3 DEF Before
<1>6. IsFiniteSet(Before(code, a))
  <2>1. IsFiniteSet(D) /\ Before(code, a) \subseteq D
    BY NumberFacts DEF Before
  <2> QED BY <2>1, FS_Subset
<1>7. Cardinality(Before(code, next)) = Cardinality(Before(code, a)) + 1
  BY <1>4, <1>5, <1>6, FS_AddElement
<1> QED BY <1>2, <1>3, <1>7 DEF next, Number, Before, Places

\* The addresses in their order.
LEMMA AddressFacts ==
  ASSUME NEW code, WellFormed(code)
  PROVE  /\ \A n \in 1..(Count(code) + 1) :
              Address(code, n) \in Places(code) /\ Number(code, Address(code, n)) = n
         /\ \A a \in Places(code) : Address(code, Number(code, a)) = a
         /\ \A n \in 1..Count(code) : Address(code, n) \in DOMAIN code.at
                /\ Address(code, n + 1) = Behind(code, Address(code, n))
         /\ Address(code, 1) = 0 /\ Address(code, Count(code) + 1) = code.len
         /\ \A a \in DOMAIN code.at : Number(code, a) \in 1..Count(code)
         /\ Places(code) \subseteq Nat
<1> DEFINE D == DOMAIN code.at
           N == Count(code)
<1>1. D \subseteq 0..(code.len - 1) /\ code.len \in Nat /\ 0 \in D
  BY DEF WellFormed
<1>2. /\ N \in Nat /\ \A a \in Int : Number(code, a) \in 1..(N + 1)
      /\ \A a \in D : \A b \in Int : a < b => Number(code, a) < Number(code, b)
      /\ Number(code, 0) = 1 /\ Number(code, code.len) = N + 1
  BY NumberFacts
<1>3. Places(code) \subseteq Nat /\ \A a \in Places(code) : a \in D \/ a = code.len
  BY <1>1 DEF Places
<1>4. \A a \in D : a < code.len /\ Number(code, a) \in 1..N
  <2> SUFFICES ASSUME NEW a \in D PROVE a < code.len /\ Number(code, a) \in 1..N
    OBVIOUS
  <2>1. a \in Int /\ a < code.len
    BY <1>1
  <2>2. Number(code, a) < N + 1
    BY <1>1, <1>2, <2>1
  <2> QED BY <1>2, <2>1, <2>2
<1>5. \A a, b \in Places(code) : Number(code, a) = Number(code, b) => a = b
  <2> SUFFICES ASSUME NEW a \in Places(code), NEW b \in Places(code),
                      Number(code, a) = Number(code, b), a < b \/ b < a
               PROVE  FALSE
    BY <1>3
  <2>1. a \in Int /\ b \in Int
    BY <1>3
  <2>2. ASSUME a < b PROVE FALSE
    <3>1. a \in D
      BY <1>1, <1>3, <1>4, <2>1, <2>2
    <3>2. Number(code, a) < Number(code, b)
      BY <1>2, <2>1, <2>2, <3>1
    <3> QED BY <1>2, <2>1, <3>2
  <2>3. ASSUME b < a PROVE FALSE
    <3>1. b \in D
      BY <1>1, <1>3, <1>4, <2>1, <2>3
    <3>2. Number(code, b) < Number(code, a)
      BY <1>2, <2>1, <2>3, <3>1
    <3> QED BY <1>2, <2>1, <3>2
  <2> QED BY <2>2, <2>3
<1> DEFINE P == {n \in Nat : n <= N => \E a \in Places(code) : Number(code, a) = n + 1}
<1>6. Nat \subseteq P
  <2>1. 0 \in P
    BY <1>1, <1>2 DEF Places
  <2>2. ASSUME NEW n \in Nat, n \in P PROVE n + 1 \in P
    <3> SUFFICES ASSUME n + 1 <= N PROVE \E a \in Places(code) : Number(code, a) = n + 1 + 1
      OBVIOUS
    <3>1. PICK a \in Places(code) : Number(code, a) = n + 1
      BY <1>2, <2>2
    <3>2. a \in D
      BY <1>2, <1>3, <3>1
    <3>3. Behind(code, a) \in Places(code) /\ Number(code, Behind(code, a)) = n + 1 + 1
      BY <3>1, <3>2, BehindFacts
    <3> QED BY <3>3
  <2> HIDE DEF P
  <2> QED BY <2>1, <2>2, SetInduction
<1>7. \A n \in 1..(N + 1) : Address(code, n) \in Places(code) /\ Number(code, Address(code, n)) = n
  <2> SUFFICES ASSUME NEW n \in 1..(N + 1)
               PROVE  Address(code, n) \in Places(code) /\ Number(code, Address(code, n)) = n
    OBVIOUS
  <2>1. n - 1 \in Nat /\ n - 1 <= N /\ n - 1 + 1 = n
    BY <1>2
  <2>2. \E a \in Places(code) : Number(code, a) = n
    BY <1>6, <2>1
  <2> QED BY <2>2 DEF Address, Places
<1>8. \A a \in Places(code) : Address(code, Number(code, a)) = a
  <2> SUFFICES ASSUME NEW a \in Places(code) PROVE Address(code, Number(code, a)) = a
    OBVIOUS
  <2>1. Number(code, a) \in 1..(N + 1)
    BY <1>2, <1>3
  <2>2. Address(code, Number(code, a)) \in Places(code)
        /\ Number(code, Address(code, Number(code, a))) = Number(code, a)
    BY <1>7, <2>1
  <2> QED BY <1>5, <2>2
<1>9. ASSUME NEW n \in 1..N
      PROVE  Address(code, n) \in D /\ Address(code, n + 1) = Behind(code, Address(code, n))
  <2>1. n \in 1..(N + 1)
    BY <1>2
  <2>2. Address(code, n) \in Places(code) /\ Number(code, Address(code, n)) = n
    BY <1>7, <2>1
  <2>3. Address(code, n) \in D
    BY <1>2, <1>3, <2>2
  <2>4. Behind(code, Address(code, n)) \in Places(code)
        /\ Number(code, Behind(code, Address(code, n))) = n + 1
    BY <2>2, <2>3, BehindFacts
  <2> QED BY <1>8, <2>3, <2>4
<1>10. Address(code, 1) = 0 /\ Address(code, N + 1) = code.len
  <2>1. 0 \in Places(code) /\ code.len \in Places(code)
    BY <1>1 DEF Places
  <2> QED BY <1>2, <1>8, <2>1
<1> QED BY <1>3, <1>4, <1>7, <1>8, <1>9, <1>10
-----------------------------------------------------------------------------
(* Reading the code. *)

\* The n-th instruction as it is decoded.
Decoded(code, n) == Parsed(code.at[Address(code, n)], Address(code, n))

\* bbPrvDisasm meets an instruction at its address, and garbage elsewhere.
LEMMA DecodeFacts ==
  ASSUME WellFormed(gCode), NEW a
  PROVE  /\ a \in DOMAIN gCode.at => Decode(a) = Parsed(gCode.at[a], a) /\ Decode(a) # Garbage
         /\ a \notin DOMAIN gCode.at => Decode(a) = Garbage
<1>1. CASE a \in DOMAIN gCode.at
  <2>1. gCode.at[a].wide => WideHandled(gCode.at[a])
    BY <1>1 DEF WellFormed
  <2>2. Decode(a) = Parsed(gCode.at[a], a)
    BY <1>1, <2>1 DEF Decode
  <2>3. Parsed(gCode.at[a], a).op \in Fixed \cup Switches \cup Branches
    BY <1>1, ParsedSound DEF Sound
  <2>4. Garbage.op \notin Fixed \cup Switches \cup Branches
    BY DEF Garbage, Fixed, Switches, Branches
  <2> QED BY <1>1, <2>2, <2>3, <2>4
<1>2. CASE a \notin DOMAIN gCode.at
  BY <1>2 DEF Decode
<1> QED BY <1>1, <1>2

\* The addresses grow with the numbers.
LEMMA AddressOrder ==
  ASSUME NEW code, WellFormed(code), NEW p \in 1..(Count(code) + 1), NEW q \in 1..(Count(code) + 1)
  PROVE  p < q <=> Address(code, p) < Address(code, q)
<1> DEFINE a == Address(code, p)
           b == Address(code, q)
<1>1. a \in Places(code) /\ b \in Places(code) /\ Number(code, a) = p /\ Number(code, b) = q
      /\ a \in Nat /\ b \in Nat
  BY AddressFacts
<1>2. code.len \in Nat /\ \A x \in DOMAIN code.at : x < code.len
  BY DEF WellFormed
<1> HIDE DEF a, b
<1>3. a \in DOMAIN code.at \/ a = code.len
  BY <1>1 DEF Places
<1>4. b \in DOMAIN code.at \/ b = code.len
  BY <1>1 DEF Places
<1>5. a < b => p < q
  <2> SUFFICES ASSUME a < b PROVE p < q
    OBVIOUS
  <2>1. a \in DOMAIN code.at
    BY <1>1, <1>2, <1>3, <1>4
  <2> QED BY <1>1, <2>1, NumberFacts
<1>6. b < a => q < p
  <2> SUFFICES ASSUME b < a PROVE q < p
    OBVIOUS
  <2>1. b \in DOMAIN code.at
    BY <1>1, <1>2, <1>3, <1>4
  <2> QED BY <1>1, <2>1, NumberFacts
<1>7. Count(code) \in Nat
  BY NumberFacts
<1> QED BY <1>1, <1>5, <1>6, <1>7 DEF a, b

\* The instructions from the p-th to the one before the q-th.
Slice(code, p, q) == [n \in 1..(q - p) |-> Decoded(code, p + n - 1)]

\* The instructions from number p up to q, one by one.
LEMMA SliceEntries ==
  ASSUME NEW code, NEW p \in Int, NEW q \in Int, p <= q
  PROVE  /\ Entries(Slice(code, p, q), q - p)
         /\ \A n \in 1..(q - p) : Slice(code, p, q)[n] = Decoded(code, p + n - 1)
BY DEF Entries, Slice

\* The instruction before a slice makes it longer by one at its front.
LEMMA SliceExtends ==
  ASSUME NEW code, NEW p \in Int, NEW q \in Int, p < q
  PROVE  <<Decoded(code, p)>> \o Slice(code, p + 1, q) = Slice(code, p, q)
<1> DEFINE x == Decoded(code, p)
           t == Slice(code, p + 1, q)
           l == q - (p + 1)
           u == <<x>> \o t
           w == Slice(code, p, q)
<1>1. Entries(t, l) /\ l \in Nat /\ \A n \in 1..l : t[n] = Decoded(code, p + 1 + n - 1)
  BY SliceEntries
<1>2. Entries(w, l + 1) /\ \A n \in 1..(l + 1) : w[n] = Decoded(code, p + n - 1)
  <2>1. l + 1 = q - p
    OBVIOUS
  <2> HIDE DEF l
  <2> QED BY <2>1, SliceEntries
<1> HIDE DEF t, l, w
<1>3. Entries(<<x>>, 1) /\ <<x>>[1] = x
  BY OneEntry
<1>4. Concatenates(u, <<x>>, 1, t, l)
  BY <1>1, <1>3, ConcatEntries
<1> HIDE DEF u
<1>5. Entries(u, l + 1)
  <2>1. 1 + l = l + 1
    BY <1>1
  <2> QED BY <1>4, <2>1 DEF Concatenates
<1>6. ASSUME NEW j \in 1..(l + 1) PROVE u[j] = w[j]
  <2>1. CASE j = 1
    <3>1. u[1] = x
      BY <1>3, <1>4 DEF Concatenates
    <3>2. w[1] = Decoded(code, p)
      <4>1. p + 1 - 1 = p /\ 1 \in 1..(l + 1)
        BY <1>1
      <4> QED BY <1>2, <4>1
    <3> QED BY <2>1, <3>1, <3>2
  <2>2. CASE j # 1
    <3>1. j - 1 \in 1..l /\ 1 + (j - 1) = j /\ p + 1 + (j - 1) - 1 = p + j - 1
      BY <1>1, <2>2
    <3>2. u[j] = t[j - 1]
      BY <1>4, <3>1 DEF Concatenates
    <3> QED BY <1>1, <1>2, <3>1, <3>2
  <2> QED BY <2>1, <2>2
<1>7. u = w
  <2>1. l + 1 \in Nat
    BY <1>1
  <2> QED BY <1>2, <1>5, <1>6, <2>1, SameEntries
<1> QED BY <1>7 DEF u, w, t, x

\* Disassembling from one instruction to another gives those in between.
LEMMA DisasmFacts ==
  ASSUME WellFormed(gCode), NEW p \in 1..(Count(gCode) + 1), NEW q \in 1..(Count(gCode) + 1), p <= q,
         NEW len, len = Address(gCode, q) - Address(gCode, p)
  PROVE  Disasm(Address(gCode, p), len) = Slice(gCode, p, q)
<1> DEFINE N == Count(gCode)
           A(n) == Address(gCode, n)
           pos == A(p)
           F(pc, f) == IF pc >= pos + len THEN <<>>
                       ELSE IF Decode(pc) = Garbage \/ pc + ExportLen(Decode(pc), pc) > gCode.len
                            THEN <<Garbage>>
                            ELSE <<Decode(pc)>> \o f[pc + ExportLen(Decode(pc), pc)]
           from == CHOOSE f : f = [pc \in 0..gCode.len |-> F(pc, f)]
           W == [pc \in 0..gCode.len |->
                   IF pc >= A(q) THEN <<>>
                   ELSE IF pc \in DOMAIN gCode.at THEN Slice(gCode, Number(gCode, pc), q)
                   ELSE <<Garbage>>]
<1>1. /\ N \in Nat /\ gCode.len \in Nat
      /\ \A n \in 1..(N + 1) : A(n) \in 0..gCode.len /\ Number(gCode, A(n)) = n
      /\ \A n \in 1..N : A(n) \in DOMAIN gCode.at /\ A(n + 1) = Behind(gCode, A(n))
      /\ \A a \in DOMAIN gCode.at : Number(gCode, a) \in 1..N /\ A(Number(gCode, a)) = a
      /\ \A a \in DOMAIN gCode.at : a \in Nat
      /\ A(N + 1) = gCode.len
  <2>1. N \in Nat
    BY NumberFacts
  <2>2. gCode.len \in Nat /\ DOMAIN gCode.at \subseteq 0..(gCode.len - 1)
    BY DEF WellFormed
  <2>3. Places(gCode) \subseteq 0..gCode.len /\ DOMAIN gCode.at \subseteq Places(gCode)
    BY <2>2 DEF Places
  <2> QED BY <2>1, <2>2, <2>3, AddressFacts
<1>2. pos + len = A(q)
  BY <1>1
<1>3. \A a \in DOMAIN gCode.at :
        /\ Decode(a) = Decoded(gCode, Number(gCode, a)) /\ Decode(a) # Garbage
        /\ a + ExportLen(Decode(a), a) = A(Number(gCode, a) + 1)
        /\ ~(a + ExportLen(Decode(a), a) > gCode.len)
  <2> SUFFICES ASSUME NEW a \in DOMAIN gCode.at
               PROVE  /\ Decode(a) = Decoded(gCode, Number(gCode, a)) /\ Decode(a) # Garbage
                      /\ a + ExportLen(Decode(a), a) = A(Number(gCode, a) + 1)
                      /\ ~(a + ExportLen(Decode(a), a) > gCode.len)
    OBVIOUS
  <2>1. Decode(a) = Parsed(gCode.at[a], a) /\ Decode(a) # Garbage
    BY DecodeFacts
  <2>2. Number(gCode, a) \in 1..N /\ A(Number(gCode, a)) = a
    BY <1>1
  <2>3. a + ExportLen(Decode(a), a) = A(Number(gCode, a) + 1)
    BY <1>1, <2>1, <2>2 DEF Behind
  <2>4. Number(gCode, a) + 1 \in 1..(N + 1)
    BY <1>1, <2>2
  <2>5. A(Number(gCode, a) + 1) \in 0..gCode.len
    BY <1>1, <2>4
  <2> HIDE DEF A
  <2>6. Decode(a) = Decoded(gCode, Number(gCode, a))
    BY <2>1, <2>2 DEF Decoded, A
  <2> QED BY <1>1, <2>1, <2>3, <2>5, <2>6
<1>4. \A a \in 0..gCode.len : a \notin DOMAIN gCode.at => Decode(a) = Garbage
  BY DecodeFacts
<1>5. \A x, y \in 1..(N + 1) : x < y <=> A(x) < A(y)
  BY AddressOrder
<1>14. A(q) \in Int
  BY <1>1
<1>15. ASSUME NEW f, NEW a \in 0..gCode.len
      PROVE  /\ a >= A(q) => F(a, f) = <<>>
             /\ a < A(q) /\ a \notin DOMAIN gCode.at => F(a, f) = <<Garbage>>
             /\ a < A(q) /\ a \in DOMAIN gCode.at
                  => F(a, f) = <<Decoded(gCode, Number(gCode, a))>> \o f[A(Number(gCode, a) + 1)]
  <2>1. a \in Int
    BY <1>1
  <2>2. a >= pos + len <=> a >= A(q)
    BY <1>2
  <2>3. CASE a >= A(q)
    BY <1>14, <2>1, <2>2, <2>3
  <2>4. CASE a < A(q) /\ a \notin DOMAIN gCode.at
    BY <1>14, <1>4, <2>1, <2>2, <2>4
  <2>5. CASE a < A(q) /\ a \in DOMAIN gCode.at
    <3>1. /\ Decode(a) = Decoded(gCode, Number(gCode, a)) /\ Decode(a) # Garbage
          /\ a + ExportLen(Decode(a), a) = A(Number(gCode, a) + 1)
          /\ ~(a + ExportLen(Decode(a), a) > gCode.len)
      BY <1>3, <2>5
    <3>2. ~(a >= pos + len)
      BY <1>14, <2>1, <2>2, <2>5
    <3>3. F(a, f) = <<Decode(a)>> \o f[a + ExportLen(Decode(a), a)]
      BY <3>1, <3>2
    <3> HIDE DEF F, A
    <3> QED BY <1>14, <2>1, <2>5, <3>1, <3>3
  <2> QED BY <1>14, <2>1, <2>3, <2>4, <2>5
<1>6. W = [pc \in 0..gCode.len |-> F(pc, W)]
  <2> SUFFICES ASSUME NEW pc \in 0..gCode.len PROVE W[pc] = F(pc, W)
    OBVIOUS
  <2>1. CASE pc >= A(q)
    BY <1>15, <2>1
  <2>2. CASE pc < A(q) /\ pc \notin DOMAIN gCode.at
    <3> HIDE DEF F
    <3> QED BY <1>1, <1>14, <1>15, <2>2
  <2>3. CASE pc < A(q) /\ pc \in DOMAIN gCode.at
    <3> DEFINE n == Number(gCode, pc)
    <3>1. n \in 1..N /\ A(n) = pc
      BY <1>1, <2>3
    <3>2. n < q
      BY <1>1, <1>5, <2>3, <3>1
    <3>3. W[pc] = Slice(gCode, n, q)
      BY <1>1, <2>3
    <3>4. F(pc, W) = <<Decoded(gCode, n)>> \o W[A(n + 1)]
      <4> HIDE DEF F, W, A
      <4> QED BY <1>15, <2>3
    <3>5. W[A(n + 1)] = Slice(gCode, n + 1, q)
      <4>1. n + 1 \in 1..(N + 1) /\ n + 1 <= q
        BY <1>1, <3>1, <3>2
      <4>2. A(n + 1) \in 0..gCode.len /\ Number(gCode, A(n + 1)) = n + 1
        BY <1>1, <4>1
      <4>3. CASE A(n + 1) >= A(q)
        <5>1. n + 1 = q
          <6>1. n + 1 < q => A(n + 1) < A(q)
            BY <1>5, <4>1
          <6>2. n + 1 \in Nat /\ q \in Nat
            BY <1>1, <4>1
          <6> HIDE DEF n, W, F, A
          <6> QED BY <1>14, <4>1, <4>2, <4>3, <6>1, <6>2
        <5>2. Slice(gCode, q, q) = <<>>
          BY DEF Slice
        <5> QED BY <4>2, <4>3, <5>1, <5>2
      <4>4. CASE A(n + 1) < A(q)
        <5>1. n + 1 # q
          BY <1>1, <4>4
        <5>2. n + 1 \in 1..N
          BY <1>1, <4>1, <5>1
        <5>3. A(n + 1) \in DOMAIN gCode.at
          BY <1>1, <5>2
        <5> QED BY <1>1, <4>2, <4>4, <5>3
      <4> QED BY <1>1, <4>2, <4>3, <4>4
    <3> HIDE DEF n, W, F, A
    <3>6. n \in Int /\ q \in Int
      BY <3>1, <3>2, <1>1
    <3> QED BY <3>2, <3>3, <3>4, <3>5, <3>6, SliceExtends
  <2> QED BY <1>1, <2>1, <2>2, <2>3
<1>7. from = [pc \in 0..gCode.len |-> F(pc, from)]
  <2> HIDE DEF W, F
  <2> QED BY <1>6
<1>8. \A pc \in 0..gCode.len : from[pc] = F(pc, from)
  <2> HIDE DEF from, F
  <2> QED BY <1>7
<1>9. pos \in DOMAIN from
  <2>1. pos \in 0..gCode.len
    BY <1>1
  <2> HIDE DEF from, F, pos
  <2>2. DOMAIN from = 0..gCode.len
    BY <1>7
  <2> QED BY <2>1, <2>2
<1>10. Disasm(pos, len) = from[pos]
  <2>1. Disasm(pos, len) = IF pos \in DOMAIN from THEN from[pos] ELSE <<>>
    BY DEF Disasm
  <2> HIDE DEF from, pos
  <2> QED BY <1>9, <2>1
<1> HIDE DEF from
<1> DEFINE T == {d \in Nat : d <= q - 1 => from[A(q - d)] = Slice(gCode, q - d, q)}
<1>11. 0 \in T
  <2>1. q - 0 = q /\ A(q) \in 0..gCode.len
    BY <1>1
  <2>2. from[A(q)] = <<>>
    <3> HIDE DEF F, A
    <3>1. A(q) >= A(q)
      BY <1>14
    <3>2. F(A(q), from) = <<>>
      BY <1>15, <2>1, <3>1
    <3> QED BY <1>8, <2>1, <3>2
  <2>3. Slice(gCode, q, q) = <<>>
    BY DEF Slice
  <2> QED BY <2>1, <2>2, <2>3
<1>12. ASSUME NEW d \in Nat, d \in T PROVE d + 1 \in T
  <2> SUFFICES ASSUME d + 1 <= q - 1 PROVE from[A(q - (d + 1))] = Slice(gCode, q - (d + 1), q)
    OBVIOUS
  <2> DEFINE n == q - (d + 1)
  <2>1. n \in 1..N /\ n < q /\ n + 1 = q - d /\ n \in 1..(N + 1)
    BY <1>1
  <2>2. from[A(n + 1)] = Slice(gCode, n + 1, q)
    BY <1>12, <2>1
  <2> HIDE DEF n
  <2>3. A(n) \in DOMAIN gCode.at /\ Number(gCode, A(n)) = n /\ A(n) \in 0..gCode.len /\ A(n) < A(q)
    BY <1>1, <1>5, <2>1
  <2>4. F(A(n), from) = <<Decoded(gCode, n)>> \o from[A(n + 1)]
    <3> HIDE DEF F, A
    <3> QED BY <1>15, <2>3
  <2>5. from[A(n)] = Slice(gCode, n, q)
    <3>1. from[A(n)] = F(A(n), from)
      <4> HIDE DEF A, F
      <4> QED BY <1>8, <2>3
    <3>2. <<Decoded(gCode, n)>> \o Slice(gCode, n + 1, q) = Slice(gCode, n, q)
      BY <2>1, SliceExtends
    <3> HIDE DEF A, F
    <3> QED BY <2>2, <2>4, <3>1, <3>2
  <2> QED BY <2>5 DEF n
<1>13. from[A(p)] = Slice(gCode, p, q)
  <2>1. Nat \subseteq T
    <3> HIDE DEF T
    <3> QED BY <1>11, <1>12, SetInduction
  <2>2. q - p \in Nat /\ q - p <= q - 1 /\ q - (q - p) = p
    BY <1>1
  <2> QED BY <2>1, <2>2
<1> QED BY <1>10, <1>13
-----------------------------------------------------------------------------
(* Placing instructions. *)

\* Each is behind the one before it.
PlacedAt(s, n, g) ==
  /\ g \in [1..(n + 1) -> Int]
  /\ \A j \in 1..n : g[j + 1] = g[j] + ExportLen(s[j], g[j])

\* A sequence of addresses in which each is its predecessor and the length
\* of the instruction there is what Place computes.
LEMMA PlaceIs ==
  ASSUME NEW n \in Nat, NEW s, Entries(s, n), NEW g, PlacedAt(s, n, g)
  PROVE  Place(s, g[1]) = g /\ End(s, g[1]) = g[n + 1]
<1> DEFINE pc == g[1]
           F(j, f) == IF j = 1 THEN pc
                      ELSE LET before == f[j - 1] IN before + ExportLen(s[j - 1], before)
           at == CHOOSE f : f = [j \in 1..(n + 1) |-> F(j, f)]
<1>1. Len(s) = n /\ n + 1 \in Nat
  BY EntriesSeq
<1>2. g = [j \in 1..(n + 1) |-> F(j, g)]
  <2>1. g = [j \in 1..(n + 1) |-> g[j]]
    BY DEF PlacedAt
  <2>2. ASSUME NEW j \in 1..(n + 1) PROVE g[j] = F(j, g)
    <3>1. CASE j = 1
      BY <3>1
    <3>2. CASE j # 1
      <4>1. j - 1 \in 1..n /\ (j - 1) + 1 = j
        BY <3>2
      <4>2. g[j] = g[j - 1] + ExportLen(s[j - 1], g[j - 1])
        BY <4>1 DEF PlacedAt
      <4> QED BY <3>2, <4>2
    <3> QED BY <3>1, <3>2
  <2> HIDE DEF F
  <2> QED BY <2>1, <2>2
<1>3. Place(s, pc) = at
  BY <1>1 DEF Place
<1>4. at = [j \in 1..(n + 1) |-> F(j, at)]
  <2> HIDE DEF F
  <2> QED BY <1>2
<1>5. \A j \in 1..(n + 1) : at[j] = F(j, at)
  <2> HIDE DEF F, at
  <2> QED BY <1>4
<1> HIDE DEF at
<1> DEFINE P == {j \in Nat : j <= n => at[j + 1] = g[j + 1]}
<1>6. 0 \in P
  <2>1. 1 \in 1..(n + 1)
    OBVIOUS
  <2>2. at[1] = g[1]
    BY <1>5, <2>1
  <2> QED BY <2>2
<1>7. ASSUME NEW j \in Nat, j \in P PROVE j + 1 \in P
  <2> SUFFICES ASSUME j + 1 <= n PROVE at[j + 1 + 1] = g[j + 1 + 1]
    OBVIOUS
  <2>1. j + 1 + 1 \in 1..(n + 1) /\ j + 1 + 1 # 1 /\ (j + 1 + 1) - 1 = j + 1 /\ j + 1 \in 1..n
    OBVIOUS
  <2>2. at[j + 1] = g[j + 1]
    BY <1>7
  <2>3. at[j + 1 + 1] = at[j + 1] + ExportLen(s[j + 1], at[j + 1])
    BY <1>5, <2>1
  <2>4. g[j + 1 + 1] = g[j + 1] + ExportLen(s[j + 1], g[j + 1])
    BY <2>1 DEF PlacedAt
  <2> QED BY <2>2, <2>3, <2>4
<1>8. at = g
  <2>1. Nat \subseteq P
    <3> HIDE DEF P
    <3> QED BY <1>6, <1>7, SetInduction
  <2>2. ASSUME NEW j \in 1..(n + 1) PROVE at[j] = g[j]
    <3>1. j - 1 \in Nat /\ j - 1 <= n /\ (j - 1) + 1 = j
      OBVIOUS
    <3> QED BY <2>1, <3>1
  <2>3. g = [j \in 1..(n + 1) |-> g[j]] /\ at = [j \in 1..(n + 1) |-> at[j]]
    <3> HIDE DEF F
    <3> QED BY <1>4 DEF PlacedAt
  <2> QED BY <2>2, <2>3
<1> QED BY <1>1, <1>3, <1>8 DEF End

\* Place computes such a sequence for every sequence of instructions.
LEMMA PlaceExists ==
  ASSUME NEW n \in Nat, NEW s, Entries(s, n), \A j \in 1..n : Sound(s[j]), NEW pc \in Nat
  PROVE  /\ PlacedAt(s, n, Place(s, pc)) /\ Place(s, pc)[1] = pc
         /\ End(s, pc) = Place(s, pc)[n + 1]
         /\ \A j \in 1..(n + 1) : Place(s, pc)[j] \in Nat
<1> DEFINE p == [j \in 1..n |-> j - 1]
           H == [j \in 1..n |-> [x \in Nat |-> x + ExportLen(s[j], x)]]
<1>1. FromOneBelow(n, Nat, pc, p, H)
  <2>1. ASSUME NEW j \in 1..n, NEW x \in Nat PROVE x + ExportLen(s[j], x) \in Nat
    BY SoundLen
  <2> QED BY <2>1 DEF FromOneBelow
<1>2. \A j \in 1..n : p[j] = j - 1 /\ \A x \in Nat : H[j][x] = x + ExportLen(s[j], x)
  OBVIOUS
<1> HIDE DEF p, H
<1>3. PICK f : f \in [0..n -> Nat] /\ StepsOf(f, n, pc, p, H)
  BY <1>1, StepFunction
<1> DEFINE g == [j \in 1..(n + 1) |-> f[j - 1]]
<1>4. g \in [1..(n + 1) -> Nat]
  BY <1>3
<1>5. g[1] = pc
  BY <1>3 DEF StepsOf
<1>6. ASSUME NEW j \in 1..n PROVE g[j + 1] = g[j] + ExportLen(s[j], g[j])
  <2>1. g[j + 1] = f[j] /\ g[j] = f[j - 1] /\ f[j - 1] \in Nat /\ j \in 0..n /\ j # 0
    BY <1>3
  <2>2. f[j] = H[j][f[p[j]]]
    BY <1>3, <2>1 DEF StepsOf
  <2> QED BY <1>2, <2>1, <2>2
<1> HIDE DEF g
<1>7. PlacedAt(s, n, g)
  BY <1>4, <1>6 DEF PlacedAt
<1>8. Place(s, pc) = g /\ End(s, pc) = g[n + 1]
  BY <1>5, <1>7, PlaceIs
<1> QED BY <1>4, <1>5, <1>7, <1>8

\* Decoded instructions are where they were.
LEMMA PlaceSlice ==
  ASSUME NEW code, WellFormed(code), NEW p \in 1..(Count(code) + 1), NEW q \in 1..(Count(code) + 1),
         p <= q
  PROVE  /\ Place(Slice(code, p, q), Address(code, p))
               = [j \in 1..(q - p + 1) |-> Address(code, p + j - 1)]
         /\ \A j \in 1..(q - p) : Sound(Slice(code, p, q)[j])
<1> DEFINE n == q - p
           s == Slice(code, p, q)
           g == [j \in 1..(n + 1) |-> Address(code, p + j - 1)]
<1>1. n \in Nat /\ Count(code) \in Nat /\ p \in Int /\ q \in Int
  BY NumberFacts
<1>2. Entries(s, n) /\ \A j \in 1..n : s[j] = Decoded(code, p + j - 1)
  BY <1>1, SliceEntries
<1>3. ASSUME NEW j \in 1..(n + 1) PROVE Address(code, p + j - 1) \in Int
  <2>1. p + j - 1 \in 1..(Count(code) + 1)
    BY <1>1
  <2> QED BY <2>1, AddressFacts
<1>4. ASSUME NEW j \in 1..n
      PROVE  g[j + 1] = g[j] + ExportLen(s[j], g[j]) /\ Sound(s[j])
  <2> DEFINE i == p + j - 1
  <2>1. i \in 1..Count(code) /\ p + (j + 1) - 1 = i + 1
    BY <1>1
  <2>2. g[j] = Address(code, i) /\ g[j + 1] = Address(code, i + 1)
    BY <1>1, <2>1
  <2>3. s[j] = Decoded(code, i)
    BY <1>2
  <2> HIDE DEF i, s, g
  <2>4. Address(code, i) \in DOMAIN code.at /\ Address(code, i + 1) = Behind(code, Address(code, i))
    BY <2>1, AddressFacts
  <2> QED BY <2>2, <2>3, <2>4, ParsedSound DEF Behind, Decoded
<1>5. g \in [1..(n + 1) -> Int]
  BY <1>3
<1>6. g[1] = Address(code, p)
  BY <1>1
<1>7. PlacedAt(s, n, g)
  <2> HIDE DEF n, s, g
  <2> QED BY <1>4, <1>5 DEF PlacedAt
<1>8. Place(s, g[1]) = g
  <2> HIDE DEF n, s, g
  <2> QED BY <1>1, <1>2, <1>7, PlaceIs
<1> QED BY <1>4, <1>6, <1>8
-----------------------------------------------------------------------------
(* The sequences that are made from those of the blocks. *)

\* The concatenation of sequences has the elements of each.
LEMMA FlattenFacts ==
  ASSUME NEW T, NEW n \in Nat, NEW ss, Entries(ss, n), \A j \in 1..n : ss[j] \in Seq(T)
  PROVE  /\ FlattenSeq(ss) \in Seq(T)
         /\ \A j \in 1..n : Range(ss[j]) \subseteq Range(FlattenSeq(ss))
<1>1. Len(ss) = n /\ DOMAIN ss = 1..n
  BY EntriesSeq
<1>2. CASE n = 0
  <2>1. FlattenSeq(ss) = ss
    BY <1>1, <1>2 DEF FlattenSeq
  <2>2. ss \in Seq(T)
    <3>1. {ss[j] : j \in 1..n} \subseteq T
      BY <1>2
    <3> QED BY <3>1, EntriesSeq
  <2> QED BY <1>2, <2>1, <2>2
<1>3. CASE n # 0
  <2> DEFINE S == Seq(T)
             p == [j \in 1..n |-> j - 1]
             H == [j \in 1..n |-> [x \in S |-> x \o ss[j]]]
             F(j, f) == IF j = 1 THEN ss[j] ELSE f[j - 1] \o ss[j]
             flat == CHOOSE f : f = [j \in 1..n |-> F(j, f)]
  <2>1. FromOneBelow(n, S, <<>>, p, H)
    <3>1. ASSUME NEW j \in 1..n, NEW x \in S PROVE x \o ss[j] \in S
      BY ConcatProperties
    <3>2. <<>> \in S
      OBVIOUS
    <3> HIDE DEF S
    <3> QED BY <3>1, <3>2 DEF FromOneBelow
  <2>2. \A j \in 1..n : p[j] = j - 1 /\ \A x \in S : H[j][x] = x \o ss[j]
    OBVIOUS
  <2> HIDE DEF p, H, S
  <2>3. PICK f : f \in [0..n -> S] /\ StepsOf(f, n, <<>>, p, H)
    BY <2>1, StepFunction
  <2>4. f[0] = <<>> /\ \A j \in 1..n : f[j] = f[j - 1] \o ss[j] /\ f[j] \in S /\ f[j - 1] \in S
    <3>1. f[0] = <<>>
      BY <2>3 DEF StepsOf
    <3>2. ASSUME NEW j \in 1..n PROVE f[j] = f[j - 1] \o ss[j] /\ f[j] \in S /\ f[j - 1] \in S
      <4>1. j \in 0..n /\ j # 0 /\ j - 1 \in 0..n
        OBVIOUS
      <4>2. f[j] = H[j][f[p[j]]]
        BY <2>3, <4>1 DEF StepsOf
      <4> QED BY <2>2, <2>3, <4>1, <4>2
    <3> QED BY <3>1, <3>2
  <2> DEFINE g == [j \in 1..n |-> f[j]]
  <2>5. g = [j \in 1..n |-> F(j, g)]
    <3> SUFFICES ASSUME NEW j \in 1..n PROVE g[j] = F(j, g)
      OBVIOUS
    <3>1. CASE j = 1
      <4>1. f[1] = <<>> \o ss[1]
        <5>1. 1 \in 1..n /\ 1 - 1 = 0
          BY <3>1
        <5>2. f[1] = f[1 - 1] \o ss[1]
          BY <2>4, <5>1
        <5> QED BY <2>4, <5>1, <5>2
      <4>2. <<>> \o ss[1] = ss[1]
        <5>1. ss[1] \in Seq(T)
          BY <3>1
        <5> QED BY <5>1, ConcatEmptySeq
      <4> QED BY <3>1, <4>1, <4>2
    <3>2. CASE j # 1
      <4>1. j - 1 \in 1..n
        BY <3>2
      <4> QED BY <2>4, <3>2, <4>1
    <3> QED BY <3>1, <3>2
  <2>6. flat = [j \in 1..n |-> F(j, flat)]
    <3> HIDE DEF F
    <3> QED BY <2>5
  <2>7. FlattenSeq(ss) = flat[n]
    BY <1>1, <1>3 DEF FlattenSeq
  <2>8. \A j \in 1..n : flat[j] = F(j, flat)
    <3> HIDE DEF F, flat
    <3> QED BY <2>6
  <2> HIDE DEF flat
  <2> DEFINE P == {j \in Nat : j + 1 <= n =>
                     /\ flat[j + 1] \in Seq(T)
                     /\ \A l \in 1..(j + 1) : Range(ss[l]) \subseteq Range(flat[j + 1])}
  <2>9. 0 \in P
    <3>1. 1 \in 1..n /\ flat[1] = ss[1]
      BY <1>3, <2>8
    <3>2. \A l \in 1..(0 + 1) : l = 1
      OBVIOUS
    <3> QED BY <3>1, <3>2
  <2>10. ASSUME NEW j \in Nat, j \in P PROVE j + 1 \in P
    <3> SUFFICES ASSUME j + 1 + 1 <= n
                 PROVE  /\ flat[j + 1 + 1] \in Seq(T)
                        /\ \A l \in 1..(j + 1 + 1) : Range(ss[l]) \subseteq Range(flat[j + 1 + 1])
      OBVIOUS
    <3> DEFINE a == flat[j + 1]
               b == ss[j + 1 + 1]
               u == flat[j + 1 + 1]
    <3>1. a \in Seq(T) /\ \A l \in 1..(j + 1) : Range(ss[l]) \subseteq Range(a)
      BY <2>10
    <3>2. b \in Seq(T)
      OBVIOUS
    <3>3. u = a \o b
      <4>1. j + 1 + 1 \in 1..n /\ j + 1 + 1 # 1 /\ (j + 1 + 1) - 1 = j + 1
        OBVIOUS
      <4> QED BY <2>8, <4>1
    <3> HIDE DEF a, b, u
    <3>4. u \in Seq(T) /\ Range(u) = Range(a) \cup Range(b)
      BY <3>1, <3>2, <3>3, ConcatProperties, RangeConcatenation
    <3>5. ASSUME NEW l \in 1..(j + 1 + 1) PROVE Range(ss[l]) \subseteq Range(u)
      <4>1. CASE l = j + 1 + 1
        BY <3>4, <4>1 DEF b
      <4>2. CASE l # j + 1 + 1
        <5>1. l \in 1..(j + 1)
          BY <4>2
        <5> QED BY <3>1, <3>4, <5>1
      <4> QED BY <4>1, <4>2
    <3> QED BY <3>4, <3>5 DEF u
  <2>11. n - 1 \in P
    <3>1. n - 1 \in Nat
      BY <1>3
    <3> HIDE DEF P
    <3> QED BY <2>9, <2>10, <3>1, SetInduction
  <2> QED BY <1>3, <2>7, <2>11
<1> QED BY <1>2, <1>3

\* Whatever order bbPrvRun queues the targets of an instruction in, it
\* queues all and no other.
LEMMA TargetsFacts ==
  ASSUME NEW i, Sound(i), NEW T, \A j \in 1..Len(i.dests) : i.dests[j] \in T
  PROVE  Targets(i) \in Seq(T) /\ Range(i.dests) \subseteq Range(Targets(i))
<1> DEFINE ds == i.dests
<1>1. ds \in Seq(Int) /\ Len(ds) \in Nat /\ ds \in [1..Len(ds) -> Int]
  BY LenProperties DEF Sound
<1>2. ds \in [1..Len(ds) -> T]
  BY <1>1
<1>3. ds \in Seq(T)
  BY <1>1, <1>2, IsSeq
<1>4. CASE i.op \notin Switches
  BY <1>3, <1>4 DEF Targets
<1>5. CASE i.op \in Switches
  <2> DEFINE a == <<Last(ds)>>
             b == Front(ds)
             u == a \o b
  <2>1. Len(ds) > 0
    BY <1>5 DEF Sound
  <2>2. a \in Seq(T) /\ Len(a) = 1 /\ a[1] = ds[Len(ds)]
    BY <1>1, <1>2, <2>1 DEF Last
  <2>3. b \in Seq(T) /\ Len(b) = Len(ds) - 1 /\ \A j \in 1..(Len(ds) - 1) : b[j] = ds[j]
    BY <1>1, <1>2, <2>1 DEF Front
  <2>4. Targets(i) = u
    BY <1>5 DEF Targets
  <2> HIDE DEF a, b, ds
  <2>5. u \in Seq(T) /\ Range(u) = Range(a) \cup Range(b)
    BY <2>2, <2>3, ConcatProperties, RangeConcatenation
  <2>6. ASSUME NEW j \in 1..Len(ds) PROVE ds[j] \in Range(a) \cup Range(b)
    <3>1. DOMAIN a = 1..1 /\ DOMAIN b = 1..(Len(ds) - 1)
      BY <2>2, <2>3, LenProperties
    <3>2. CASE j = Len(ds)
      BY <2>2, <3>1, <3>2 DEF Range
    <3>3. CASE j # Len(ds)
      <4> DEFINE l == Len(ds)
      <4>1. l \in Nat /\ j \in 1..l /\ j # l
        BY <1>1, <3>3
      <4> HIDE DEF l
      <4>2. j \in 1..(l - 1)
        BY <4>1
      <4> QED BY <2>3, <3>1, <4>2 DEF Range, l
    <3> QED BY <3>2, <3>3
  <2>7. Range(ds) = {ds[j] : j \in 1..Len(ds)}
    BY <1>1 DEF Range
  <2> QED BY <2>4, <2>5, <2>6, <2>7 DEF ds
<1> QED BY <1>4, <1>5
-----------------------------------------------------------------------------
(* The list of blocks. *)

\* The block from the p-th instruction to the q-th; an empty one is for the end.
CutBlock(code, p, q) ==
  [initialAddr |-> IF p = q THEN code.len ELSE Address(code, p),
   initialLen |-> Address(code, q) - Address(code, p),
   instrs |-> Slice(code, p, q)]

\* The address, length and instructions of a block.
LEMMA CutBlockFields ==
  ASSUME NEW code, NEW p, NEW q
  PROVE  /\ CutBlock(code, p, q).initialAddr = IF p = q THEN code.len ELSE Address(code, p)
         /\ CutBlock(code, p, q).initialLen = Address(code, q) - Address(code, p)
         /\ CutBlock(code, p, q).instrs = Slice(code, p, q)
BY DEF CutBlock

\* The numbers of the first instructions of l blocks; empty ones are in front.
Cuts(code, l, f) ==
  /\ l \in Nat \ {0} /\ f \in [1..(l + 1) -> 1..(Count(code) + 1)]
  /\ f[1] = 1 /\ f[l + 1] = Count(code) + 1
  /\ \A j \in 1..l : f[j] <= f[j + 1] /\ (f[j] = f[j + 1] => f[j] = 1)

BlocksCut(code, bs, l, f) ==
  /\ Cuts(code, l, f) /\ Entries(bs, l)
  /\ \A j \in 1..l : bs[j] = CutBlock(code, f[j], f[j + 1])

\* FirstOf is the least element, and 0 when there is none.
LEMMA FirstOfFacts ==
  ASSUME NEW S, S \subseteq Nat \ {0}
  PROVE  IF S = {} THEN FirstOf(S) = 0 ELSE FirstOf(S) \in S /\ \A x \in S : FirstOf(S) <= x
<1>1. CASE S = {}
  BY <1>1 DEF FirstOf
<1>2. CASE S # {}
  <2>1. S \in SUBSET Nat
    OBVIOUS
  <2>2. \E x \in S : \A y \in S : x <= y
    BY <1>2, <2>1, LeastNat
  <2> QED BY <1>2, <2>2 DEF FirstOf, Min
<1> QED BY <1>1, <1>2

\* Each instruction is in a block.
LEMMA CutsCover ==
  ASSUME NEW code, WellFormed(code), NEW l, NEW f, Cuts(code, l, f), NEW n \in 1..Count(code)
  PROVE  \E j \in 1..l : f[j] <= n /\ n < f[j + 1]
<1> USE DEF Cuts
<1> DEFINE P == {j \in Nat : j <= l => f[j + 1] <= n \/ \E i \in 1..l : f[i] <= n /\ n < f[i + 1]}
<1>0. Count(code) \in Nat
  BY NumberFacts
<1>1. 0 \in P
  OBVIOUS
<1>2. ASSUME NEW j \in Nat, j \in P PROVE j + 1 \in P
  <2>1. SUFFICES ASSUME j + 1 <= l, ~(f[j + 1 + 1] <= n) PROVE \E i \in 1..l : f[i] <= n /\ n < f[i + 1]
    OBVIOUS
  <2>2. j + 1 \in 1..l /\ j + 1 + 1 \in 1..(l + 1)
    BY <2>1
  <2>3. f[j + 1 + 1] \in Int
    BY <1>0, <2>2
  <2> QED BY <1>2, <2>1, <2>2, <2>3
<1>3. l \in P
  <2>1. Nat \subseteq P
    <3> HIDE DEF P
    <3> QED BY <1>1, <1>2, SetInduction
  <2> QED BY <2>1
<1> QED BY <1>0, <1>3

\* What is disassembled from an instruction up to another are the
\* instructions between them.
LEMMA BlockIs ==
  ASSUME WellFormed(gCode), NEW p \in 1..(Count(gCode) + 1), NEW q \in 1..(Count(gCode) + 1), p < q,
         NEW pos, pos = Address(gCode, p), NEW len, len = Address(gCode, q) - Address(gCode, p)
  PROVE  Block(pos, len) = CutBlock(gCode, p, q)
<1>1. p # q /\ p <= q
  BY NumberFacts
<1>2. Disasm(Address(gCode, p), len) = Slice(gCode, p, q)
  BY <1>1, DisasmFacts
<1> QED BY <1>1, <1>2 DEF Block, CutBlock

\* The block for the end of the code.
LEMMA EmptyBlockIs ==
  ASSUME WellFormed(gCode)
  PROVE  Block(gCode.len, gCode.len - gCode.len) = CutBlock(gCode, 1, 1)
<1> DEFINE N == Count(gCode)
<1>1. N \in Nat /\ Address(gCode, N + 1) = gCode.len /\ gCode.len \in Nat /\ Address(gCode, 1) = 0
  BY NumberFacts, AddressFacts DEF WellFormed
<1>2. Disasm(Address(gCode, N + 1), gCode.len - gCode.len) = Slice(gCode, N + 1, N + 1)
  <2>1. N + 1 \in 1..(N + 1) /\ N + 1 <= N + 1
        /\ gCode.len - gCode.len = Address(gCode, N + 1) - Address(gCode, N + 1)
    BY <1>1
  <2> QED BY <2>1, DisasmFacts
<1>3. Slice(gCode, N + 1, N + 1) = Slice(gCode, 1, 1)
  BY <1>1 DEF Slice
<1> QED BY <1>1, <1>2, <1>3 DEF Block, CutBlock

\* Which block has an address, and which ones come after it.
LEMMA ContainingFacts ==
  ASSUME WellFormed(gCode), NEW l, NEW f, BlocksCut(gCode, bbList, l, f), NEW a \in Places(gCode)
  PROVE  /\ a = gCode.len => Containing(a) = 0 /\ NextOne(a) = 0
         /\ a # gCode.len => /\ Containing(a) \in 1..l
                             /\ f[Containing(a)] <= Number(gCode, a)
                             /\ Number(gCode, a) < f[Containing(a) + 1]
<1> DEFINE N == Count(gCode)
           A(n) == Address(gCode, n)
           S == {j \in DOMAIN bbList : /\ bbList[j].initialAddr <= a
                                       /\ bbList[j].initialAddr + bbList[j].initialLen > a}
           T == {j \in DOMAIN bbList : bbList[j].initialAddr > a}
<1>1. /\ N \in Nat /\ gCode.len \in Nat
      /\ \A n \in 1..(N + 1) : A(n) \in Nat /\ A(n) <= gCode.len
      /\ A(N + 1) = gCode.len
      /\ a \in Nat
  <2>1. N \in Nat
    BY NumberFacts
  <2>2. gCode.len \in Nat /\ DOMAIN gCode.at \subseteq 0..(gCode.len - 1)
    BY DEF WellFormed
  <2>3. \A x \in Places(gCode) : x \in Nat /\ x <= gCode.len
    BY <2>2 DEF Places
  <2> QED BY <2>1, <2>2, <2>3, AddressFacts
<1>2. l \in Nat \ {0} /\ DOMAIN bbList = 1..l
  BY EntriesSeq DEF BlocksCut, Cuts
<1>3. \A j \in 1..l : /\ f[j] \in 1..(N + 1) /\ f[j + 1] \in 1..(N + 1) /\ f[j] <= f[j + 1]
  BY <1>1 DEF BlocksCut, Cuts
<1>4. \A j \in 1..l : /\ bbList[j].initialAddr = IF f[j] = f[j + 1] THEN gCode.len ELSE A(f[j])
                      /\ bbList[j].initialLen = A(f[j + 1]) - A(f[j])
  <2>1. \A j \in 1..l : bbList[j] = CutBlock(gCode, f[j], f[j + 1])
    BY DEF BlocksCut
  <2> QED BY <2>1, CutBlockFields
<1>5. S \subseteq Nat \ {0} /\ T \subseteq Nat \ {0}
  BY <1>2
<1>6. ASSUME NEW j \in 1..l
      PROVE  /\ bbList[j].initialAddr \in Nat /\ bbList[j].initialAddr <= gCode.len
             /\ bbList[j].initialAddr + bbList[j].initialLen \in Nat
             /\ bbList[j].initialAddr + bbList[j].initialLen <= gCode.len
  <2>1. /\ A(f[j]) \in Nat /\ A(f[j + 1]) \in Nat
        /\ A(f[j]) <= gCode.len /\ A(f[j + 1]) <= gCode.len
    BY <1>1, <1>3
  <2> HIDE DEF A
  <2> QED BY <1>1, <1>4, <2>1
<1>7. CASE a = gCode.len
  <2>1. S = {} /\ T = {}
    BY <1>1, <1>2, <1>6, <1>7
  <2>2. Containing(a) = 0 /\ NextOne(a) = 0
    BY <2>1 DEF Containing, NextOne, FirstOf
  <2> QED BY <1>7, <2>2
<1>8. CASE a # gCode.len
  <2> DEFINE n == Number(gCode, a)
  <2>1. a \in DOMAIN gCode.at
    BY <1>8 DEF Places
  <2>2. n \in 1..N /\ A(n) = a
    BY <2>1, AddressFacts DEF Places
  <2>3. \A x, y \in 1..(N + 1) : x < y <=> A(x) < A(y)
    BY AddressOrder
  <2>4. PICK i \in 1..l : f[i] <= n /\ n < f[i + 1]
    BY <2>2, CutsCover DEF BlocksCut
  <2>5. \A j \in 1..l : j \in S <=> f[j] <= n /\ n < f[j + 1]
    <3> SUFFICES ASSUME NEW j \in 1..l PROVE j \in S <=> f[j] <= n /\ n < f[j + 1]
      OBVIOUS
    <3>1. n \in 1..(N + 1) /\ n \in Nat
      BY <1>1, <2>2
    <3>2. /\ A(f[j]) \in Nat /\ A(f[j + 1]) \in Nat /\ f[j] \in Nat /\ f[j + 1] \in Nat
      BY <1>1, <1>3
    <3>3. /\ n < f[j + 1] <=> a < A(f[j + 1])
          /\ n < f[j] <=> a < A(f[j])
      BY <1>3, <2>2, <2>3, <3>1
    <3>4. j \in S <=> bbList[j].initialAddr <= a /\ bbList[j].initialAddr + bbList[j].initialLen > a
      BY <1>2
    <3> HIDE DEF A, n, S
    <3>5. CASE f[j] = f[j + 1]
      <4>1. bbList[j].initialAddr = gCode.len
        BY <1>4, <3>5
      <4>2. gCode.len \in Nat /\ a \in 0..(gCode.len - 1)
        BY <2>1 DEF WellFormed
      <4>3. j \notin S
        BY <3>4, <4>1, <4>2
      <4>4. ~(f[j] <= n /\ n < f[j + 1])
        BY <3>1, <3>2, <3>5
      <4> QED BY <4>3, <4>4
    <3>6. CASE f[j] # f[j + 1]
      BY <1>1, <1>4, <3>1, <3>2, <3>3, <3>4, <3>6
    <3> QED BY <3>5, <3>6
  <2>6. FirstOf(S) \in S
    <3>1. S # {}
      BY <2>4, <2>5
    <3> HIDE DEF S
    <3> QED BY <1>5, <3>1, FirstOfFacts
  <2>7. Containing(a) = FirstOf(S)
    BY DEF Containing
  <2>8. FirstOf(S) \in 1..l
    BY <1>2, <2>6
  <2> HIDE DEF S, n
  <2> QED BY <1>8, <2>5, <2>6, <2>7, <2>8 DEF n
<1> QED BY <1>7, <1>8
\* One more block for the end.
FrontCuts(l, f) == [j \in 1..(l + 1 + 1) |-> IF j = 1 THEN 1 ELSE f[j - 1]]

\* The empty block for the end of the code goes in front of the others and
\* leaves them as they are.
LEMMA FrontInserted ==
  ASSUME NEW code, WellFormed(code), NEW bs, NEW l, NEW f, BlocksCut(code, bs, l, f)
  PROVE  BlocksCut(code, <<CutBlock(code, 1, 1)>> \o bs, l + 1, FrontCuts(l, f))
<1> DEFINE new == CutBlock(code, 1, 1)
           u == <<new>> \o bs
           g == FrontCuts(l, f)
           N == Count(code)
<1>1. l \in Nat \ {0} /\ Entries(bs, l) /\ N \in Nat
  BY NumberFacts DEF BlocksCut, Cuts
<1>2. /\ f \in [1..(l + 1) -> 1..(N + 1)] /\ f[1] = 1 /\ f[l + 1] = N + 1
      /\ \A j \in 1..l : f[j] <= f[j + 1] /\ (f[j] = f[j + 1] => f[j] = 1)
      /\ \A j \in 1..l : bs[j] = CutBlock(code, f[j], f[j + 1])
  BY DEF BlocksCut, Cuts
<1>3. Entries(<<new>>, 1) /\ <<new>>[1] = new
  BY OneEntry
<1>4. Concatenates(u, <<new>>, 1, bs, l)
  BY <1>1, <1>3, ConcatEntries
<1>5. Entries(u, l + 1)
  <2>1. 1 + l = l + 1
    BY <1>1
  <2> QED BY <1>4, <2>1 DEF Concatenates
<1>6. \A j \in 1..(l + 1 + 1) : g[j] = IF j = 1 THEN 1 ELSE f[j - 1]
  BY DEF FrontCuts
<1>7. g \in [1..(l + 1 + 1) -> 1..(N + 1)] /\ g[1] = 1 /\ g[l + 1 + 1] = N + 1
  BY <1>1, <1>2 DEF FrontCuts
<1> HIDE DEF g, u, new
<1>8. ASSUME NEW j \in 1..(l + 1)
      PROVE  /\ g[j] <= g[j + 1] /\ (g[j] = g[j + 1] => g[j] = 1)
             /\ u[j] = CutBlock(code, g[j], g[j + 1])
  <2>1. CASE j = 1
    <3>1. g[1] = 1 /\ g[1 + 1] = 1
      <4>1. 1 + 1 \in 1..(l + 1 + 1) /\ 1 + 1 # 1 /\ (1 + 1) - 1 = 1
        BY <1>1
      <4> QED BY <1>2, <1>6, <1>7, <4>1
    <3>2. u[1] = new
      BY <1>3, <1>4 DEF Concatenates
    <3> QED BY <2>1, <3>1, <3>2 DEF new
  <2>2. CASE j # 1
    <3> DEFINE i == j - 1
    <3>1. i \in 1..l /\ 1 + i = j
      BY <1>1, <2>2
    <3>2. g[j] = f[i] /\ g[j + 1] = f[i + 1]
      <4>1. j \in 1..(l + 1 + 1) /\ j + 1 \in 1..(l + 1 + 1) /\ j + 1 # 1 /\ (j + 1) - 1 = i + 1
        BY <1>1
      <4> QED BY <1>6, <2>2, <4>1
    <3> HIDE DEF i
    <3>3. u[j] = bs[i]
      <4>1. u[1 + i] = bs[i]
        BY <1>4, <3>1 DEF Concatenates
      <4> QED BY <3>1, <4>1
    <3> QED BY <1>2, <3>1, <3>2, <3>3
  <2> QED BY <2>1, <2>2
<1>9. Cuts(code, l + 1, g)
  <2>1. l + 1 \in Nat \ {0}
    BY <1>1
  <2> QED BY <1>7, <1>8, <2>1 DEF Cuts
<1> QED BY <1>5, <1>8, <1>9 DEF BlocksCut, g, u, new

\* A block that is cut in two before the n-th instruction.
MidCuts(l, f, i, n) ==
  [j \in 1..(l + 1 + 1) |-> IF j <= i THEN f[j] ELSE IF j = i + 1 THEN n ELSE f[j - 1]]

Halved(code, bs, f, i, n) ==
  InsertAt([bs EXCEPT ![i] = CutBlock(code, f[i], n)], i + 1, CutBlock(code, n, f[i + 1]))

\* A block cut at an instruction gives two blocks.
LEMMA BlockHalved ==
  ASSUME NEW code, WellFormed(code), NEW bs, NEW l, NEW f, BlocksCut(code, bs, l, f),
         NEW i \in 1..l, NEW n \in Nat, f[i] < n, n < f[i + 1]
  PROVE  /\ BlocksCut(code, Halved(code, bs, f, i, n), l + 1, MidCuts(l, f, i, n))
         /\ MidCuts(l, f, i, n)[i + 1] = n /\ MidCuts(l, f, i, n)[i + 1 + 1] = f[i + 1]
<1> DEFINE one == CutBlock(code, f[i], n)
           two == CutBlock(code, n, f[i + 1])
           cs == [bs EXCEPT ![i] = one]
           u == InsertAt(cs, i + 1, two)
           g == MidCuts(l, f, i, n)
           N == Count(code)
<1>1. l \in Nat \ {0} /\ Entries(bs, l) /\ N \in Nat
  BY NumberFacts DEF BlocksCut, Cuts
<1>2. /\ f \in [1..(l + 1) -> 1..(N + 1)] /\ f[1] = 1 /\ f[l + 1] = N + 1
      /\ \A j \in 1..l : f[j] <= f[j + 1] /\ (f[j] = f[j + 1] => f[j] = 1)
      /\ \A j \in 1..l : bs[j] = CutBlock(code, f[j], f[j + 1])
  BY DEF BlocksCut, Cuts
<1>3. Entries(cs, l) /\ \A j \in 1..l : cs[j] = IF j = i THEN one ELSE bs[j]
  BY <1>1 DEF Entries
<1> HIDE DEF cs
<1>4. /\ Entries(u, l + 1)
      /\ \A j \in 1..(l + 1) :
           u[j] = IF j < i + 1 THEN cs[j] ELSE IF j = i + 1 THEN two ELSE cs[j - 1]
  <2>1. l \in Nat /\ i + 1 \in 1..(l + 1)
    BY <1>1
  <2> QED BY <1>3, <2>1, InsertEntries
<1>5. \A j \in 1..(l + 1 + 1) : g[j] = IF j <= i THEN f[j] ELSE IF j = i + 1 THEN n ELSE f[j - 1]
  BY DEF MidCuts
<1>6. i \in Nat /\ i >= 1 /\ i <= l
  BY <1>1
<1>7. f[i] \in 1..(N + 1) /\ f[i + 1] \in 1..(N + 1) /\ n \in 1..(N + 1)
  BY <1>1, <1>2
<1> HIDE DEF g, u, one, two
<1>8. g \in [1..(l + 1 + 1) -> 1..(N + 1)]
  <2>1. ASSUME NEW j \in 1..(l + 1 + 1) PROVE g[j] \in 1..(N + 1)
    <3>1. CASE j <= i
      <4>1. j \in 1..(l + 1)
        BY <1>6, <3>1, <1>1
      <4> QED BY <1>2, <1>5, <3>1, <4>1
    <3>2. CASE j = i + 1
      BY <1>5, <1>6, <1>7, <3>2
    <3>3. CASE j > i + 1
      <4>1. j - 1 \in 1..(l + 1) /\ ~(j <= i) /\ j # i + 1
        BY <1>1, <1>6, <3>3
      <4> QED BY <1>2, <1>5, <4>1
    <3> QED BY <1>6, <3>1, <3>2, <3>3
  <2> QED BY <2>1 DEF g, MidCuts
<1>9. g[1] = 1 /\ g[l + 1 + 1] = N + 1 /\ g[i + 1] = n /\ g[i + 1 + 1] = f[i + 1] /\ g[i] = f[i]
  <2>1. 1 \in 1..(l + 1 + 1) /\ l + 1 + 1 \in 1..(l + 1 + 1) /\ i + 1 \in 1..(l + 1 + 1)
        /\ i + 1 + 1 \in 1..(l + 1 + 1) /\ i \in 1..(l + 1 + 1)
    BY <1>1, <1>6
  <2>2. 1 <= i /\ i <= i /\ ~(i + 1 <= i) /\ ~(i + 1 + 1 <= i) /\ i + 1 + 1 # i + 1
        /\ (i + 1 + 1) - 1 = i + 1 /\ ~(l + 1 + 1 <= i) /\ l + 1 + 1 # i + 1 /\ (l + 1 + 1) - 1 = l + 1
    BY <1>1, <1>6
  <2> QED BY <1>2, <1>5, <2>1, <2>2
<1>10. ASSUME NEW j \in 1..(l + 1)
       PROVE  /\ g[j] <= g[j + 1] /\ (g[j] = g[j + 1] => g[j] = 1)
              /\ u[j] = CutBlock(code, g[j], g[j + 1])
  <2>1. CASE j < i
    <3>1. j \in 1..l /\ j + 1 <= i /\ j < i + 1 /\ j # i /\ j <= i
          /\ j \in 1..(l + 1 + 1) /\ j + 1 \in 1..(l + 1 + 1)
      BY <1>1, <1>6, <2>1
    <3>2. g[j] = f[j] /\ g[j + 1] = f[j + 1]
      BY <1>5, <3>1
    <3>3. u[j] = bs[j]
      BY <1>3, <1>4, <3>1
    <3> QED BY <1>2, <3>1, <3>2, <3>3
  <2>2. CASE j = i
    <3>1. u[i] = one
      <4>1. i \in 1..(l + 1) /\ i < i + 1
        BY <1>1, <1>6
      <4> QED BY <1>3, <1>4, <4>1
    <3>2. g[i] <= g[i + 1] /\ g[i] # g[i + 1]
      BY <1>7, <1>9
    <3> QED BY <1>9, <2>2, <3>1, <3>2 DEF one
  <2>3. CASE j = i + 1
    <3>1. u[i + 1] = two
      <4>1. i + 1 \in 1..(l + 1) /\ ~(i + 1 < i + 1)
        BY <1>1, <1>6
      <4> QED BY <1>4, <4>1
    <3>2. g[i + 1] <= g[i + 1 + 1] /\ g[i + 1] # g[i + 1 + 1]
      BY <1>7, <1>9
    <3> QED BY <1>9, <2>3, <3>1, <3>2 DEF two
  <2>4. CASE j > i + 1
    <3> DEFINE h == j - 1
    <3>1. h \in 1..l /\ h # i /\ ~(j < i + 1) /\ j # i + 1 /\ ~(j <= i) /\ ~(j + 1 <= i) /\ j + 1 # i + 1
          /\ (j + 1) - 1 = h + 1 /\ j \in 1..(l + 1 + 1) /\ j + 1 \in 1..(l + 1 + 1)
      BY <1>1, <1>6, <2>4
    <3>2. g[j] = f[h] /\ g[j + 1] = f[h + 1]
      BY <1>5, <3>1
    <3>3. u[j] = bs[h]
      BY <1>3, <1>4, <3>1
    <3> HIDE DEF h
    <3> QED BY <1>2, <3>1, <3>2, <3>3
  <2> QED BY <1>6, <2>1, <2>2, <2>3, <2>4
<1>11. Cuts(code, l + 1, g)
  <2>1. l + 1 \in Nat \ {0}
    BY <1>1
  <2> QED BY <1>8, <1>9, <1>10, <2>1 DEF Cuts
<1> QED BY <1>4, <1>9, <1>10, <1>11 DEF BlocksCut, g, u, one, two, cs, Halved
-----------------------------------------------------------------------------
(* One address from the queue. *)

\* A block that is cut at an instruction keeps those before it.
Shortened(bb, len, x) == [bb EXCEPT !.initialLen = len, !.instrs = x]

\* A block that is cut keeps its address.
LEMMA CutRecord ==
  ASSUME NEW bb, NEW a, NEW b, NEW s, bb = [initialAddr |-> a, initialLen |-> b, instrs |-> s],
         NEW len, NEW x
  PROVE  Shortened(bb, len, x) = [initialAddr |-> a, initialLen |-> len, instrs |-> x]
<1> DEFINE cc == [bb EXCEPT !.initialLen = len]
<1>1. cc = [initialAddr |-> a, initialLen |-> len, instrs |-> s]
  OBVIOUS
<1> HIDE DEF cc
<1>2. [cc EXCEPT !.instrs = x] = [initialAddr |-> a, initialLen |-> len, instrs |-> x]
  BY <1>1
<1>3. Shortened(bb, len, x) = [cc EXCEPT !.instrs = x]
  BY DEF Shortened, cc
<1> QED BY <1>2, <1>3

\* What is left of a block of which the n-th instruction begins a new one.
CutsWell(code, p, q, n) ==
  LET bb == CutBlock(code, p, q)
      len == Address(code, n) - bb.initialAddr
  IN  /\ Kept(bb, len) = n - p
      /\ [bb EXCEPT !.initialLen = len, !.instrs = SubSeq(@, 1, Kept(bb, len))]
           = CutBlock(code, p, n)

\* bbTruncate and bbPrvDisasm divide a block where it is to be cut.
LEMMA CutFacts ==
  ASSUME NEW code, WellFormed(code), NEW p \in 1..(Count(code) + 1), NEW q \in 1..(Count(code) + 1),
         NEW n \in Nat, p < n, n < q
  PROVE  CutsWell(code, p, q, n)
<1> DEFINE bb == CutBlock(code, p, q)
           A(j) == Address(code, j)
           len == A(n) - bb.initialAddr
           s == Slice(code, p, q)
           S == {j \in 1..Len(s) : A(p + j) = A(n)}
<1>1. Count(code) \in Nat /\ p # q /\ p # n /\ n \in 1..(Count(code) + 1)
      /\ p \in Nat /\ q \in Nat
  BY NumberFacts
<1>2. bb.initialAddr = A(p) /\ bb.initialLen = A(q) - A(p) /\ bb.instrs = s
  BY <1>1, CutBlockFields
<1>3. /\ Entries(s, q - p) /\ Len(s) = q - p
      /\ \A j \in 1..(q - p) : s[j] = Decoded(code, p + j - 1)
  <2>1. p <= q
    BY <1>1
  <2>2. /\ Entries(s, q - p)
        /\ \A j \in 1..(q - p) : s[j] = Decoded(code, p + j - 1)
    BY <1>1, <2>1, SliceEntries
  <2> HIDE DEF s
  <2> QED BY <2>2, EntriesSeq
<1>4. \A j \in 1..(Count(code) + 1) : A(j) \in Nat /\ Number(code, A(j)) = j
  BY AddressFacts
<1>5. Place(bb.instrs, bb.initialAddr) = [j \in 1..(q - p + 1) |-> A(p + j - 1)]
  <2>1. p <= q
    BY <1>1
  <2> QED BY <1>2, <2>1, PlaceSlice
<1>6. \A j \in 1..(q - p) : Place(bb.instrs, bb.initialAddr)[j + 1] = A(p + j)
  <2> SUFFICES ASSUME NEW j \in 1..(q - p)
               PROVE  Place(bb.instrs, bb.initialAddr)[j + 1] = A(p + j)
    OBVIOUS
  <2>1. j + 1 \in 1..(q - p + 1) /\ p + (j + 1) - 1 = p + j
    BY <1>1
  <2> HIDE DEF A, bb
  <2> QED BY <1>5, <2>1
<1>7. S = {n - p}
  <2>1. n - p \in 1..(q - p) /\ p + (n - p) = n
    BY <1>1
  <2>2. \A j \in 1..(q - p) : A(p + j) = A(n) => j = n - p
    <3> SUFFICES ASSUME NEW j \in 1..(q - p), A(p + j) = A(n) PROVE j = n - p
      OBVIOUS
    <3>1. p + j \in 1..(Count(code) + 1)
      BY <1>1
    <3>2. p + j = n
      BY <1>1, <1>4, <3>1
    <3> QED BY <1>1, <3>2
  <2> HIDE DEF A, s
  <2> QED BY <1>3, <2>1, <2>2
<1>8. Kept(bb, len) = FirstOf(S)
  <2> DEFINE K == {j \in 1..Len(bb.instrs) :
                     Place(bb.instrs, bb.initialAddr)[j + 1] = bb.initialAddr + len}
  <2>1. Kept(bb, len) = FirstOf(K)
    BY DEF Kept
  <2>2. A(n) \in Nat /\ A(p) \in Nat
    BY <1>1, <1>4
  <2>3. bb.initialAddr + len = A(n)
    BY <1>2, <2>2
  <2> HIDE DEF A, bb, len, s
  <2>4. K = S
    BY <1>2, <1>3, <1>6, <2>3
  <2> HIDE DEF K, S
  <2> QED BY <2>1, <2>4
<1>9. FirstOf(S) = n - p
  <2>1. n - p \in Nat \ {0}
    BY <1>1
  <2> HIDE DEF S
  <2>2. S \subseteq Nat \ {0} /\ S # {}
    BY <1>7, <2>1
  <2> QED BY <1>7, <2>2, FirstOfFacts
<1>10. SubSeq(s, 1, n - p) = Slice(code, p, n)
  <2> DEFINE r == n - p
             t == SubSeq(s, 1, r)
             w == Slice(code, p, n)
  <2>1. r \in Nat /\ r <= q - p /\ q - p \in Nat /\ 1 \in 1..(q - p + 1) /\ r \in 0..(q - p) /\ 1 <= r + 1
    BY <1>1
  <2> HIDE DEF s, r
  <2>2. Entries(t, r - 1 + 1) /\ \A j \in 1..(r - 1 + 1) : t[j] = s[1 + j - 1]
    BY <1>3, <2>1, SubSeqEntries
  <2>3. Entries(w, r) /\ \A j \in 1..r : w[j] = Decoded(code, p + j - 1)
    <3>1. p <= n
      BY <1>1
    <3> QED BY <1>1, <3>1, SliceEntries DEF r
  <2>4. r - 1 + 1 = r /\ \A j \in 1..r : 1 + j - 1 = j /\ j \in 1..(q - p)
    BY <1>1, <2>1
  <2>5. Entries(t, r) /\ \A j \in 1..r : t[j] = Decoded(code, p + j - 1)
    BY <1>3, <2>2, <2>4
  <2> HIDE DEF t, w
  <2>6. t = w
    BY <2>1, <2>3, <2>5, SameEntries
  <2> QED BY <2>6 DEF t, w, r
<1>11. [bb EXCEPT !.initialLen = len, !.instrs = SubSeq(@, 1, Kept(bb, len))] = CutBlock(code, p, n)
  <2>1. bb = [initialAddr |-> A(p), initialLen |-> A(q) - A(p), instrs |-> s]
    BY <1>1 DEF CutBlock
  <2>2. CutBlock(code, p, n) = [initialAddr |-> A(p), initialLen |-> A(n) - A(p), instrs |-> Slice(code, p, n)]
    BY <1>1 DEF CutBlock
  <2>3. SubSeq(s, 1, Kept(bb, len)) = Slice(code, p, n)
    BY <1>8, <1>9, <1>10
  <2>4. len = A(n) - A(p)
    BY <1>2
  <2>5. bb.instrs = s
    BY <1>2
  <2>6. [bb EXCEPT !.initialLen = len, !.instrs = SubSeq(@, 1, Kept(bb, len))]
           = [initialAddr |-> A(p), initialLen |-> len, instrs |-> SubSeq(bb.instrs, 1, Kept(bb, len))]
    <3> DEFINE x == SubSeq(bb.instrs, 1, Kept(bb, len))
               a == A(p)
               b == A(q) - A(p)
    <3>1. bb = [initialAddr |-> a, initialLen |-> b, instrs |-> s]
      BY <2>1
    <3>2. [bb EXCEPT !.initialLen = len, !.instrs = SubSeq(@, 1, Kept(bb, len))] = Shortened(bb, len, x)
      <4> HIDE DEF bb, len
      <4> QED BY DEF Shortened
    <3> HIDE DEF x, bb, len, s, A, S, a, b
    <3>3. Shortened(bb, len, x) = [initialAddr |-> a, initialLen |-> len, instrs |-> x]
      BY <3>1, CutRecord
    <3> QED BY <3>2, <3>3 DEF x, a
  <2> HIDE DEF bb, len, s, A, S
  <2> QED BY <2>2, <2>3, <2>4, <2>5, <2>6
<1> QED BY <1>8, <1>9, <1>11 DEF CutsWell

Heads(bs) == {bs[j].initialAddr : j \in DOMAIN bs}

\* The empty block adds the end of the code to the starts of blocks.
LEMMA HeadsFront ==
  ASSUME NEW code, NEW bs, NEW l, NEW f, BlocksCut(code, bs, l, f)
  PROVE  Heads(bs) \cup {code.len} \subseteq Heads(<<CutBlock(code, 1, 1)>> \o bs)
<1> DEFINE new == CutBlock(code, 1, 1)
           u == <<new>> \o bs
<1>1. l \in Nat \ {0} /\ Entries(bs, l)
  BY DEF BlocksCut, Cuts
<1>2. Entries(<<new>>, 1) /\ <<new>>[1] = new
  BY OneEntry
<1>3. Concatenates(u, <<new>>, 1, bs, l)
  BY <1>1, <1>2, ConcatEntries
<1>4. new.initialAddr = code.len
  BY CutBlockFields
<1> HIDE DEF u, new
<1>5. DOMAIN bs = 1..l /\ DOMAIN u = 1..(1 + l)
  <2>1. 1 + l \in Nat /\ Entries(u, 1 + l)
    BY <1>1, <1>3 DEF Concatenates
  <2> QED BY <1>1, <2>1, EntriesSeq
<1>6. u[1] = new /\ 1 \in DOMAIN u
  BY <1>1, <1>2, <1>3, <1>5 DEF Concatenates
<1>7. \A j \in 1..l : u[1 + j] = bs[j] /\ 1 + j \in DOMAIN u
  BY <1>1, <1>3, <1>5 DEF Concatenates
<1>8. Heads(bs) \cup {code.len} \subseteq Heads(u)
  BY <1>4, <1>5, <1>6, <1>7 DEF Heads
<1> QED BY <1>8 DEF u, new

\* A cut adds the instruction it is made at to the starts of blocks.
LEMMA HeadsHalved ==
  ASSUME NEW code, WellFormed(code), NEW bs, NEW l, NEW f, BlocksCut(code, bs, l, f),
         NEW i \in 1..l, NEW n \in Nat, f[i] < n, n < f[i + 1]
  PROVE  Heads(bs) \cup {Address(code, n)} \subseteq Heads(Halved(code, bs, f, i, n))
<1> DEFINE one == CutBlock(code, f[i], n)
           two == CutBlock(code, n, f[i + 1])
           cs == [bs EXCEPT ![i] = one]
           u == InsertAt(cs, i + 1, two)
<1>1. l \in Nat \ {0} /\ Entries(bs, l) /\ i \in Nat /\ i >= 1 /\ i <= l
  BY DEF BlocksCut, Cuts
<1>2. /\ f[i] \in Nat /\ f[i + 1] \in Nat
      /\ \A j \in 1..l : bs[j] = CutBlock(code, f[j], f[j + 1])
  <2>1. Count(code) \in Nat
    BY NumberFacts
  <2> QED BY <1>1, <2>1 DEF BlocksCut, Cuts
<1>3. f[i] # n /\ n # f[i + 1] /\ f[i] # f[i + 1]
  BY <1>2
<1>4. Entries(cs, l) /\ \A j \in 1..l : cs[j] = IF j = i THEN one ELSE bs[j]
  BY <1>1 DEF Entries
<1> HIDE DEF cs
<1>5. /\ Entries(u, l + 1)
      /\ \A j \in 1..(l + 1) :
           u[j] = IF j < i + 1 THEN cs[j] ELSE IF j = i + 1 THEN two ELSE cs[j - 1]
  <2>1. l \in Nat /\ i + 1 \in 1..(l + 1)
    BY <1>1
  <2> QED BY <1>4, <2>1, InsertEntries
<1>6. /\ one.initialAddr = Address(code, f[i]) /\ two.initialAddr = Address(code, n)
      /\ bs[i].initialAddr = Address(code, f[i])
  BY <1>2, <1>3, CutBlockFields
<1> HIDE DEF one, two, u
<1>7. \A j \in 1..l : cs[j].initialAddr = bs[j].initialAddr
  BY <1>4, <1>6
<1>8. DOMAIN bs = 1..l /\ DOMAIN u = 1..(l + 1)
  <2>1. l + 1 \in Nat
    BY <1>1
  <2> QED BY <1>1, <1>5, <2>1, EntriesSeq
<1>9. u[i + 1] = two /\ i + 1 \in DOMAIN u
  <2>1. i + 1 \in 1..(l + 1) /\ ~(i + 1 < i + 1)
    BY <1>1
  <2> QED BY <1>5, <1>8, <2>1
<1>10. ASSUME NEW j \in 1..l PROVE bs[j].initialAddr \in Heads(u)
  <2>1. CASE j < i + 1
    <3>1. j \in 1..(l + 1)
      BY <1>1
    <3>2. u[j] = cs[j]
      BY <1>5, <2>1, <3>1
    <3> QED BY <1>7, <1>8, <3>1, <3>2 DEF Heads
  <2>2. CASE ~(j < i + 1)
    <3>1. j + 1 \in 1..(l + 1) /\ ~(j + 1 < i + 1) /\ j + 1 # i + 1 /\ (j + 1) - 1 = j
      BY <1>1, <2>2
    <3>2. u[j + 1] = cs[j]
      BY <1>5, <3>1
    <3> QED BY <1>7, <1>8, <3>1, <3>2 DEF Heads
  <2> QED BY <2>1, <2>2
<1>11. Heads(bs) \cup {Address(code, n)} \subseteq Heads(u)
  BY <1>6, <1>8, <1>9, <1>10 DEF Heads
<1> QED BY <1>11 DEF u, two, cs, one, Halved

\* What the instructions of a new block put into the queue.
Queued(s) == FlattenSeq([j \in DOMAIN s |-> Targets(s[j])])

\* What bbPrvRun queues for the instructions of a block are their targets.
LEMMA QueuedFacts ==
  ASSUME NEW code, WellFormed(code), NEW p \in 1..(Count(code) + 1), NEW q \in 1..(Count(code) + 1),
         p <= q
  PROVE  /\ Queued(Slice(code, p, q)) \in Seq(Places(code))
         /\ \A n \in 1..Count(code) :
              p <= n /\ n < q => Range(Decoded(code, n).dests) \subseteq Range(Queued(Slice(code, p, q)))
         /\ Garbage \notin Range(Slice(code, p, q))
<1> DEFINE s == Slice(code, p, q)
           l == q - p
           T == Places(code)
           ss == [j \in DOMAIN s |-> Targets(s[j])]
<1>1. Count(code) \in Nat /\ p \in Nat /\ q \in Nat /\ l \in Nat
  BY NumberFacts
<1>2. Entries(s, l) /\ \A j \in 1..l : s[j] = Decoded(code, p + j - 1)
  BY <1>1, SliceEntries
<1>3. DOMAIN s = 1..l
  BY <1>1, <1>2, EntriesSeq
<1>4. \A j \in 1..l : p + j - 1 \in 1..Count(code)
  BY <1>1
<1>5. ASSUME NEW n \in 1..Count(code)
      PROVE  /\ Sound(Decoded(code, n)) /\ Decoded(code, n) # Garbage
             /\ Targets(Decoded(code, n)) \in Seq(T)
             /\ Range(Decoded(code, n).dests) \subseteq Range(Targets(Decoded(code, n)))
  <2> DEFINE a == Address(code, n)
             i == Decoded(code, n)
  <2>1. a \in DOMAIN code.at
    BY AddressFacts
  <2>2. /\ Sound(i) /\ Len(i.dests) = Len(code.at[a].dests)
        /\ \A j \in 1..Len(i.dests) : i.dests[j] \in T
    BY <2>1, ParsedSound DEF Decoded, Places
  <2>3. i # Garbage
    <3>1. i.op # "garbage"
      BY <2>2 DEF Sound, Fixed, Switches, Branches
    <3> QED BY <3>1 DEF Garbage
  <2> HIDE DEF i, T
  <2>4. Targets(i) \in Seq(T) /\ Range(i.dests) \subseteq Range(Targets(i))
    BY <2>2, TargetsFacts
  <2> QED BY <2>2, <2>3, <2>4 DEF i
<1>6. ss = [j \in 1..l |-> Targets(s[j])]
  BY <1>3
<1> HIDE DEF ss, s, T
<1>7. Entries(ss, l) /\ \A j \in 1..l : ss[j] = Targets(s[j])
  BY <1>1, <1>6 DEF Entries
<1>8. \A j \in 1..l : ss[j] \in Seq(T)
  BY <1>2, <1>4, <1>5, <1>7
<1>9. /\ FlattenSeq(ss) \in Seq(T)
      /\ \A j \in 1..l : Range(ss[j]) \subseteq Range(FlattenSeq(ss))
  BY <1>1, <1>7, <1>8, FlattenFacts
<1>10. Queued(s) = FlattenSeq(ss)
  BY DEF Queued, ss
<1>11. ASSUME NEW n \in 1..Count(code), p <= n, n < q
       PROVE  Range(Decoded(code, n).dests) \subseteq Range(FlattenSeq(ss))
  <2> DEFINE j == n - p + 1
  <2>1. j \in 1..l /\ p + j - 1 = n
    BY <1>1, <1>11
  <2> HIDE DEF j
  <2>2. Range(ss[j]) \subseteq Range(FlattenSeq(ss)) /\ ss[j] = Targets(Decoded(code, n))
    BY <1>2, <1>7, <1>9, <2>1
  <2>3. Range(Decoded(code, n).dests) \subseteq Range(Targets(Decoded(code, n)))
    BY <1>5
  <2> QED BY <2>2, <2>3
<1>12. Garbage \notin Range(s)
  <2> HIDE DEF l
  <2>1. \A j \in 1..l : s[j] # Garbage
    BY <1>2, <1>4, <1>5
  <2> QED BY <1>3, <2>1 DEF Range
<1> QED BY <1>9, <1>10, <1>11, <1>12 DEF s, T

\* Addresses that start a block or still have to.
Known(bs, q) == Range(q) \cup Heads(bs)

\* Each target is one of them.
Reached(code, bs, q) == \A n \in 1..Count(code) : Range(Decoded(code, n).dests) \subseteq Known(bs, q)

Loaded(code, bs, q) ==
  /\ q \in Seq(Places(code))
  /\ \/ bs = <<>> /\ q = <<0>>
     \/ \E l, f : BlocksCut(code, bs, l, f) /\ Reached(code, bs, q)

\* The first of a queue and the others.
LEMMA HeadAndTail ==
  ASSUME NEW T, NEW q \in Seq(T), q # <<>>
  PROVE  /\ Head(q) \in T /\ Tail(q) \in Seq(T)
         /\ Range(q) \subseteq {Head(q)} \cup Range(Tail(q))
<1>1. Len(q) \in Nat /\ Len(q) > 0 /\ q \in [1..Len(q) -> T]
  BY EmptySeq, LenProperties
<1>2. Head(q) = q[1] /\ Tail(q) \in Seq(T) /\ Len(Tail(q)) = Len(q) - 1
      /\ \A j \in 1..Len(Tail(q)) : Tail(q)[j] = q[j + 1]
  BY HeadTailProperties
<1>3. DOMAIN Tail(q) = 1..Len(Tail(q))
  BY <1>2, LenProperties
<1>4. ASSUME NEW j \in 1..Len(q), j # 1 PROVE q[j] \in Range(Tail(q))
  <2> DEFINE h == j - 1
  <2>1. h \in 1..Len(Tail(q)) /\ h + 1 = j
    BY <1>1, <1>2, <1>4
  <2> HIDE DEF h
  <2> QED BY <1>2, <1>3, <2>1 DEF Range
<1>5. DOMAIN q = 1..Len(q)
  BY <1>1
<1> QED BY <1>1, <1>2, <1>4, <1>5 DEF Range

\* The first block of a method.
FirstCuts(code) == [j \in 1..(1 + 1) |-> IF j = 1 THEN 1 ELSE Count(code) + 1]

\* The first turn of bbPrvRun makes one block of all the code.
LEMMA FirstBlock ==
  ASSUME NEW code, WellFormed(code)
  PROVE  /\ Count(code) > 0 /\ Address(code, 1) = 0 /\ Address(code, Count(code) + 1) = code.len
         /\ BlocksCut(code, <<CutBlock(code, 1, Count(code) + 1)>>, 1, FirstCuts(code))
         /\ 0 \in Heads(<<CutBlock(code, 1, Count(code) + 1)>>)
<1> DEFINE N == Count(code)
           new == CutBlock(code, 1, N + 1)
           g == FirstCuts(code)
<1>1. N \in Nat /\ Number(code, 0) = 1
  BY NumberFacts
<1>2. N > 0
  <2>1. 0 \in DOMAIN code.at
    BY DEF WellFormed
  <2>2. Number(code, 0) \in 1..N
    BY <2>1, AddressFacts
  <2> QED BY <1>1, <2>2
<1>3. Address(code, 1) = 0 /\ Address(code, N + 1) = code.len
  BY AddressFacts
<1>4. g[1] = 1 /\ g[1 + 1] = N + 1 /\ g \in [1..(1 + 1) -> 1..(N + 1)]
  BY <1>1 DEF FirstCuts
<1> HIDE DEF g
<1>5. Cuts(code, 1, g)
  <2>1. \A j \in 1..1 : g[j] <= g[j + 1] /\ (g[j] = g[j + 1] => g[j] = 1)
    <3>1. 1 <= N + 1 /\ \A j \in 1..1 : j = 1
      BY <1>1
    <3> QED BY <1>4, <3>1
  <2>2. 1 \in Nat \ {0}
    OBVIOUS
  <2> QED BY <1>4, <2>1, <2>2 DEF Cuts
<1>6. new.initialAddr = 0
  <2>1. 1 # N + 1
    BY <1>1, <1>2
  <2> QED BY <1>3, <2>1, CutBlockFields
<1>7. new = CutBlock(code, g[1], g[1 + 1])
  BY <1>4
<1> HIDE DEF new
<1>8. Entries(<<new>>, 1) /\ <<new>>[1] = new
  BY OneEntry
<1>9. BlocksCut(code, <<new>>, 1, g)
  <2>1. \A j \in 1..1 : <<new>>[j] = CutBlock(code, g[j], g[j + 1])
    <3>1. \A j \in 1..1 : j = 1
      OBVIOUS
    <3> QED BY <1>7, <1>8, <3>1
  <2> QED BY <1>5, <1>8, <2>1 DEF BlocksCut
<1>10. 0 \in Heads(<<new>>)
  <2>1. 1 \in DOMAIN <<new>>
    BY <1>8, EntriesSeq
  <2> QED BY <1>6, <1>8, <2>1 DEF Heads
<1> QED BY <1>2, <1>3, <1>9, <1>10 DEF new, g

\* What is left of the queue, and what a new block adds to it.
LEMMA KnownGrows ==
  ASSUME NEW T, NEW q \in Seq(T), q # <<>>, NEW r \in Seq(T), NEW bs, NEW cs,
         Heads(bs) \cup {Head(q)} \subseteq Heads(cs)
  PROVE  /\ Tail(q) \o r \in Seq(T)
         /\ Known(bs, q) \subseteq Known(cs, Tail(q) \o r)
         /\ Range(r) \subseteq Known(cs, Tail(q) \o r)
<1>1. /\ Head(q) \in T /\ Tail(q) \in Seq(T)
      /\ Range(q) \subseteq {Head(q)} \cup Range(Tail(q))
  BY HeadAndTail
<1>2. Tail(q) \o r \in Seq(T) /\ Range(Tail(q) \o r) = Range(Tail(q)) \cup Range(r)
  <2> DEFINE t == Tail(q)
  <2>1. t \in Seq(T)
    BY <1>1
  <2> HIDE DEF t
  <2>2. t \o r \in Seq(T)
    BY <2>1, ConcatProperties
  <2>3. Range(t \o r) = Range(t) \cup Range(r)
    BY <2>1, RangeConcatenation
  <2> QED BY <2>2, <2>3 DEF t
<1> QED BY <1>1, <1>2 DEF Known

\* One address becomes the start of a block.
Taken(illegal) ==
  \/ exit' = "new"
  \/ /\ exit' = "no" /\ bbList' # <<>>
     /\ Loaded(gCode, bbList', Q') /\ Known(bbList, Q) \subseteq Known(bbList', Q')

\* The first of the queue has become the start of a block, and the targets of
\* the instructions of the new block are queued.
LEMMA NewBlockTaken ==
  ASSUME WellFormed(gCode), Q \in Seq(Places(gCode)), Q # <<>>,
         NEW p \in 1..(Count(gCode) + 1), NEW q \in 1..(Count(gCode) + 1), p <= q,
         NEW l, NEW f, BlocksCut(gCode, bbList', l, f),
         Heads(bbList) \cup {Head(Q)} \subseteq Heads(bbList'),
         Q' = Tail(Q) \o Queued(Slice(gCode, p, q)),
         \A n \in 1..Count(gCode) : \/ p <= n /\ n < q
                                    \/ Range(Decoded(gCode, n).dests) \subseteq Known(bbList, Q)
  PROVE  /\ bbList' # <<>> /\ Loaded(gCode, bbList', Q')
         /\ Known(bbList, Q) \subseteq Known(bbList', Q')
<1> DEFINE T == Places(gCode)
           r == Queued(Slice(gCode, p, q))
<1>1. /\ r \in Seq(T)
      /\ \A n \in 1..Count(gCode) :
              p <= n /\ n < q => Range(Decoded(gCode, n).dests) \subseteq Range(r)
  BY QueuedFacts
<1> HIDE DEF r, T
<1>2. /\ Tail(Q) \o r \in Seq(T)
      /\ Known(bbList, Q) \subseteq Known(bbList', Tail(Q) \o r)
      /\ Range(r) \subseteq Known(bbList', Tail(Q) \o r)
  BY <1>1, KnownGrows DEF T
<1>3. /\ Q' \in Seq(T)
      /\ Known(bbList, Q) \subseteq Known(bbList', Q')
      /\ Range(r) \subseteq Known(bbList', Q')
  BY <1>2 DEF r
<1>4. Reached(gCode, bbList', Q')
  <2> SUFFICES ASSUME NEW n \in 1..Count(gCode)
               PROVE  Range(Decoded(gCode, n).dests) \subseteq Known(bbList', Q')
    BY DEF Reached
  <2> QED BY <1>1, <1>3
<1>5. bbList' # <<>>
  <2>1. Entries(bbList', l) /\ l \in Nat \ {0}
    BY DEF BlocksCut, Cuts
  <2>2. DOMAIN bbList' = 1..l
    BY <2>1, EntriesSeq
  <2>3. 1 \in DOMAIN bbList'
    BY <2>1, <2>2
  <2>4. DOMAIN <<>> = {}
    OBVIOUS
  <2> QED BY <2>3, <2>4, Zenon
<1>6. Loaded(gCode, bbList', Q')
  BY <1>3, <1>4 DEF Loaded, T
<1> QED BY <1>3, <1>5, <1>6

\* One turn of bbPrvRun: every case of it keeps the blocks a partition of
\* the code, and loses no address that has been queued.
LEMMA QueueStep ==
  ASSUME WellFormed(gCode), Loaded(gCode, bbList, Q), NEW illegal, bbPrvRun(illegal)
  PROVE  Taken(illegal) /\ gCode' = gCode /\ excList' = excList
<1> DEFINE start == Head(Q)
           i == Containing(start)
           x == NextOne(start)
           bb == bbList[i]
           new == CASE i # 0 -> Block(start, bb.initialLen + bb.initialAddr - start)
                    [] i = 0 /\ x # 0 -> Block(start, bbList[x].initialAddr - start)
                    [] OTHER -> Block(start, gCode.len - start)
           cut == [bb EXCEPT !.initialLen = start - bb.initialAddr,
                             !.instrs = SubSeq(@, 1, Kept(bb, start - bb.initialAddr))]
           N == Count(gCode)
           T == Places(gCode)
<1>1. exit = "no" /\ Q # <<>> /\ gCode' = gCode /\ excList' = excList
  BY DEF bbPrvRun
<1>2. Q \in Seq(T) /\ start \in T /\ Tail(Q) \in Seq(T) /\ Range(Q) \subseteq {start} \cup Range(Tail(Q))
  <2>1. Q \in Seq(T)
    BY DEF Loaded
  <2> HIDE DEF T
  <2> QED BY <1>1, <2>1, HeadAndTail
<1>3. IF i # 0 /\ bb.initialAddr = start
      THEN Q' = Tail(Q) /\ UNCHANGED <<bbList, exit>>
      ELSE IF i # 0 /\ Kept(bb, start - bb.initialAddr) = 0
      THEN exit' = "truncate" /\ UNCHANGED <<bbList, Q>>
      ELSE IF Garbage \in Range(new.instrs)
      THEN exit' = "instr" /\ UNCHANGED <<bbList, Q>>
      ELSE IF \E j \in Range(new.instrs) : j.op = "new" /\ j.idx \in illegal
      THEN exit' = "new" /\ UNCHANGED <<bbList, Q>>
      ELSE /\ bbList' = CASE i # 0 -> InsertAt([bbList EXCEPT ![i] = cut], i + 1, new)
                          [] i = 0 /\ x # 0 -> InsertAt(bbList, x, new)
                          [] OTHER -> <<new>> \o bbList
           /\ Q' = Tail(Q) \o Queued(new.instrs)
           /\ UNCHANGED exit
  BY Zenon DEF bbPrvRun, Queued
<1>4. N \in Nat /\ N > 0
  BY NumberFacts, FirstBlock
\* a block p..q that is put somewhere
<1>5. ASSUME NEW p \in 1..(N + 1), NEW q \in 1..(N + 1), p <= q, new = CutBlock(gCode, p, q),
             ~(i # 0 /\ bb.initialAddr = start), ~(i # 0 /\ Kept(bb, start - bb.initialAddr) = 0),
             NEW to, NEW l, NEW f, BlocksCut(gCode, to, l, f),
             to = CASE i # 0 -> InsertAt([bbList EXCEPT ![i] = cut], i + 1, new)
                    [] i = 0 /\ x # 0 -> InsertAt(bbList, x, new)
                    [] OTHER -> <<new>> \o bbList,
             Heads(bbList) \cup {start} \subseteq Heads(to),
             \A n \in 1..N : \/ p <= n /\ n < q
                             \/ Range(Decoded(gCode, n).dests) \subseteq Known(bbList, Q)
      PROVE  Taken(illegal)
  <2>1. new.instrs = Slice(gCode, p, q)
    BY <1>5, CutBlockFields
  <2>2. Garbage \notin Range(new.instrs)
    BY <1>5, <2>1, QueuedFacts
  <2> HIDE DEF new, cut, bb, start, i, x, T, N
  <2>3. CASE \E j \in Range(new.instrs) : j.op = "new" /\ j.idx \in illegal
    <3>1. exit' = "new"
      BY <1>3, <1>5, <2>2, <2>3
    <3> QED BY <3>1 DEF Taken
  <2>4. CASE ~ \E j \in Range(new.instrs) : j.op = "new" /\ j.idx \in illegal
    <3>1. bbList' = to /\ Q' = Tail(Q) \o Queued(new.instrs) /\ exit' = exit
      BY <1>3, <1>5, <2>2, <2>4
    <3>2. BlocksCut(gCode, bbList', l, f) /\ Heads(bbList) \cup {Head(Q)} \subseteq Heads(bbList')
          /\ Q' = Tail(Q) \o Queued(Slice(gCode, p, q))
      BY <1>5, <2>1, <3>1 DEF start
    <3>3. /\ bbList' # <<>> /\ Loaded(gCode, bbList', Q')
          /\ Known(bbList, Q) \subseteq Known(bbList', Q')
      BY <1>1, <1>2, <1>5, <3>2, NewBlockTaken DEF N, T
    <3> QED BY <1>1, <3>1, <3>3 DEF Taken
  <2> QED BY <2>3, <2>4
<1>6. CASE bbList = <<>> /\ Q = <<0>>
  <2>1. DOMAIN bbList = {} /\ Heads(bbList) = {} /\ start = 0
    BY <1>6 DEF Heads
  <2>2. i = 0 /\ x = 0
    BY <2>1 DEF Containing, NextOne, FirstOf
  <2>3. /\ Address(gCode, 1) = 0 /\ Address(gCode, N + 1) = gCode.len
        /\ BlocksCut(gCode, <<CutBlock(gCode, 1, N + 1)>>, 1, FirstCuts(gCode))
        /\ 0 \in Heads(<<CutBlock(gCode, 1, N + 1)>>)
    BY FirstBlock
  <2>4. 1 \in 1..(N + 1) /\ N + 1 \in 1..(N + 1) /\ 1 < N + 1 /\ 1 <= N + 1
    BY <1>4
  <2>5. new = CutBlock(gCode, 1, N + 1)
    <3>1. gCode.len - 0 = Address(gCode, N + 1) - Address(gCode, 1) /\ 0 = Address(gCode, 1)
      BY <2>3
    <3>2. Block(0, gCode.len - 0) = CutBlock(gCode, 1, N + 1)
      BY <2>4, <3>1, BlockIs
    <3>3. new = Block(start, gCode.len - start)
      <4> HIDE DEF i, x, start, bb
      <4> QED BY <2>2
    <3> QED BY <2>1, <3>2, <3>3
  <2> DEFINE to == <<new>>
  <2>6. to = CASE i # 0 -> InsertAt([bbList EXCEPT ![i] = cut], i + 1, new)
               [] i = 0 /\ x # 0 -> InsertAt(bbList, x, new)
               [] OTHER -> <<new>> \o bbList
    <3> HIDE DEF new, cut, bb, start, i, x, to
    <3>1. <<new>> \o bbList = to
      BY <1>6 DEF to
    <3> QED BY <2>2, <3>1
  <2>7. BlocksCut(gCode, to, 1, FirstCuts(gCode)) /\ Heads(bbList) \cup {start} \subseteq Heads(to)
    BY <2>1, <2>3, <2>5
  <2>8. \A n \in 1..N : 1 <= n /\ n < N + 1
    BY <1>4
  <2> HIDE DEF new, cut, bb, start, i, x, N, to
  <2> QED BY <1>1, <1>5, <2>2, <2>4, <2>5, <2>6, <2>7, <2>8
<1>7. ASSUME NEW l, NEW f, BlocksCut(gCode, bbList, l, f), Reached(gCode, bbList, Q)
      PROVE  Taken(illegal)
  <2>1. /\ start = gCode.len => i = 0 /\ x = 0
        /\ start # gCode.len => i \in 1..l /\ f[i] <= Number(gCode, start)
                                /\ Number(gCode, start) < f[i + 1]
    <3> HIDE DEF start
    <3> QED BY <1>2, <1>7, ContainingFacts
  <2>2. /\ l \in Nat \ {0} /\ f \in [1..(l + 1) -> 1..(N + 1)]
        /\ Entries(bbList, l) /\ \A j \in 1..l : bbList[j] = CutBlock(gCode, f[j], f[j + 1])
    BY <1>7 DEF BlocksCut, Cuts
  <2>3. \A n \in 1..N : Range(Decoded(gCode, n).dests) \subseteq Known(bbList, Q)
    BY <1>7 DEF Reached
  <2>4. CASE start = gCode.len
    <3>1. i = 0 /\ x = 0
      BY <2>1, <2>4
    <3>2. new = CutBlock(gCode, 1, 1)
      <4>1. new = Block(start, gCode.len - start)
        <5> HIDE DEF i, x, start, bb
        <5> QED BY <3>1
      <4> HIDE DEF new, start
      <4>2. new = Block(gCode.len, gCode.len - gCode.len)
        BY <2>4, <4>1
      <4> QED BY <4>2, EmptyBlockIs
    <3> DEFINE to == <<new>> \o bbList
    <3>3. /\ BlocksCut(gCode, to, l + 1, FrontCuts(l, f))
          /\ Heads(bbList) \cup {start} \subseteq Heads(to)
      <4> HIDE DEF new, start
      <4> QED BY <1>7, <2>4, <3>2, FrontInserted, HeadsFront
    <3>4. to = CASE i # 0 -> InsertAt([bbList EXCEPT ![i] = cut], i + 1, new)
                 [] i = 0 /\ x # 0 -> InsertAt(bbList, x, new)
                 [] OTHER -> <<new>> \o bbList
      <4> HIDE DEF new, cut, bb, start, i, x
      <4> QED BY <3>1
    <3>5. 1 \in 1..(N + 1) /\ 1 <= 1
      BY <1>4
    <3> HIDE DEF new, cut, bb, start, i, x, N, to
    <3> QED BY <1>5, <2>3, <3>1, <3>2, <3>3, <3>4, <3>5
  <2>5. CASE start # gCode.len
    <3> DEFINE n == Number(gCode, start)
               A(j) == Address(gCode, j)
    <3>1. i \in 1..l /\ f[i] <= n /\ n < f[i + 1]
      BY <2>1, <2>5
    <3>2. start \in DOMAIN gCode.at /\ n \in 1..N /\ A(n) = start
      <4>1. start \in DOMAIN gCode.at
        BY <1>2, <2>5 DEF Places
      <4> HIDE DEF start
      <4>2. start \in Places(gCode)
        BY <4>1 DEF Places
      <4> QED BY <4>1, <4>2, AddressFacts
    <3>3. /\ i # 0 /\ i \in Nat /\ i + 1 \in 1..(l + 1) /\ f[i] \in 1..(N + 1) /\ f[i + 1] \in 1..(N + 1)
          /\ bb = CutBlock(gCode, f[i], f[i + 1])
      <4> HIDE DEF i, bb
      <4>1. i # 0 /\ i \in Nat /\ i + 1 \in 1..(l + 1) /\ i \in 1..(l + 1)
        BY <2>2, <3>1
      <4>2. bbList[i] = CutBlock(gCode, f[i], f[i + 1])
        BY <2>2, <3>1
      <4> QED BY <2>2, <4>1, <4>2 DEF bb
    <3> HIDE DEF i, start, n, N
    <3>4. f[i] \in Nat /\ f[i + 1] \in Nat /\ n \in Nat /\ f[i] # f[i + 1] /\ n \in 1..(N + 1)
      BY <1>4, <3>1, <3>2, <3>3
    <3>5. bb.initialAddr = A(f[i]) /\ bb.initialLen = A(f[i + 1]) - A(f[i])
      BY <3>3, <3>4, CutBlockFields
    <3>6. A(f[i]) \in Nat /\ A(f[i + 1]) \in Nat /\ A(n) \in Nat /\ Number(gCode, A(f[i])) = f[i]
      BY <3>3, <3>4, AddressFacts DEF N
    <3>7. CASE f[i] = n
      <4>1. bb.initialAddr = start
        BY <3>2, <3>5, <3>7
      <4> HIDE DEF bb, new, cut, A, x, T
      <4>2. Q' = Tail(Q) /\ bbList' = bbList /\ exit' = exit
        BY <1>3, <3>3, <4>1
      <4>3. start \in Heads(bbList)
        <5>1. DOMAIN bbList = 1..l
          BY <2>2, EntriesSeq
        <5>2. bbList[i].initialAddr = start
          BY <4>1 DEF bb
        <5> QED BY <3>1, <5>1, <5>2 DEF Heads
      <4>4. Known(bbList, Q) \subseteq Known(bbList', Q')
        BY <1>2, <4>2, <4>3 DEF Known
      <4>5. Loaded(gCode, bbList', Q')
        <5>1. Reached(gCode, bbList, Q')
          BY <2>3, <4>2, <4>4 DEF Reached, N
        <5> QED BY <1>2, <1>7, <4>2, <5>1 DEF Loaded, T
      <4>6. bbList # <<>>
        BY <2>2, <3>1, EntriesSeq
      <4> QED BY <1>1, <4>2, <4>4, <4>5, <4>6 DEF Taken
    <3>8. CASE f[i] # n
      <4>1. f[i] < n
        BY <3>1, <3>4, <3>8
      <4>2. bb.initialAddr # start
        BY <3>2, <3>5, <3>6, <3>8 DEF n
      <4> DEFINE len == start - bb.initialAddr
      <4>3. Kept(bb, len) = n - f[i]
            /\ [bb EXCEPT !.initialLen = len, !.instrs = SubSeq(@, 1, Kept(bb, len))]
                 = CutBlock(gCode, f[i], n)
        <5> DEFINE b == CutBlock(gCode, f[i], f[i + 1])
                   d == Address(gCode, n) - b.initialAddr
        <5>1. Kept(b, d) = n - f[i]
              /\ [b EXCEPT !.initialLen = d, !.instrs = SubSeq(@, 1, Kept(b, d))]
                   = CutBlock(gCode, f[i], n)
          <6>1. CutsWell(gCode, f[i], f[i + 1], n)
            BY <3>1, <3>3, <3>4, <4>1, CutFacts DEF N
          <6> QED BY <6>1 DEF CutsWell
        <5>2. bb = b /\ d = len
          BY <3>2, <3>3
        <5> HIDE DEF b, d, bb, len
        <5> QED BY <5>1, <5>2
      <4>4. Kept(bb, len) # 0
        BY <3>4, <4>1, <4>3
      <4>5. cut = CutBlock(gCode, f[i], n)
        BY <4>3
      <4>6. new = CutBlock(gCode, n, f[i + 1])
        <5>1. new = Block(start, bb.initialLen + bb.initialAddr - start)
          <6> HIDE DEF bb
          <6> QED BY <3>3
        <5> DEFINE a == bb.initialLen + bb.initialAddr - start
        <5>2. a = A(f[i + 1]) - A(n) /\ start = A(n)
          BY <3>2, <3>5, <3>6
        <5> HIDE DEF a, new, bb
        <5>3. Block(start, a) = CutBlock(gCode, n, f[i + 1])
          BY <3>1, <3>3, <3>4, <5>2, BlockIs DEF N
        <5> QED BY <5>1, <5>3 DEF a
      <4> DEFINE to == Halved(gCode, bbList, f, i, n)
      <4> HIDE DEF cut, new, bb, len
      <4>7. /\ BlocksCut(gCode, to, l + 1, MidCuts(l, f, i, n))
            /\ Heads(bbList) \cup {start} \subseteq Heads(to)
        BY <1>7, <3>1, <3>2, <3>4, <4>1, BlockHalved, HeadsHalved
      <4>8. to = CASE i # 0 -> InsertAt([bbList EXCEPT ![i] = cut], i + 1, new)
                   [] i = 0 /\ x # 0 -> InsertAt(bbList, x, new)
                   [] OTHER -> <<new>> \o bbList
        BY <3>3, <4>5, <4>6 DEF Halved
      <4>9. n <= f[i + 1]
        BY <3>1, <3>4
      <4> HIDE DEF to, A, x
      <4> QED BY <1>5, <2>3, <3>3, <3>4, <4>2, <4>4, <4>6, <4>7, <4>8, <4>9 DEF len
    <3> QED BY <3>7, <3>8
  <2> QED BY <2>4, <2>5
<1>8. Taken(illegal)
  <2> HIDE DEF start, i, x, bb, new, cut, N, T
  <2> QED BY <1>6, <1>7 DEF Loaded
<1> QED BY <1>1, <1>8
-----------------------------------------------------------------------------
(* The instructions of all blocks. *)

Part(s, p, q) == [j \in 1..(q - p) |-> s[p + j - 1]]

IsPart(u, s, p, q) ==
  /\ q - p \in Nat /\ Entries(u, q - p)
  /\ \A j \in 1..(q - p) : u[j] = s[p + j - 1]

\* What a part of a sequence is.
LEMMA PartEntries ==
  ASSUME NEW s, NEW p \in Nat, NEW q \in Nat, p <= q
  PROVE  IsPart(Part(s, p, q), s, p, q)
BY DEF IsPart, Entries, Part

\* All the parts of a sequence are the sequence.
LEMMA PartWhole ==
  ASSUME NEW s, NEW n \in Nat, Entries(s, n)
  PROVE  Part(s, 1, n + 1) = s
<1> DEFINE u == Part(s, 1, n + 1)
<1>1. (n + 1) - 1 = n /\ \A j \in 1..n : 1 + j - 1 = j
  OBVIOUS
<1>2. Entries(u, (n + 1) - 1) /\ \A j \in 1..((n + 1) - 1) : u[j] = s[1 + j - 1]
  <2>1. 1 \in Nat /\ n + 1 \in Nat /\ 1 <= n + 1
    OBVIOUS
  <2>2. IsPart(u, s, 1, n + 1)
    BY <2>1, PartEntries
  <2> HIDE DEF u
  <2> QED BY <2>2 DEF IsPart
<1> HIDE DEF u
<1>3. Entries(u, n) /\ \A j \in 1..n : u[j] = s[j]
  BY <1>1, <1>2
<1>4. u = s
  BY <1>3, SameEntries
<1> QED BY <1>4 DEF u

\* Adjacent parts join.
LEMMA PartsJoin ==
  ASSUME NEW s, NEW p \in Nat, NEW q \in Nat, NEW r \in Nat, p <= q, q <= r
  PROVE  Part(s, p, q) \o Part(s, q, r) = Part(s, p, r)
<1> DEFINE a == Part(s, p, q)
           b == Part(s, q, r)
           u == a \o b
           w == Part(s, p, r)
<1>1. /\ q - p \in Nat /\ Entries(a, q - p) /\ \A j \in 1..(q - p) : a[j] = s[p + j - 1]
      /\ r - q \in Nat /\ Entries(b, r - q) /\ \A j \in 1..(r - q) : b[j] = s[q + j - 1]
  <2>1. IsPart(a, s, p, q) /\ IsPart(b, s, q, r)
    BY PartEntries
  <2> HIDE DEF a, b
  <2> QED BY <2>1 DEF IsPart
<1>2. r - p \in Nat /\ Entries(w, r - p) /\ \A j \in 1..(r - p) : w[j] = s[p + j - 1]
  <2>1. p <= r
    OBVIOUS
  <2>2. IsPart(w, s, p, r)
    BY <2>1, PartEntries
  <2> HIDE DEF w
  <2> QED BY <2>2 DEF IsPart
<1>3. Concatenates(u, a, q - p, b, r - q)
  BY <1>1, ConcatEntries
<1> HIDE DEF a, b, u, w
<1>4. (q - p) + (r - q) = r - p
  OBVIOUS
<1>5. ASSUME NEW j \in 1..(r - p) PROVE u[j] = w[j]
  <2>1. CASE j <= q - p
    <3>1. j \in 1..(q - p)
      BY <2>1
    <3> QED BY <1>1, <1>2, <1>3, <3>1 DEF Concatenates
  <2>2. CASE ~(j <= q - p)
    <3> DEFINE i == j - (q - p)
    <3>1. i \in 1..(r - q) /\ (q - p) + i = j /\ q + i - 1 = p + j - 1
      BY <2>2
    <3> HIDE DEF i
    <3>2. u[(q - p) + i] = b[i]
      BY <1>3, <3>1 DEF Concatenates
    <3>3. b[i] = s[p + j - 1]
      BY <1>1, <3>1
    <3> QED BY <1>2, <3>1, <3>2, <3>3
  <2> QED BY <2>1, <2>2
<1>6. Entries(u, r - p)
  BY <1>3, <1>4 DEF Concatenates
<1>7. u = w
  BY <1>2, <1>5, <1>6, SameEntries
<1> QED BY <1>7 DEF u, w, a, b

\* Blocks that hold the parts of s.
BlocksOf(bs, l, f, s) ==
  /\ Entries(bs, l)
  /\ \A j \in 1..l : "instrs" \in DOMAIN bs[j] /\ bs[j].instrs = Part(s, f[j], f[j + 1])

\* The cuts lie between the first instruction and the end, in order.
LEMMA CutsTypes ==
  ASSUME NEW code, WellFormed(code), NEW l, NEW f, Cuts(code, l, f)
  PROVE  /\ l \in Nat \ {0} /\ f[1] = 1 /\ f[l + 1] = Count(code) + 1
         /\ \A j \in 1..(l + 1) : f[j] \in Nat /\ f[j] >= 1 /\ f[j] <= Count(code) + 1
         /\ \A j \in 1..l : f[j] <= f[j + 1] /\ j + 1 \in 1..(l + 1) /\ j \in 1..(l + 1)
<1>1. Count(code) \in Nat
  BY NumberFacts
<1>2. l \in Nat \ {0}
  BY DEF Cuts
<1>3. \A j \in 1..(l + 1) : f[j] \in 1..(Count(code) + 1)
  BY DEF Cuts
<1>4. \A j \in 1..l : f[j] <= f[j + 1] /\ j + 1 \in 1..(l + 1) /\ j \in 1..(l + 1)
  BY <1>2 DEF Cuts
<1>5. \A j \in 1..(l + 1) : f[j] \in Nat /\ f[j] >= 1 /\ f[j] <= Count(code) + 1
  BY <1>1, <1>3
<1> QED BY <1>2, <1>4, <1>5 DEF Cuts

\* The instructions of the blocks in the order of the blocks are those of the
\* method.
LEMMA Joined ==
  ASSUME NEW code, WellFormed(code), NEW l, NEW f, Cuts(code, l, f),
         NEW s, Entries(s, Count(code)), NEW bs, BlocksOf(bs, l, f, s)
  PROVE  InstrsOf(bs) = s
<1> DEFINE N == Count(code)
           ss == [j \in DOMAIN bs |-> bs[j].instrs]
           F(j, h) == IF j = 1 THEN ss[j] ELSE h[j - 1] \o ss[j]
           flat == CHOOSE h : h = [j \in 1..l |-> F(j, h)]
           W == [j \in 1..l |-> Part(s, 1, f[j + 1])]
<1>1. /\ l \in Nat \ {0} /\ f[1] = 1 /\ f[l + 1] = N + 1
      /\ \A j \in 1..(l + 1) : f[j] \in Nat /\ f[j] >= 1 /\ f[j] <= Count(code) + 1
      /\ \A j \in 1..l : f[j] <= f[j + 1] /\ j + 1 \in 1..(l + 1) /\ j \in 1..(l + 1)
  BY CutsTypes
<1>2. DOMAIN bs = 1..l
  BY <1>1, EntriesSeq DEF BlocksOf
<1>3. \A j \in 1..l : ss[j] = Part(s, f[j], f[j + 1])
  BY <1>2 DEF BlocksOf
<1>4. Entries(ss, l) /\ Len(ss) = l
  <2>1. ss = [j \in 1..l |-> bs[j].instrs]
    BY <1>2
  <2> HIDE DEF ss
  <2>2. Entries(ss, l)
    BY <1>1, <2>1 DEF Entries
  <2> QED BY <2>2, EntriesSeq
<1>5. ASSUME NEW j \in 1..l, j # 1 PROVE Part(s, 1, f[j]) \o ss[j] = Part(s, 1, f[j + 1])
  <2> DEFINE q == f[j]
             r == f[j + 1]
  <2>1. q \in Nat /\ r \in Nat /\ 1 \in Nat /\ 1 <= q /\ q <= r
    BY <1>1
  <2> HIDE DEF q, r
  <2>2. Part(s, 1, q) \o Part(s, q, r) = Part(s, 1, r)
    BY <2>1, PartsJoin
  <2> HIDE DEF ss
  <2> QED BY <1>3, <2>2 DEF q, r
<1> HIDE DEF ss
<1>6. W = [j \in 1..l |-> F(j, W)]
  <2> SUFFICES ASSUME NEW j \in 1..l PROVE W[j] = F(j, W)
    OBVIOUS
  <2>1. CASE j = 1
    BY <1>1, <1>3, <2>1
  <2>2. CASE j # 1
    <3>1. j - 1 \in 1..l /\ (j - 1) + 1 = j
      BY <1>1, <2>2
    <3>2. W[j - 1] = Part(s, 1, f[j])
      BY <3>1
    <3> QED BY <1>5, <2>2, <3>2
  <2> QED BY <2>1, <2>2
<1>7. flat = [j \in 1..l |-> F(j, flat)]
  <2> HIDE DEF F, W
  <2> QED BY <1>6
<1>8. \A j \in 1..l : flat[j] = F(j, flat)
  <2> HIDE DEF F, flat
  <2> QED BY <1>7
<1>9. FlattenSeq(ss) = flat[l]
  BY <1>1, <1>4 DEF FlattenSeq
<1> HIDE DEF flat, W
<1> DEFINE P == {j \in Nat : j + 1 <= l => flat[j + 1] = Part(s, 1, f[(j + 1) + 1])}
<1>10. 0 \in P
  <2>1. 1 \in 1..l /\ flat[1] = ss[1]
    BY <1>1, <1>8
  <2> QED BY <1>1, <1>3, <2>1
<1>11. ASSUME NEW j \in Nat, j \in P PROVE j + 1 \in P
  <2> SUFFICES ASSUME (j + 1) + 1 <= l
               PROVE  flat[(j + 1) + 1] = Part(s, 1, f[((j + 1) + 1) + 1])
    OBVIOUS
  <2> DEFINE i == (j + 1) + 1
  <2>1. i \in 1..l /\ i # 1 /\ i - 1 = j + 1 /\ j + 1 <= l
    BY <1>1
  <2>2. flat[i] = flat[j + 1] \o ss[i] /\ flat[j + 1] = Part(s, 1, f[i])
    BY <1>8, <1>11, <2>1
  <2> HIDE DEF i
  <2>3. flat[i] = Part(s, 1, f[i + 1])
    BY <1>5, <2>1, <2>2
  <2> QED BY <2>3 DEF i
<1>12. l - 1 \in P
  <2>1. l - 1 \in Nat
    BY <1>1
  <2> HIDE DEF P
  <2> QED BY <1>10, <1>11, <2>1, SetInduction
<1>13. flat[l] = Part(s, 1, N + 1)
  <2>1. (l - 1) + 1 = l /\ l <= l
    BY <1>1
  <2> QED BY <1>1, <1>12, <2>1
<1>14. Part(s, 1, N + 1) = s
  <2>1. N \in Nat
    BY NumberFacts
  <2> QED BY <2>1, PartWhole
<1> QED BY <1>9, <1>13, <1>14 DEF InstrsOf, ss

\* The addresses of a part are those that its instructions have in the whole.
LEMMA PartPlaced ==
  ASSUME NEW s, NEW n \in Nat, Entries(s, n), NEW g, PlacedAt(s, n, g),
         NEW p \in Nat, NEW q \in Nat, 1 <= p, p <= q, q <= n + 1
  PROVE  End(Part(s, p, q), g[p]) = g[q]
<1> DEFINE u == Part(s, p, q)
           d == q - p
           h == [j \in 1..(d + 1) |-> g[p + j - 1]]
<1>1. d \in Nat /\ Entries(u, d) /\ \A j \in 1..d : u[j] = s[p + j - 1]
  <2>1. IsPart(u, s, p, q)
    BY PartEntries
  <2> HIDE DEF u
  <2> QED BY <2>1 DEF IsPart
<1>2. g \in [1..(n + 1) -> Int] /\ \A j \in 1..n : g[j + 1] = g[j] + ExportLen(s[j], g[j])
  BY DEF PlacedAt
<1>3. \A j \in 1..(d + 1) : p + j - 1 \in 1..(n + 1)
  OBVIOUS
<1>4. h \in [1..(d + 1) -> Int] /\ \A j \in 1..(d + 1) : h[j] = g[p + j - 1]
  BY <1>2, <1>3
<1> HIDE DEF h, u
<1>5. ASSUME NEW j \in 1..d PROVE h[j + 1] = h[j] + ExportLen(u[j], h[j])
  <2> DEFINE i == p + j - 1
  <2>1. i \in 1..n /\ p + (j + 1) - 1 = i + 1 /\ j \in 1..(d + 1) /\ j + 1 \in 1..(d + 1)
    OBVIOUS
  <2>2. h[j] = g[i] /\ h[j + 1] = g[p + (j + 1) - 1] /\ u[j] = s[i]
    BY <1>1, <1>4, <2>1
  <2> HIDE DEF i
  <2> QED BY <1>2, <2>1, <2>2
<1>6. PlacedAt(u, d, h)
  BY <1>4, <1>5 DEF PlacedAt
<1>7. End(u, h[1]) = h[d + 1]
  BY <1>1, <1>6, PlaceIs
<1>8. h[1] = g[p] /\ h[d + 1] = g[q]
  <2>1. 1 \in 1..(d + 1) /\ d + 1 \in 1..(d + 1) /\ p + 1 - 1 = p /\ p + (d + 1) - 1 = q
    BY <1>1
  <2> QED BY <1>4, <2>1
<1> QED BY <1>7, <1>8 DEF u

\* The address of a block is that of its first instruction, and that of an
\* empty one the address of the next.
LEMMA BlockAddrIs ==
  ASSUME NEW code, WellFormed(code), NEW l, NEW f, Cuts(code, l, f),
         NEW s, Entries(s, Count(code)), \A n \in 1..Count(code) : Sound(s[n]),
         NEW bs, BlocksOf(bs, l, f, s), NEW i \in 1..l
  PROVE  BlockAddr(bs, i) = Place(s, 0)[f[i]]
<1> DEFINE N == Count(code)
           at == Place(s, 0)
           G(n, h) == IF n = 1 THEN 0 ELSE End(bs[n - 1].instrs, h[n - 1])
           to == CHOOSE h : h = [n \in 1..i |-> G(n, h)]
           W == [n \in 1..i |-> at[f[n]]]
<1>1. /\ l \in Nat \ {0} /\ f[1] = 1 /\ f[l + 1] = N + 1
      /\ \A j \in 1..(l + 1) : f[j] \in Nat /\ f[j] >= 1 /\ f[j] <= N + 1
      /\ \A j \in 1..l : f[j] <= f[j + 1] /\ j + 1 \in 1..(l + 1) /\ j \in 1..(l + 1)
  BY CutsTypes
<1>2. N \in Nat
  BY NumberFacts
<1>3. PlacedAt(s, N, at) /\ at[1] = 0
  <2>1. 0 \in Nat
    OBVIOUS
  <2> QED BY <1>2, <2>1, PlaceExists
<1> HIDE DEF at, N
<1>4. ASSUME NEW j \in 1..l PROVE End(bs[j].instrs, at[f[j]]) = at[f[j + 1]]
  <2> DEFINE p == f[j]
             q == f[j + 1]
  <2>1. p \in Nat /\ q \in Nat /\ 1 <= p /\ p <= q /\ q <= N + 1
    BY <1>1
  <2>2. bs[j].instrs = Part(s, p, q)
    BY DEF BlocksOf
  <2> HIDE DEF p, q
  <2>3. End(Part(s, p, q), at[p]) = at[q]
    BY <1>2, <1>3, <2>1, PartPlaced DEF N
  <2> QED BY <2>2, <2>3 DEF p, q
<1>5. W = [n \in 1..i |-> G(n, W)]
  <2> SUFFICES ASSUME NEW n \in 1..i PROVE W[n] = G(n, W)
    OBVIOUS
  <2>1. CASE n = 1
    BY <1>1, <1>3, <2>1
  <2>2. CASE n # 1
    <3>1. n - 1 \in 1..i /\ n - 1 \in 1..l /\ (n - 1) + 1 = n
      BY <1>1, <2>2
    <3>2. W[n - 1] = at[f[n - 1]]
      BY <3>1
    <3>3. End(bs[n - 1].instrs, at[f[n - 1]]) = at[f[n]]
      BY <1>4, <3>1
    <3> QED BY <2>2, <3>2, <3>3
  <2> QED BY <2>1, <2>2
<1>6. to = [n \in 1..i |-> G(n, to)]
  <2> HIDE DEF G, W
  <2> QED BY <1>5
<1>7. \A n \in 1..i : to[n] = G(n, to)
  <2> HIDE DEF G, to
  <2> QED BY <1>6
<1>8. BlockAddr(bs, i) = to[i]
  BY DEF BlockAddr
<1> HIDE DEF to, W
<1> DEFINE P == {n \in Nat : n + 1 <= i => to[n + 1] = at[f[n + 1]]}
<1>9. 0 \in P
  <2>1. 1 \in 1..i /\ to[1] = 0
    BY <1>7
  <2> QED BY <1>1, <1>3, <2>1
<1>10. ASSUME NEW n \in Nat, n \in P PROVE n + 1 \in P
  <2> SUFFICES ASSUME (n + 1) + 1 <= i PROVE to[(n + 1) + 1] = at[f[(n + 1) + 1]]
    OBVIOUS
  <2>1. (n + 1) + 1 \in 1..i /\ (n + 1) + 1 # 1 /\ ((n + 1) + 1) - 1 = n + 1 /\ n + 1 <= i /\ n + 1 \in 1..l
    BY <1>1
  <2>2. to[(n + 1) + 1] = End(bs[n + 1].instrs, to[n + 1])
    BY <1>7, <2>1
  <2>3. to[n + 1] = at[f[n + 1]]
    BY <1>10, <2>1
  <2> QED BY <1>4, <2>1, <2>2, <2>3
<1>11. i - 1 \in P
  <2>1. i - 1 \in Nat
    OBVIOUS
  <2> HIDE DEF P
  <2> QED BY <1>9, <1>10, <2>1, SetInduction
<1>12. to[i] = at[f[i]]
  <2>1. (i - 1) + 1 = i /\ i <= i
    BY <1>1
  <2> QED BY <1>11, <2>1
<1> QED BY <1>8, <1>12 DEF at
-----------------------------------------------------------------------------
(* The code that is written. *)

\* What an instruction does, wherever it is.
Words(i) == <<i.op, i.wide, i.idx, i.val>>

Stored(i) == [op |-> i.op, wide |-> i.wide, idx |-> i.idx, val |-> i.val, dests |-> i.dests]

\* What of an instruction is in the code that is exported.
LEMMA StoredFields ==
  ASSUME NEW i
  PROVE  /\ Stored(i).op = i.op /\ Stored(i).wide = i.wide /\ Stored(i).dests = i.dests
         /\ Words(Stored(i)) = Words(i)
BY DEF Stored, Words

\* An instruction that is read again is as long as it was.
LEMMA ParsedLen ==
  ASSUME NEW i, Sound(i), NEW x, x.op = i.op, x.wide = i.wide, x.dests = i.dests, NEW a \in Int
  PROVE  ExportLen(Parsed(x, a), a) = ExportLen(i, a)
<1> DEFINE p == Parsed(x, a)
<1>1. /\ p.op = i.op /\ p.wide = i.wide
      /\ p.dests = [j \in DOMAIN i.dests |-> a + i.dests[j]]
      /\ p.numBytes = IF x.op \in Switches \cup Branches THEN 0 ELSE ExtraSz(x)
  BY DEF Parsed
<1>2. ExtraSz(x) = ExtraSz(i)
  BY DEF ExtraSz
<1>3. Len(p.dests) = Len(i.dests)
  <2> DEFINE ds == [j \in 1..Len(i.dests) |-> a + i.dests[j]]
  <2>1. Len(i.dests) \in Nat /\ DOMAIN i.dests = 1..Len(i.dests) /\ i.dests \in [1..Len(i.dests) -> Int]
    BY LenProperties DEF Sound
  <2>2. ds \in [1..Len(i.dests) -> Int]
    BY <2>1
  <2>3. Len(ds) = Len(i.dests)
    <3> HIDE DEF ds
    <3> QED BY <2>1, <2>2, IsSeq
  <2>4. p.dests = ds
    BY <1>1, <2>1
  <2> QED BY <2>3, <2>4
<1> HIDE DEF p
<1>4. Opcode(p) = Opcode(i)
  BY <1>1 DEF Opcode
<1> DEFINE E(j) == CASE j.op \in Switches -> Padding(a) + TableSz(j)
                     [] j.op \in Branches -> BranchSz(j)
                     [] OTHER -> j.numBytes
<1>5. CASE i.op \in Switches
  <2>1. TableSz(p) = TableSz(i)
    BY <1>1, <1>3 DEF TableSz
  <2>2. E(p) = Padding(a) + TableSz(p) /\ E(i) = Padding(a) + TableSz(i)
    BY <1>1, <1>5, Zenon DEF Switches, Branches
  <2> QED BY <1>4, <2>1, <2>2, Zenon DEF ExportLen, p
<1>6. CASE i.op \in Branches
  <2>1. BranchSz(p) = BranchSz(i) /\ i.op \notin Switches
    BY <1>1, <1>6 DEF BranchSz, Branches, Switches
  <2>2. E(p) = E(i)
    BY <1>1, <1>6, <2>1
  <2> QED BY <1>4, <2>2, Zenon DEF ExportLen, p
<1>7. CASE i.op \in Fixed
  <2>1. i.op \notin Switches /\ i.op \notin Branches
    BY <1>7 DEF Fixed, Branches, Switches
  <2>2. p.numBytes = i.numBytes
    BY <1>1, <1>2, <1>7, <2>1 DEF Sound
  <2>3. E(p) = E(i)
    BY <1>1, <2>1, <2>2
  <2> QED BY <1>4, <2>3, Zenon DEF ExportLen, p
<1> QED BY <1>5, <1>6, <1>7 DEF Sound

\* Later instructions have higher addresses.
LEMMA PlacedRises ==
  ASSUME NEW n \in Nat, NEW t, \A j \in 1..n : Sound(t[j]), NEW at, PlacedAt(t, n, at), at[1] = 0
  PROVE  /\ \A p, q \in 1..(n + 1) : p < q => at[p] < at[q]
         /\ \A p \in 1..(n + 1) : at[p] \in Nat
<1>1. at \in [1..(n + 1) -> Int] /\ \A j \in 1..n : at[j + 1] = at[j] + ExportLen(t[j], at[j])
  BY DEF PlacedAt
<1>2. \A j \in 1..n : at[j] < at[j + 1]
  <2> SUFFICES ASSUME NEW j \in 1..n PROVE at[j] < at[j + 1]
    OBVIOUS
  <2>1. j \in 1..(n + 1)
    OBVIOUS
  <2>2. at[j] \in Int
    BY <1>1, <2>1
  <2>3. ExportLen(t[j], at[j]) \in Nat /\ ExportLen(t[j], at[j]) >= 1
    BY <2>2, SoundLen
  <2> QED BY <1>1, <2>2, <2>3
<1> DEFINE P == {d \in Nat : \A p \in 1..(n + 1) : p + d + 1 <= n + 1 => at[p] < at[p + d + 1]}
<1>3. 0 \in P
  <2> SUFFICES ASSUME NEW p \in 1..(n + 1), p + 0 + 1 <= n + 1 PROVE at[p] < at[p + 0 + 1]
    OBVIOUS
  <2>1. p \in 1..n /\ p + 0 + 1 = p + 1
    OBVIOUS
  <2> QED BY <1>2, <2>1
<1>4. ASSUME NEW d \in Nat, d \in P PROVE d + 1 \in P
  <2> SUFFICES ASSUME NEW p \in 1..(n + 1), p + (d + 1) + 1 <= n + 1
               PROVE  at[p] < at[p + (d + 1) + 1]
    OBVIOUS
  <2> DEFINE q == p + d + 1
  <2>1. q \in 1..n /\ p + (d + 1) + 1 = q + 1 /\ q <= n + 1 /\ q \in 1..(n + 1) /\ q + 1 \in 1..(n + 1)
    OBVIOUS
  <2>2. at[p] < at[q]
    BY <1>4, <2>1
  <2> HIDE DEF q
  <2>3. at[q] < at[q + 1]
    BY <1>2, <2>1
  <2>4. at[p] \in Int /\ at[q] \in Int /\ at[q + 1] \in Int
    BY <1>1, <2>1
  <2> QED BY <2>1, <2>2, <2>3, <2>4
<1>5. \A d \in Nat : d \in P
  <2> HIDE DEF P
  <2> QED BY <1>3, <1>4, SetInduction
<1>6. ASSUME NEW p \in 1..(n + 1), NEW q \in 1..(n + 1), p < q PROVE at[p] < at[q]
  <2> DEFINE d == q - p - 1
  <2>1. d \in Nat /\ p + d + 1 = q /\ q <= n + 1
    BY <1>6
  <2> HIDE DEF d
  <2>2. d \in P
    BY <1>5, <2>1
  <2> QED BY <2>1, <2>2
<1>7. ASSUME NEW p \in 1..(n + 1) PROVE at[p] \in Nat
  <2>1. 1 \in 1..(n + 1) /\ (p = 1 \/ 1 < p)
    OBVIOUS
  <2>2. at[p] \in Int /\ at[p] >= 0
    BY <1>1, <1>6, <1>7, <2>1
  <2> QED BY <2>2
<1> QED BY <1>6, <1>7

\* n instructions t at the addresses at are what the code new holds; targets are offsets.
Writes(n, t, at, new) ==
  /\ PlacedAt(t, n, at) /\ at[1] = 0
  /\ new.len = at[n + 1] /\ DOMAIN new.at = {at[j] : j \in 1..n}
  /\ \A j \in 1..n : Sound(t[j]) /\ new.at[at[j]] = Stored(t[j])
  /\ \A j \in 1..n : \A d \in DOMAIN t[j].dests : \E x \in 1..n : t[j].dests[d] = at[x] - at[j]

Numbered(n, at, new) ==
  /\ WellFormed(new) /\ Count(new) = n
  /\ \A j \in 1..(n + 1) : Number(new, at[j]) = j /\ Address(new, j) = at[j] /\ at[j] \in Nat
  /\ \A j \in 1..n : at[j] \in DOMAIN new.at

\* Instructions written one behind the other are numbered as they were.
LEMMA WrittenCode ==
  ASSUME NEW n \in Nat \ {0}, NEW t, NEW at, NEW new, Writes(n, t, at, new)
  PROVE  Numbered(n, at, new)
<1> DEFINE S == DOMAIN new.at
<1>1. /\ at \in [1..(n + 1) -> Int] /\ at[1] = 0
      /\ \A j \in 1..n : at[j + 1] = at[j] + ExportLen(t[j], at[j])
      /\ new.len = at[n + 1] /\ S = {at[j] : j \in 1..n}
      /\ \A j \in 1..n : Sound(t[j]) /\ new.at[at[j]] = Stored(t[j])
      /\ \A j \in 1..n : \A d \in DOMAIN t[j].dests : \E x \in 1..n : t[j].dests[d] = at[x] - at[j]
  BY DEF Writes, PlacedAt
<1>2. /\ \A p, q \in 1..(n + 1) : p < q => at[p] < at[q]
      /\ \A p \in 1..(n + 1) : at[p] \in Nat
  <2>1. PlacedAt(t, n, at) /\ n \in Nat
    BY DEF Writes
  <2> QED BY <1>1, <2>1, PlacedRises
<1> HIDE DEF S
<1>3. 0 \in S /\ new.len \in Nat /\ S \subseteq 0..(new.len - 1)
  <2>1. 1 \in 1..n /\ n + 1 \in 1..(n + 1)
    OBVIOUS
  <2>2. \A j \in 1..n : at[j] \in Nat /\ at[j] < at[n + 1]
    BY <1>2
  <2>3. at[n + 1] \in Nat
    BY <1>2, <2>1
  <2>4. \A j \in 1..n : at[j] \in 0..(at[n + 1] - 1)
    BY <2>2, <2>3
  <2> QED BY <1>1, <2>1, <2>3, <2>4
<1>4. ASSUME NEW j \in 1..n
      PROVE  LET i == new.at[at[j]]
                 next == at[j] + ExportLen(Parsed(i, at[j]), at[j])
             IN  /\ i.op \in Fixed \cup Switches \cup Branches
                 /\ i.wide \in BOOLEAN /\ (i.wide => WideHandled(i))
                 /\ i.dests \in Seq(Int)
                 /\ i.op \in Fixed => Len(i.dests) = 0
                 /\ i.op \in Branches => Len(i.dests) = 1
                 /\ i.op \in Switches => Len(i.dests) > 0
                 /\ \A d \in DOMAIN i.dests : at[j] + i.dests[d] \in S
                 /\ next = at[j + 1]
                 /\ next \in S \cup {new.len}
                 /\ \A b \in S : b <= at[j] \/ b >= next
  <2> DEFINE i == new.at[at[j]]
             a == at[j]
             next == a + ExportLen(Parsed(i, a), a)
  <2>1. i.op = t[j].op /\ i.wide = t[j].wide /\ i.dests = t[j].dests
    BY <1>1, StoredFields
  <2>2. j \in 1..(n + 1) /\ j + 1 \in 1..(n + 1) /\ (j + 1 \in 1..n \/ j + 1 = n + 1)
    OBVIOUS
  <2>3. a \in Nat /\ at[j + 1] \in Nat
    BY <1>2, <2>2
  <2> HIDE DEF i
  <2>4. ExportLen(Parsed(i, a), a) = ExportLen(t[j], a)
    <3>1. a \in Int
      BY <2>3
    <3> HIDE DEF a
    <3> QED BY <1>1, <2>1, <3>1, ParsedLen
  <2>5. next = at[j + 1]
    BY <1>1, <2>4
  <2>6. next \in S \cup {new.len}
    BY <1>1, <2>2, <2>5
  <2>7. \A b \in S : b <= a \/ b >= next
    <3> SUFFICES ASSUME NEW x \in 1..n PROVE at[x] <= a \/ at[x] >= at[j + 1]
      BY <1>1, <2>5
    <3>1. x \in 1..(n + 1) /\ (x < j \/ x = j \/ x = j + 1 \/ j + 1 < x)
      OBVIOUS
    <3>2. at[x] \in Nat
      BY <1>2, <3>1
    <3> QED BY <1>2, <2>2, <2>3, <3>1, <3>2
  <2>8. \A d \in DOMAIN i.dests : a + i.dests[d] \in S
    <3> SUFFICES ASSUME NEW d \in DOMAIN t[j].dests PROVE a + t[j].dests[d] \in S
      BY <2>1
    <3>1. PICK x \in 1..n : t[j].dests[d] = at[x] - a
      BY <1>1
    <3>2. at[x] \in Nat
      BY <1>2
    <3>3. a + (at[x] - a) = at[x]
      BY <2>3, <3>2
    <3> QED BY <1>1, <3>1, <3>3
  <2>9. /\ i.op \in Fixed \cup Switches \cup Branches
        /\ i.wide \in BOOLEAN /\ (i.wide => WideHandled(i))
        /\ i.dests \in Seq(Int)
        /\ i.op \in Fixed => Len(i.dests) = 0
        /\ i.op \in Branches => Len(i.dests) = 1
        /\ i.op \in Switches => Len(i.dests) > 0
    BY <1>1, <2>1 DEF Sound, WideHandled
  <2> QED BY <2>5, <2>6, <2>7, <2>8, <2>9 DEF i
<1>5. WellFormed(new)
  <2> SUFFICES ASSUME NEW a \in S
               PROVE  LET i == new.at[a]
                          next == a + ExportLen(Parsed(i, a), a)
                      IN  /\ i.op \in Fixed \cup Switches \cup Branches
                          /\ i.wide \in BOOLEAN /\ (i.wide => WideHandled(i))
                          /\ i.dests \in Seq(Int)
                          /\ i.op \in Fixed => Len(i.dests) = 0
                          /\ i.op \in Branches => Len(i.dests) = 1
                          /\ i.op \in Switches => Len(i.dests) > 0
                          /\ \A d \in DOMAIN i.dests : a + i.dests[d] \in S
                          /\ next \in S \cup {new.len}
                          /\ \A b \in S : b <= a \/ b >= next
    BY <1>3, Zenon DEF WellFormed, S
  <2>1. PICK j \in 1..n : a = at[j]
    BY <1>1
  <2> QED BY <1>4, <2>1, Zenon
<1>6. \A j \in 1..n : Behind(new, at[j]) = at[j + 1] /\ at[j] \in S
  BY <1>1, <1>4 DEF Behind
<1> DEFINE P == {d \in Nat : d + 1 <= n + 1 => Number(new, at[d + 1]) = d + 1}
<1>7. 0 \in P
  BY <1>1, <1>5, NumberFacts
<1>8. ASSUME NEW d \in Nat, d \in P PROVE d + 1 \in P
  <2> SUFFICES ASSUME (d + 1) + 1 <= n + 1 PROVE Number(new, at[(d + 1) + 1]) = (d + 1) + 1
    OBVIOUS
  <2>1. d + 1 \in 1..n /\ d + 1 <= n + 1
    OBVIOUS
  <2>2. Number(new, at[d + 1]) = d + 1
    BY <1>8, <2>1
  <2>3. Behind(new, at[d + 1]) = at[(d + 1) + 1] /\ at[d + 1] \in DOMAIN new.at
    BY <1>6, <2>1 DEF S
  <2>4. Number(new, Behind(new, at[d + 1])) = Number(new, at[d + 1]) + 1
    BY <1>5, <2>3, BehindFacts
  <2> QED BY <2>2, <2>3, <2>4
<1>9. \A d \in Nat : d \in P
  <2> HIDE DEF P
  <2> QED BY <1>7, <1>8, SetInduction
<1>10. ASSUME NEW j \in 1..(n + 1) PROVE Number(new, at[j]) = j
  <2>1. j - 1 \in Nat /\ (j - 1) + 1 = j /\ j <= n + 1
    OBVIOUS
  <2>2. j - 1 \in P
    BY <1>9, <2>1
  <2> QED BY <2>1, <2>2
<1>11. Count(new) = n
  <2>1. Number(new, new.len) = Count(new) + 1 /\ Count(new) \in Nat
    BY <1>5, NumberFacts
  <2>2. Number(new, new.len) = n + 1
    <3>1. n + 1 \in 1..(n + 1)
      OBVIOUS
    <3> QED BY <1>1, <1>10, <3>1
  <2> QED BY <2>1, <2>2
<1>12. ASSUME NEW j \in 1..(n + 1) PROVE Address(new, j) = at[j]
  <2>1. at[j] \in Places(new)
    <3>1. j \in 1..n \/ j = n + 1
      OBVIOUS
    <3> QED BY <1>1, <1>6, <3>1 DEF Places, S
  <2>2. Address(new, Number(new, at[j])) = at[j]
    BY <1>5, <2>1, AddressFacts
  <2> QED BY <1>10, <2>2
<1> QED BY <1>2, <1>5, <1>6, <1>10, <1>11, <1>12 DEF Numbered, S

\* An instruction with all its fields.
Instr(i) == Sound(i) /\ {"op", "wide", "idx", "val", "dests", "numBytes"} \subseteq DOMAIN i

Retargeted(i, ds) == [i EXCEPT !.dests = ds]

\* An instruction with other targets, as many as before, is as long as before.
LEMMA RetargetedFacts ==
  ASSUME NEW i, Instr(i), NEW ds \in [DOMAIN i.dests -> Int]
  PROVE  /\ Instr(Retargeted(i, ds)) /\ Retargeted(i, ds).dests = ds
         /\ Words(Retargeted(i, ds)) = Words(i)
         /\ \A a \in Int : ExportLen(Retargeted(i, ds), a) = ExportLen(i, a)
<1> DEFINE r == Retargeted(i, ds)
           l == Len(i.dests)
<1>1. /\ r.op = i.op /\ r.wide = i.wide /\ r.numBytes = i.numBytes /\ r.dests = ds
      /\ DOMAIN r = DOMAIN i /\ Words(r) = Words(i)
  BY DEF Instr, Retargeted, Words
<1>2. l \in Nat /\ DOMAIN i.dests = 1..l
  BY LenProperties DEF Instr, Sound
<1>3. ds \in Seq(Int) /\ Len(ds) = l
  <2>1. ds \in [1..l -> Int]
    BY <1>2
  <2> HIDE DEF l
  <2> QED BY <1>2, <2>1, IsSeq
<1> HIDE DEF r
<1>4. Len(r.dests) = Len(i.dests)
  BY <1>1, <1>3
<1>5. ExtraSz(r) = ExtraSz(i) /\ (WideHandled(r) <=> WideHandled(i))
  BY <1>1 DEF ExtraSz, WideHandled
<1>6. Sound(r)
  BY <1>1, <1>3, <1>4, <1>5 DEF Sound, Instr
<1>7. ASSUME NEW a \in Int PROVE ExportLen(r, a) = ExportLen(i, a)
  <2> DEFINE E(j) == CASE j.op \in Switches -> Padding(a) + TableSz(j)
                       [] j.op \in Branches -> BranchSz(j)
                       [] OTHER -> j.numBytes
  <2>1. Opcode(r) = Opcode(i) /\ TableSz(r) = TableSz(i) /\ BranchSz(r) = BranchSz(i)
    BY <1>1, <1>4 DEF Opcode, TableSz, BranchSz
  <2>2. E(r) = E(i)
    BY <1>1, <2>1
  <2> QED BY <2>1, <2>2, Zenon DEF ExportLen
<1> QED BY <1>1, <1>6, <1>7 DEF Instr, r

\* The targets of the instructions s are blocks that start with the targets in code.
Refers(code, l, f, s) ==
  /\ Entries(s, Count(code))
  /\ \A n \in 1..Count(code) :
       /\ Instr(s[n]) /\ DOMAIN s[n].dests = DOMAIN TargetsOf(code, n)
       /\ \A j \in DOMAIN s[n].dests :
            s[n].dests[j] \in 1..l /\ f[s[n].dests[j]] = TargetsOf(code, n)[j]

\* The targets of an instruction are the numbers of the instructions at the
\* addresses it has as destinations.
LEMMA TargetsOfFacts ==
  ASSUME NEW code, WellFormed(code), NEW n \in 1..Count(code)
  PROVE  /\ DOMAIN TargetsOf(code, n) = DOMAIN Decoded(code, n).dests
         /\ \A j \in DOMAIN TargetsOf(code, n) :
              /\ TargetsOf(code, n)[j] = Number(code, Decoded(code, n).dests[j])
              /\ TargetsOf(code, n)[j] \in 1..Count(code)
              /\ Decoded(code, n).dests[j] \in DOMAIN code.at
         /\ TargetsOf(code, n) = [j \in DOMAIN TargetsOf(code, n) |-> TargetsOf(code, n)[j]]
<1> DEFINE a == Address(code, n)
           ds == code.at[a].dests
<1>1. a \in DOMAIN code.at
  BY AddressFacts
<1>2. /\ Decoded(code, n).dests = [j \in DOMAIN ds |-> a + ds[j]]
  BY DEF Decoded, Parsed
<1>3. TargetsOf(code, n) = [j \in DOMAIN ds |-> Number(code, a + ds[j])]
  BY DEF TargetsOf
<1>4. \A j \in DOMAIN ds : a + ds[j] \in DOMAIN code.at
  BY <1>1, Zenon DEF WellFormed
<1>5. \A b \in DOMAIN code.at : Number(code, b) \in 1..Count(code)
  BY AddressFacts
<1> HIDE DEF a, ds
<1> QED BY <1>2, <1>3, <1>4, <1>5

\* bbFinalizeChanges makes of the block that a target is the distance to its
\* address, and changes no length.
LEMMA FinalizedFacts ==
  ASSUME NEW code, WellFormed(code), NEW l, NEW f, Cuts(code, l, f),
         NEW s, Refers(code, l, f, s), NEW bs, BlocksOf(bs, l, f, s),
         NEW at, at = Place(s, 0), NEW n \in 1..Count(code)
  PROVE  /\ Entries(Finalized(bs), Count(code))
         /\ Instr(Finalized(bs)[n]) /\ DOMAIN Finalized(bs)[n].dests = DOMAIN TargetsOf(code, n)
         /\ \A j \in DOMAIN TargetsOf(code, n) :
              Finalized(bs)[n].dests[j] = at[TargetsOf(code, n)[j]] - at[n]
         /\ \A a \in Int : ExportLen(Finalized(bs)[n], a) = ExportLen(s[n], a)
         /\ Words(Finalized(bs)[n]) = Words(s[n])
<1> DEFINE N == Count(code)
           t == Finalized(bs)
           ds == [j \in DOMAIN s[n].dests |-> BlockAddr(bs, s[n].dests[j]) - at[n]]
<1>1. Entries(s, N) /\ N \in Nat /\ DOMAIN s = 1..N /\ \A j \in 1..N : Sound(s[j]) /\ Instr(s[j])
  <2>1. Entries(s, N) /\ N \in Nat /\ \A j \in 1..N : Sound(s[j]) /\ Instr(s[j])
    BY NumberFacts DEF Refers, Instr
  <2> QED BY <2>1, EntriesSeq
<1>2. InstrsOf(bs) = s
  BY <1>1, Joined
<1>3. t = [i \in DOMAIN s |-> [s[i] EXCEPT !.dests = [j \in DOMAIN @ |-> BlockAddr(bs, @[j]) - at[i]]]]
  BY <1>2 DEF Finalized
<1> HIDE DEF t
<1>4. Entries(t, N)
  BY <1>1, <1>3 DEF Entries
<1>5. t[n] = Retargeted(s[n], ds)
  BY <1>1, <1>3 DEF Retargeted
<1>6. \A j \in 1..(N + 1) : at[j] \in Nat
  BY <1>1, PlaceExists
<1>7. ASSUME NEW j \in DOMAIN s[n].dests
      PROVE  ds[j] = at[TargetsOf(code, n)[j]] - at[n] /\ ds[j] \in Int
  <2>1. s[n].dests[j] \in 1..l /\ f[s[n].dests[j]] = TargetsOf(code, n)[j]
        /\ j \in DOMAIN TargetsOf(code, n)
    BY DEF Refers
  <2>2. BlockAddr(bs, s[n].dests[j]) = at[f[s[n].dests[j]]]
    BY <1>1, <2>1, BlockAddrIs
  <2>3. TargetsOf(code, n)[j] \in 1..(N + 1) /\ n \in 1..(N + 1)
    BY <1>1, <2>1, TargetsOfFacts
  <2>4. ds[j] = at[TargetsOf(code, n)[j]] - at[n]
    BY <2>1, <2>2
  <2>5. at[TargetsOf(code, n)[j]] \in Nat /\ at[n] \in Nat
    BY <1>6, <2>3
  <2> QED BY <2>4, <2>5
<1>8. ds \in [DOMAIN s[n].dests -> Int]
  <2>1. ds = [j \in DOMAIN s[n].dests |-> ds[j]]
    OBVIOUS
  <2> HIDE DEF ds
  <2> QED BY <1>7, <2>1
<1>9. DOMAIN s[n].dests = DOMAIN TargetsOf(code, n)
  BY DEF Refers
<1>10. DOMAIN ds = DOMAIN s[n].dests
  OBVIOUS
<1> HIDE DEF ds
<1>11. /\ Instr(t[n]) /\ t[n].dests = ds /\ Words(t[n]) = Words(s[n])
       /\ \A a \in Int : ExportLen(t[n], a) = ExportLen(s[n], a)
  BY <1>1, <1>5, <1>8, RetargetedFacts
<1> QED BY <1>4, <1>7, <1>9, <1>10, <1>11 DEF t

SameTargets(old, new) ==
  /\ Count(new) = Count(old)
  /\ \A n \in 1..Count(old) : TargetsOf(new, n) = TargetsOf(old, n)

\* bbExport puts each instruction at its place.
LEMMA ExportIs ==
  ASSUME NEW bs, NEW at, at = Place(Finalized(bs), 0)
  PROVE  LET t == Finalized(bs)
         IN  /\ bbExport(bs).len = End(t, 0)
             /\ bbExport(bs).at =
                  [pc \in {at[n] : n \in DOMAIN t} |-> Stored(t[CHOOSE n \in DOMAIN t : at[n] = pc])]
BY DEF bbExport, Stored

\* bbExport writes code in which every instruction has its number and its
\* targets.
LEMMA ExportFacts ==
  ASSUME NEW code, WellFormed(code), NEW l, NEW f, Cuts(code, l, f),
         NEW s, Refers(code, l, f, s), NEW bs, BlocksOf(bs, l, f, s),
         NEW at, at = Place(s, 0)
  PROVE  /\ Numbered(Count(code), at, bbExport(bs)) /\ SameTargets(code, bbExport(bs))
         /\ \A n \in 1..Count(code) :
              Words(bbExport(bs).at[Address(bbExport(bs), n)]) = Words(s[n])
<1> DEFINE N == Count(code)
           t == Finalized(bs)
           new == bbExport(bs)
<1>1. /\ Entries(s, N) /\ N \in Nat \ {0} /\ \A n \in 1..N : Sound(s[n])
  <2>1. N \in Nat /\ N > 0
    BY NumberFacts, FirstBlock
  <2> QED BY <2>1 DEF Refers, Instr
<1>2. PlacedAt(s, N, at) /\ at[1] = 0
  <2>1. 0 \in Nat
    OBVIOUS
  <2> QED BY <1>1, <2>1, PlaceExists
<1>3. Entries(t, N) /\ Len(t) = N /\ DOMAIN t = 1..N
  <2>1. 1 \in 1..N
    BY <1>1
  <2>2. Entries(t, N)
    BY <2>1, FinalizedFacts
  <2> HIDE DEF t
  <2> QED BY <2>2, EntriesSeq
<1>4. \A n \in 1..N :
        /\ Instr(t[n]) /\ Sound(t[n]) /\ DOMAIN t[n].dests = DOMAIN TargetsOf(code, n)
        /\ \A j \in DOMAIN TargetsOf(code, n) : t[n].dests[j] = at[TargetsOf(code, n)[j]] - at[n]
        /\ \A a \in Int : ExportLen(t[n], a) = ExportLen(s[n], a)
        /\ Words(t[n]) = Words(s[n])
  BY FinalizedFacts DEF Instr
<1> HIDE DEF t
<1>5. PlacedAt(t, N, at)
  <2>1. at \in [1..(N + 1) -> Int] /\ \A n \in 1..N : at[n + 1] = at[n] + ExportLen(s[n], at[n])
    BY <1>2 DEF PlacedAt
  <2>2. \A n \in 1..N : at[n] \in Int
    <3>1. \A n \in 1..N : n \in 1..(N + 1)
      BY <1>1
    <3> QED BY <2>1, <3>1
  <2> QED BY <1>4, <2>1, <2>2 DEF PlacedAt
<1>6. Place(t, 0) = at /\ End(t, 0) = at[N + 1]
  BY <1>1, <1>2, <1>3, <1>5, PlaceIs
<1>7. /\ \A p, q \in 1..(N + 1) : p < q => at[p] < at[q]
      /\ \A p \in 1..(N + 1) : at[p] \in Nat
  BY <1>1, <1>2, <1>4, <1>5, PlacedRises
<1>8. /\ new.len = at[N + 1]
      /\ new.at = [pc \in {at[n] : n \in DOMAIN t} |-> Stored(t[CHOOSE n \in DOMAIN t : at[n] = pc])]
  BY <1>6, ExportIs DEF t
<1> HIDE DEF new
<1>9. DOMAIN new.at = {at[n] : n \in 1..N}
  BY <1>3, <1>8
<1>10. ASSUME NEW n \in 1..N PROVE new.at[at[n]] = Stored(t[n])
  <2> DEFINE i == CHOOSE i \in DOMAIN t : at[i] = at[n]
  <2>1. i \in 1..N /\ at[i] = at[n]
    BY <1>3
  <2> HIDE DEF i
  <2>2. i \in 1..(N + 1) /\ n \in 1..(N + 1) /\ (i < n \/ i = n \/ n < i)
    BY <1>1, <2>1
  <2>3. i = n
    BY <1>7, <2>1, <2>2
  <2>4. at[n] \in {at[j] : j \in DOMAIN t}
    BY <1>3
  <2>5. new.at[at[n]] = Stored(t[i])
    BY <1>8, <2>4 DEF i
  <2> QED BY <2>3, <2>5
<1>11. ASSUME NEW n \in 1..N, NEW j \in DOMAIN t[n].dests
       PROVE  TargetsOf(code, n)[j] \in 1..N /\ t[n].dests[j] = at[TargetsOf(code, n)[j]] - at[n]
  BY <1>4, TargetsOfFacts
<1>12. Numbered(N, at, new)
  <2> HIDE DEF N
  <2>2. \A j \in 1..N : Sound(t[j]) /\ new.at[at[j]] = Stored(t[j])
    BY <1>4, <1>10
  <2>3. \A j \in 1..N : \A d \in DOMAIN t[j].dests : \E x \in 1..N : t[j].dests[d] = at[x] - at[j]
    BY <1>11
  <2>1. Writes(N, t, at, new)
    BY <1>2, <1>5, <1>8, <1>9, <2>2, <2>3 DEF Writes
  <2> QED BY <1>1, <2>1, WrittenCode
<1>13. ASSUME NEW n \in 1..N PROVE TargetsOf(new, n) = TargetsOf(code, n)
  <2>1. n \in 1..(N + 1) /\ Address(new, n) = at[n] /\ at[n] \in Nat
    BY <1>1, <1>12 DEF Numbered
  <2>2. new.at[at[n]].dests = t[n].dests
    BY <1>10, StoredFields
  <2>3. TargetsOf(new, n) = [j \in DOMAIN t[n].dests |-> Number(new, at[n] + t[n].dests[j])]
    BY <2>1, <2>2 DEF TargetsOf
  <2>4. ASSUME NEW j \in DOMAIN t[n].dests
        PROVE  Number(new, at[n] + t[n].dests[j]) = TargetsOf(code, n)[j]
    <3> DEFINE x == TargetsOf(code, n)[j]
    <3>1. x \in 1..N /\ t[n].dests[j] = at[x] - at[n]
      BY <1>11
    <3> HIDE DEF x
    <3>2. x \in 1..(N + 1) /\ at[x] \in Nat
      BY <1>1, <1>7, <3>1
    <3>3. at[n] + (at[x] - at[n]) = at[x]
      BY <2>1, <3>2
    <3>4. Number(new, at[x]) = x
      BY <1>12, <3>2 DEF Numbered
    <3> QED BY <3>1, <3>3, <3>4 DEF x
  <2>5. TargetsOf(code, n) = [j \in DOMAIN TargetsOf(code, n) |-> TargetsOf(code, n)[j]]
    BY TargetsOfFacts
  <2>6. DOMAIN t[n].dests = DOMAIN TargetsOf(code, n)
    BY <1>4
  <2> QED BY <2>3, <2>4, <2>5, <2>6
<1>14. SameTargets(code, new)
  BY <1>12, <1>13 DEF SameTargets, Numbered
<1>15. ASSUME NEW n \in 1..N PROVE Words(new.at[Address(new, n)]) = Words(s[n])
  <2>1. n \in 1..(N + 1)
    BY <1>1
  <2>2. Address(new, n) = at[n]
    BY <1>12, <2>1 DEF Numbered
  <2> QED BY <1>4, <1>10, <2>2, StoredFields
<1> QED BY <1>12, <1>14, <1>15 DEF new
-----------------------------------------------------------------------------
(* Targets become blocks. *)

Label(code, a) == IF a = code.len THEN 1 ELSE Number(code, a)

\* bbPrvFind finds the block that starts at an address, and the empty one
\* for the end of the code.
LEMMA ExactFacts ==
  ASSUME WellFormed(gCode), NEW l, NEW f, BlocksCut(gCode, bbList, l, f), NEW a \in Heads(bbList)
  PROVE  Exact(a) \in 1..l /\ Exact(a) # 0 /\ f[Exact(a)] = Label(gCode, a)
<1> DEFINE S == {j \in DOMAIN bbList : bbList[j].initialAddr = a}
           i == Exact(a)
           N == Count(gCode)
<1>1. /\ l \in Nat \ {0} /\ N \in Nat /\ DOMAIN bbList = 1..l
      /\ \A j \in 1..l : bbList[j] = CutBlock(gCode, f[j], f[j + 1]) /\ (f[j] = f[j + 1] => f[j] = 1)
  BY NumberFacts, EntriesSeq DEF BlocksCut, Cuts
<1>2. /\ \A j \in 1..(l + 1) : f[j] \in Nat /\ f[j] >= 1 /\ f[j] <= N + 1
      /\ \A j \in 1..l : f[j] <= f[j + 1] /\ j + 1 \in 1..(l + 1) /\ j \in 1..(l + 1)
  BY CutsTypes DEF BlocksCut
<1>3. S \subseteq Nat \ {0} /\ S # {} /\ S \subseteq 1..l
  BY <1>1 DEF Heads
<1>4. i \in S
  <2>1. i = FirstOf(S)
    BY DEF Exact
  <2> HIDE DEF S, i
  <2> QED BY <1>3, <2>1, FirstOfFacts
<1>5. i \in 1..l /\ i # 0 /\ bbList[i].initialAddr = a
  <2> HIDE DEF i
  <2> QED BY <1>3, <1>4
<1> HIDE DEF i, S, N
<1>6. a = IF f[i] = f[i + 1] THEN gCode.len ELSE Address(gCode, f[i])
  BY <1>1, <1>5, CutBlockFields
<1>7. f[i] = Label(gCode, a)
  <2>1. CASE f[i] = f[i + 1]
    BY <1>1, <1>5, <1>6, <2>1 DEF Label
  <2>2. CASE f[i] # f[i + 1]
    <3>1. f[i] \in 1..N
      BY <1>1, <1>2, <1>5, <2>2
    <3>2. f[i] \in 1..(N + 1)
      BY <1>1, <3>1
    <3>3. a \in DOMAIN gCode.at /\ Number(gCode, a) = f[i]
      BY <1>6, <2>2, <3>1, <3>2, AddressFacts DEF N
    <3>4. a # gCode.len
      BY <3>3 DEF WellFormed
    <3> QED BY <3>3, <3>4 DEF Label
  <2> QED BY <2>1, <2>2
<1> QED BY <1>5, <1>7 DEF i

\* The entries that have been added.
Listed(xs, excs, n) ==
  /\ Entries(xs, n)
  /\ \A e \in 1..n : xs[e] = [start |-> excs[e].start, end |-> excs[e].end, handler |-> excs[e].handler]

\* An entry refers to blocks.
RefersTo(code, l, f, x, e) ==
  /\ {"start", "end", "handler"} \subseteq DOMAIN x
  /\ {x.start, x.end, x.handler} \subseteq 1..l
  /\ f[x.start] = Number(code, e.start) /\ f[x.handler] = Number(code, e.handler)
  /\ f[x.end] = Label(code, e.end)

ResolvedBy(code, bs, xs, excs, l, f, s) ==
  /\ Cuts(code, l, f) /\ BlocksOf(bs, l, f, s) /\ Refers(code, l, f, s)
  /\ \A n \in 1..Count(code) : Words(s[n]) = Words(Decoded(code, n))
  /\ \A e \in DOMAIN excs : RefersTo(code, l, f, xs[e], excs[e])

Resolved(code, bs, xs, excs) == \E l, f, s : ResolvedBy(code, bs, xs, excs, l, f, s)

\* Entries of a method are about its code.
Entry(code, e) ==
  {e.start, e.handler} \subseteq DOMAIN code.at /\ e.end \in DOMAIN code.at \cup {code.len}

\* An instruction has the fields that the passes and the export look at.
LEMMA DecodedInstr ==
  ASSUME NEW code, WellFormed(code), NEW n \in 1..Count(code)
  PROVE  Instr(Decoded(code, n))
<1> DEFINE a == Address(code, n)
<1>1. a \in DOMAIN code.at
  BY AddressFacts
<1>2. Sound(Decoded(code, n))
  BY <1>1, ParsedSound DEF Decoded
<1>3. {"op", "wide", "idx", "val", "dests", "numBytes"} \subseteq DOMAIN Decoded(code, n)
  BY DEF Decoded, Parsed
<1> QED BY <1>2, <1>3 DEF Instr

\* bbFinishLoading makes of an address the block that starts with the
\* instruction there.
LEMMA ResolveFacts ==
  ASSUME WellFormed(gCode), NEW l, NEW f, BlocksCut(gCode, bbList, l, f),
         NEW n \in 1..Count(gCode), Range(Decoded(gCode, n).dests) \subseteq Heads(bbList)
  PROVE  /\ Instr(Resolve(Decoded(gCode, n)))
         /\ Words(Resolve(Decoded(gCode, n))) = Words(Decoded(gCode, n))
         /\ DOMAIN Resolve(Decoded(gCode, n)).dests = DOMAIN TargetsOf(gCode, n)
         /\ \A j \in DOMAIN Resolve(Decoded(gCode, n)).dests :
              /\ Resolve(Decoded(gCode, n)).dests[j] \in 1..l
              /\ f[Resolve(Decoded(gCode, n)).dests[j]] = TargetsOf(gCode, n)[j]
<1> DEFINE i == Decoded(gCode, n)
           ds == [j \in DOMAIN i.dests |-> Exact(i.dests[j])]
<1>1. Instr(i)
  BY DecodedInstr
<1>2. /\ DOMAIN TargetsOf(gCode, n) = DOMAIN i.dests
      /\ \A j \in DOMAIN i.dests : /\ TargetsOf(gCode, n)[j] = Number(gCode, i.dests[j])
                                   /\ i.dests[j] \in DOMAIN gCode.at
  BY TargetsOfFacts
<1> HIDE DEF i
<1>3. \A j \in DOMAIN i.dests : i.dests[j] \in Heads(bbList)
  BY DEF Range, i
<1>4. \A j \in DOMAIN i.dests : i.dests[j] # gCode.len
  BY <1>2 DEF WellFormed
<1>5. \A j \in DOMAIN i.dests : Exact(i.dests[j]) \in 1..l /\ f[Exact(i.dests[j])] = TargetsOf(gCode, n)[j]
  BY <1>2, <1>3, <1>4, ExactFacts DEF Label
<1>6. ds \in [DOMAIN i.dests -> Int]
  BY <1>5
<1>7. Instr(Retargeted(i, ds)) /\ Retargeted(i, ds).dests = ds /\ Words(Retargeted(i, ds)) = Words(i)
  <2> HIDE DEF ds
  <2> QED BY <1>1, <1>6, RetargetedFacts
<1>8. Resolve(i) = Retargeted(i, ds)
  BY DEF Resolve, Retargeted
<1> QED BY <1>2, <1>5, <1>7, <1>8 DEF i

\* When the queue is empty, all targets are starts of blocks: bbFinishLoading
\* finds each of them and the converter does not end.
LEMMA FinishStep ==
  ASSUME WellFormed(gCode), NEW l, NEW f, BlocksCut(gCode, bbList, l, f), Q = <<>>,
         Reached(gCode, bbList, Q), NEW excs, NEW n \in Nat, DOMAIN excs = 1..n, Listed(excList, excs, n),
         \A e \in DOMAIN excs : /\ Entry(gCode, excs[e])
                                /\ {excs[e].start, excs[e].end, excs[e].handler} \subseteq Heads(bbList),
         bbFinishLoading
  PROVE  exit' = exit /\ Resolved(gCode, bbList', excList', excs)
<1> DEFINE N == Count(gCode)
           s == [i \in 1..N |-> Resolve(Decoded(gCode, i))]
<1>1. /\ l \in Nat \ {0} /\ N \in Nat /\ DOMAIN bbList = 1..l /\ Cuts(gCode, l, f)
      /\ \A j \in 1..l : bbList[j] = CutBlock(gCode, f[j], f[j + 1])
  BY NumberFacts, EntriesSeq DEF BlocksCut, Cuts
<1>2. /\ \A j \in 1..(l + 1) : f[j] \in Nat /\ f[j] >= 1 /\ f[j] <= N + 1
      /\ \A j \in 1..l : f[j] <= f[j + 1] /\ j + 1 \in 1..(l + 1) /\ j \in 1..(l + 1)
  BY <1>1, CutsTypes
<1>3. \A i \in 1..N : Range(Decoded(gCode, i).dests) \subseteq Heads(bbList)
  <2>1. Range(Q) = {}
    BY DEF Range
  <2> QED BY <2>1 DEF Reached, Known
<1>4. ASSUME NEW j \in 1..l
      PROVE  LET p == f[j]
                 q == f[j + 1]
                 is == bbList[j].instrs
             IN  /\ q - p \in Nat /\ DOMAIN is = 1..(q - p) /\ "instrs" \in DOMAIN bbList[j]
                 /\ \A i \in 1..(q - p) : is[i] = Decoded(gCode, p + i - 1) /\ p + i - 1 \in 1..N
  <2> DEFINE p == f[j]
             q == f[j + 1]
             is == bbList[j].instrs
  <2>1. p \in Nat /\ q \in Nat /\ p >= 1 /\ p <= q /\ q <= N + 1 /\ q - p \in Nat
    BY <1>2
  <2>2. is = Slice(gCode, p, q) /\ "instrs" \in DOMAIN bbList[j]
    BY <1>1 DEF CutBlock
  <2> HIDE DEF p, q, is
  <2>3. Entries(is, q - p) /\ \A i \in 1..(q - p) : is[i] = Decoded(gCode, p + i - 1)
    <3>1. /\ Entries(Slice(gCode, p, q), q - p)
          /\ \A i \in 1..(q - p) : Slice(gCode, p, q)[i] = Decoded(gCode, p + i - 1)
      <4>1. p \in Int /\ q \in Int
        BY <2>1
      <4> QED BY <2>1, <4>1, SliceEntries
    <3> QED BY <2>2, <3>1
  <2>4. DOMAIN is = 1..(q - p)
    BY <2>1, <2>3, EntriesSeq
  <2>5. \A i \in 1..(q - p) : p + i - 1 \in 1..N
    BY <1>1, <2>1
  <2> QED BY <2>1, <2>2, <2>3, <2>4, <2>5 DEF p, q, is
<1>5. ~Unresolved
  <2>1. ASSUME NEW j \in DOMAIN bbList, NEW i \in Range(bbList[j].instrs), NEW d \in Range(i.dests)
        PROVE  Exact(d) # 0
    <3>1. PICK x \in DOMAIN bbList[j].instrs : i = bbList[j].instrs[x]
      BY <2>1 DEF Range
    <3>2. \E y \in 1..N : i = Decoded(gCode, y)
      BY <1>1, <1>4, <3>1
    <3>3. d \in Heads(bbList)
      BY <1>3, <3>2
    <3> QED BY <3>3, ExactFacts
  <2>2. ASSUME NEW e \in Range(excList), NEW a \in {e.start, e.end, e.handler} PROVE Exact(a) # 0
    <3>1. DOMAIN excList = 1..n
      BY EntriesSeq DEF Listed
    <3>2. PICK x \in 1..n : e = excList[x]
      BY <3>1 DEF Range
    <3>3. a \in {excs[x].start, excs[x].end, excs[x].handler}
      <4>1. excList[x] = [start |-> excs[x].start, end |-> excs[x].end, handler |-> excs[x].handler]
        BY DEF Listed
      <4>2. e.start = excs[x].start /\ e.end = excs[x].end /\ e.handler = excs[x].handler
        BY <3>2, <4>1
      <4> QED BY <2>2, <4>2
    <3>4. a \in Heads(bbList)
      BY <3>3
    <3> QED BY <3>4, ExactFacts
  <2> QED BY <2>1, <2>2 DEF Unresolved
<1>6. /\ exit' = exit
      /\ bbList' = [j \in DOMAIN bbList |-> [bbList[j] EXCEPT !.instrs =
           [i \in DOMAIN @ |-> Resolve(@[i])]]]
      /\ excList' = [j \in DOMAIN excList |-> [x \in DOMAIN excList[j] |-> Exact(excList[j][x])]]
  BY <1>5, Zenon DEF bbFinishLoading
<1>7. \A i \in 1..N :
        /\ Words(s[i]) = Words(Decoded(gCode, i))
        /\ Instr(s[i]) /\ DOMAIN s[i].dests = DOMAIN TargetsOf(gCode, i)
        /\ \A j \in DOMAIN s[i].dests :
             s[i].dests[j] \in 1..l /\ f[s[i].dests[j]] = TargetsOf(gCode, i)[j]
  BY <1>3, ResolveFacts
<1>8. Entries(s, N)
  BY <1>1 DEF Entries
<1>9. Refers(gCode, l, f, s)
  BY <1>7, <1>8 DEF Refers
<1>10. BlocksOf(bbList', l, f, s)
  <2>1. bbList' = [j \in 1..l |-> [bbList[j] EXCEPT !.instrs =
           [i \in DOMAIN @ |-> Resolve(@[i])]]]
    BY <1>1, <1>6
  <2>2. Entries(bbList', l)
    BY <1>1, <2>1 DEF Entries
  <2>3. ASSUME NEW j \in 1..l
        PROVE  "instrs" \in DOMAIN bbList'[j] /\ bbList'[j].instrs = Part(s, f[j], f[j + 1])
    <3> DEFINE p == f[j]
               q == f[j + 1]
               is == bbList[j].instrs
               new == [i \in DOMAIN is |-> Resolve(is[i])]
    <3>1. /\ q - p \in Nat /\ DOMAIN is = 1..(q - p) /\ "instrs" \in DOMAIN bbList[j]
          /\ \A i \in 1..(q - p) : is[i] = Decoded(gCode, p + i - 1) /\ p + i - 1 \in 1..N
      BY <1>4
    <3>2. bbList'[j] = [bbList[j] EXCEPT !.instrs = new]
      BY <2>1
    <3> HIDE DEF new
    <3>3. "instrs" \in DOMAIN bbList'[j] /\ bbList'[j].instrs = new
      BY <3>1, <3>2
    <3>4. new = [i \in 1..(q - p) |-> Resolve(Decoded(gCode, p + i - 1))]
      <4> HIDE DEF is, p, q
      <4> QED BY <3>1 DEF new
    <3>5. new = Part(s, p, q)
      <4> HIDE DEF is, p, q
      <4>1. \A i \in 1..(q - p) : s[p + i - 1] = Resolve(Decoded(gCode, p + i - 1))
        BY <3>1
      <4> HIDE DEF s
      <4> QED BY <3>4, <4>1 DEF Part
    <3> QED BY <3>3, <3>5
  <2> QED BY <2>2, <2>3 DEF BlocksOf
<1>11. ASSUME NEW e \in DOMAIN excs PROVE RefersTo(gCode, l, f, excList'[e], excs[e])
  <2> DEFINE x == excList'[e]
             w == excs[e]
  <2>1. e \in DOMAIN excList /\ excList[e] = [start |-> w.start, end |-> w.end, handler |-> w.handler]
    <3>1. DOMAIN excList = 1..n
      BY EntriesSeq DEF Listed
    <3> QED BY <3>1 DEF Listed
  <2>2. x = [y \in DOMAIN excList[e] |-> Exact(excList[e][y])]
    BY <1>6, <2>1
  <2>3. /\ {"start", "end", "handler"} \subseteq DOMAIN x
        /\ x.start = Exact(w.start) /\ x.end = Exact(w.end) /\ x.handler = Exact(w.handler)
    BY <2>1, <2>2
  <2>4. \A a \in {w.start, w.end, w.handler} : Exact(a) \in 1..l /\ f[Exact(a)] = Label(gCode, a)
    BY ExactFacts
  <2>5. w.start # gCode.len /\ w.handler # gCode.len
    BY DEF Entry, WellFormed
  <2> HIDE DEF x, w
  <2> QED BY <2>3, <2>4, <2>5 DEF RefersTo, Label, x, w
<1> HIDE DEF s
<1>12. ResolvedBy(gCode, bbList', excList', excs, l, f, s)
  BY <1>1, <1>7, <1>9, <1>10, <1>11 DEF ResolvedBy
<1> QED BY <1>6, <1>12 DEF Resolved
-----------------------------------------------------------------------------
(* A pass over the code. *)

\* A pass changes the constants of an instruction and how they are held.
LEMMA OptimizeKeeps ==
  ASSUME NEW i, Instr(i)
  PROVE  Instr(Optimize(i)) /\ Optimize(i).dests = i.dests
<1> DEFINE raw == [i EXCEPT !.op = "push_raw", !.numBytes = 4, !.idx = 0, !.val = <<Const(c, i.idx).val>>]
           local == [i EXCEPT !.wide = TRUE, !.numBytes = 3, !.idx = 0, !.val = HandleLocals(i)]
<1>1. CASE i.op \in {"ldc", "ldc_w"}
  <2>1. /\ raw.op = "push_raw" /\ raw.numBytes = 4 /\ raw.wide = i.wide /\ raw.dests = i.dests
        /\ DOMAIN raw = DOMAIN i
    BY DEF Instr
  <2>2. i.wide = FALSE /\ i.op \in Fixed /\ Len(i.dests) = 0 /\ i.dests \in Seq(Int)
    BY <1>1 DEF Instr, Sound, WideHandled, Fixed
  <2>3. Optimize(i) \in {i, raw}
    BY <1>1 DEF Optimize, Accesses, Access
  <2> HIDE DEF raw
  <2>4. Sound(raw)
    BY <2>1, <2>2 DEF Sound, ExtraSz, Fixed, Branches, Switches
  <2> QED BY <2>1, <2>3, <2>4 DEF Instr
<1>2. CASE i.op \in Accesses /\ ~i.wide
  <2>1. /\ local.op = i.op /\ local.numBytes = 3 /\ local.wide = TRUE /\ local.dests = i.dests
        /\ DOMAIN local = DOMAIN i
    BY DEF Instr
  <2>2. i.op \in Fixed /\ Len(i.dests) = 0 /\ i.dests \in Seq(Int)
    BY <1>2 DEF Instr, Sound, Fixed, Accesses, Access
  <2>3. Optimize(i) \in {i, local}
    BY <1>2 DEF Optimize, Accesses, Access
  <2> HIDE DEF local
  <2>4. Sound(local)
    BY <1>2, <2>1, <2>2 DEF Sound, ExtraSz, Fixed, Branches, Switches, WideHandled, Accesses, Access
  <2> QED BY <2>1, <2>3, <2>4 DEF Instr
<1>3. CASE ~(i.op \in {"ldc", "ldc_w"}) /\ ~(i.op \in Accesses /\ ~i.wide)
  BY <1>3 DEF Optimize
<1> QED BY <1>1, <1>2, <1>3

\* The second pass changes no target.
LEMMA FixConstantsKeeps ==
  ASSUME NEW i, Instr(i)
  PROVE  Instr(FixConstants(i)) /\ FixConstants(i).dests = i.dests
<1>1. ASSUME NEW x PROVE Instr([i EXCEPT !.idx = x]) /\ [i EXCEPT !.idx = x].dests = i.dests
  <2> DEFINE r == [i EXCEPT !.idx = x]
  <2>1. /\ r.op = i.op /\ r.numBytes = i.numBytes /\ r.wide = i.wide /\ r.dests = i.dests
        /\ DOMAIN r = DOMAIN i
    BY DEF Instr
  <2> HIDE DEF r
  <2>2. ExtraSz(r) = ExtraSz(i) /\ (WideHandled(r) <=> WideHandled(i))
    BY <2>1 DEF ExtraSz, WideHandled
  <2>3. Sound(r)
    BY <2>1, <2>2 DEF Sound, Instr
  <2> QED BY <2>1, <2>3 DEF Instr, r
<1>2. \/ FixConstants(i) = i
      \/ FixConstants(i) = [i EXCEPT !.idx = fmap[i.idx] % Byte]
      \/ FixConstants(i) = [i EXCEPT !.idx = fmap[i.idx]]
  <2>1. CASE i.idx = 0
    BY <2>1 DEF FixConstants
  <2>2. CASE i.idx # 0 /\ i.op = "ldc"
    BY <2>2 DEF FixConstants
  <2>3. CASE i.idx # 0 /\ i.op # "ldc"
    BY <2>3 DEF FixConstants
  <2> QED BY <2>1, <2>2, <2>3
<1> QED BY <1>1, <1>2

\* The pass in work.
Pass(i) == IF pass = 1 THEN Optimize(i) ELSE FixConstants(i)

\* Neither pass changes a target.
LEMMA PassKeeps ==
  ASSUME NEW i, Instr(i)
  PROVE  Instr(Pass(i)) /\ Pass(i).dests = i.dests
BY OptimizeKeeps, FixConstantsKeeps DEF Pass

Passed == bbPass([i \in Range(InstrsOf(bbList)) |-> Pass(i)])

\* A pass leaves the blocks a partition and the targets what they were.
LEMMA PassedBlocks ==
  ASSUME WellFormed(gCode), NEW l, NEW f, NEW s, NEW excs,
         ResolvedBy(gCode, bbList, excList, excs, l, f, s)
  PROVE  \E t : /\ BlocksOf(Passed, l, f, t) /\ Refers(gCode, l, f, t)
               /\ \A n \in 1..Count(gCode) : t[n] = Pass(s[n])
<1> DEFINE N == Count(gCode)
           t == [n \in 1..N |-> Pass(s[n])]
           pf == [i \in Range(InstrsOf(bbList)) |-> Pass(i)]
<1>1. /\ Cuts(gCode, l, f) /\ BlocksOf(bbList, l, f, s) /\ Refers(gCode, l, f, s)
      /\ Entries(s, N) /\ N \in Nat /\ Entries(bbList, l) /\ l \in Nat
  BY NumberFacts DEF ResolvedBy, Refers, BlocksOf, Cuts
<1>2. DOMAIN s = 1..N /\ DOMAIN bbList = 1..l
  BY <1>1, EntriesSeq
<1>3. InstrsOf(bbList) = s
  BY <1>1, Joined
<1>4. \A n \in 1..N : pf[s[n]] = Pass(s[n])
  BY <1>2, <1>3 DEF Range
<1> HIDE DEF pf
<1>5. Passed = [j \in 1..l |-> [bbList[j] EXCEPT !.instrs = [n \in DOMAIN @ |-> pf[@[n]]]]]
  BY <1>2 DEF Passed, bbPass, pf
<1>6. Entries(Passed, l)
  BY <1>1, <1>5 DEF Entries
<1>7. ASSUME NEW j \in 1..l
      PROVE  "instrs" \in DOMAIN Passed[j] /\ Passed[j].instrs = Part(t, f[j], f[j + 1])
  <2> DEFINE p == f[j]
             q == f[j + 1]
             is == bbList[j].instrs
             new == [n \in DOMAIN is |-> pf[is[n]]]
  <2>1. p \in Nat /\ q \in Nat /\ 1 <= p /\ p <= q /\ q <= N + 1 /\ q - p \in Nat
    BY <1>1, CutsTypes
  <2>2. is = Part(s, p, q) /\ "instrs" \in DOMAIN bbList[j]
    BY <1>1 DEF BlocksOf
  <2>3. Passed[j] = [bbList[j] EXCEPT !.instrs = new]
    BY <1>5
  <2> HIDE DEF new
  <2>4. "instrs" \in DOMAIN Passed[j] /\ Passed[j].instrs = new
    BY <2>2, <2>3
  <2> HIDE DEF p, q, is
  <2>5. DOMAIN is = 1..(q - p) /\ \A n \in 1..(q - p) : is[n] = s[p + n - 1]
    BY <2>2 DEF Part
  <2>6. \A n \in 1..(q - p) : p + n - 1 \in 1..N
    BY <1>1, <2>1
  <2>7. new = Part(t, p, q)
    <3>1. \A n \in 1..(q - p) : pf[is[n]] = t[p + n - 1]
      BY <1>4, <2>5, <2>6
    <3> HIDE DEF t
    <3> QED BY <2>5, <3>1 DEF new, Part
  <2> QED BY <2>4, <2>7 DEF p, q
<1>8. Entries(t, N)
  BY <1>1 DEF Entries
<1>9. ASSUME NEW n \in 1..N
      PROVE  /\ Instr(t[n]) /\ DOMAIN t[n].dests = DOMAIN TargetsOf(gCode, n)
             /\ \A j \in DOMAIN t[n].dests :
                  t[n].dests[j] \in 1..l /\ f[t[n].dests[j]] = TargetsOf(gCode, n)[j]
  <2>1. /\ Instr(s[n]) /\ DOMAIN s[n].dests = DOMAIN TargetsOf(gCode, n)
        /\ \A j \in DOMAIN s[n].dests :
             s[n].dests[j] \in 1..l /\ f[s[n].dests[j]] = TargetsOf(gCode, n)[j]
    BY <1>1 DEF Refers
  <2>2. t[n] = Pass(s[n])
    OBVIOUS
  <2>3. Instr(t[n]) /\ t[n].dests = s[n].dests
    BY <2>1, <2>2, PassKeeps
  <2> HIDE DEF t
  <2> QED BY <2>1, <2>3
<1>10. \A n \in 1..N : t[n] = Pass(s[n])
  OBVIOUS
<1> HIDE DEF t
<1> QED BY <1>6, <1>7, <1>8, <1>9, <1>10 DEF BlocksOf, Refers

\* The code new with the entries ys means what old does with xs.
Carried(old, xs, new, ys) ==
  /\ WellFormed(new) /\ SameTargets(old, new) /\ DOMAIN ys = DOMAIN xs
  /\ \A e \in DOMAIN xs :
       /\ {ys[e].start, ys[e].end, ys[e].handler} \subseteq DOMAIN new.at
       /\ Number(new, ys[e].start) = Number(old, xs[e].start)
       /\ Number(new, ys[e].handler) = Number(old, xs[e].handler)
       /\ Number(new, ys[e].end) = Label(old, xs[e].end)

\* What the first pass and the second pass keep, both keep.
LEMMA CarriedOn ==
  ASSUME NEW a, NEW as, NEW b, NEW bs, NEW x, NEW xs, Carried(a, as, b, bs), Carried(b, bs, x, xs)
  PROVE  Carried(a, as, x, xs)
<1>1. SameTargets(a, x)
  BY DEF Carried, SameTargets
<1>2. \A e \in DOMAIN as : Label(b, bs[e].end) = Number(b, bs[e].end)
  <2> SUFFICES ASSUME NEW e \in DOMAIN as PROVE bs[e].end # b.len
    BY DEF Label
  <2>1. WellFormed(b) /\ bs[e].end \in DOMAIN b.at
    BY DEF Carried
  <2> QED BY <2>1 DEF WellFormed
<1> QED BY <1>1, <1>2 DEF Carried

\* The entries as they are read back from the blocks.
ReadBack(blocks, excs, types) ==
  [n \in DOMAIN excs |->
     [start |-> bbGetExc(blocks, n).start, end |-> bbGetExc(blocks, n).end,
      handler |-> bbGetExc(blocks, n).handler, type |-> types[n]]]

\* What was the instruction n of the code is, after the pass, that of the code new.
PassedOn(code, bs, blocks, new, n) ==
  \E i \in Range(InstrsOf(bs)) :
    /\ Words(i) = Words(Decoded(code, n)) /\ Instr(i)
    /\ Pass(i) \in Range(InstrsOf(blocks)) /\ Words(new.at[Address(new, n)]) = Words(Pass(i))

\* A pass over a method and its export keep what its code and its exception
\* entries mean.
LEMMA RewriteStep ==
  ASSUME WellFormed(gCode), NEW excs, NEW n \in Nat, DOMAIN excs = 1..n, NEW types,
         \A e \in DOMAIN excs : Entry(gCode, excs[e]), Resolved(gCode, bbList, excList, excs)
  PROVE  /\ Carried(gCode, excs, bbExport(Passed), ReadBack(Passed, excs, types))
         /\ Entries(ReadBack(Passed, excs, types), n)
         /\ \A i \in 1..Count(gCode) : PassedOn(gCode, bbList, Passed, bbExport(Passed), i)
<1> DEFINE N == Count(gCode)
           new == bbExport(Passed)
           ys == ReadBack(Passed, excs, types)
<1>1. PICK l, f, s : ResolvedBy(gCode, bbList, excList, excs, l, f, s)
  BY DEF Resolved
<1>2. PICK t : /\ BlocksOf(Passed, l, f, t) /\ Refers(gCode, l, f, t)
               /\ \A i \in 1..N : t[i] = Pass(s[i])
  BY <1>1, PassedBlocks
<1>3. Cuts(gCode, l, f) /\ \A e \in DOMAIN excs : RefersTo(gCode, l, f, excList[e], excs[e])
  BY <1>1 DEF ResolvedBy
<1> DEFINE at == Place(t, 0)
<1>4. /\ Numbered(N, at, new) /\ SameTargets(gCode, new)
      /\ \A i \in 1..N : Words(new.at[Address(new, i)]) = Words(t[i])
  <2> HIDE DEF at
  <2>1. at = Place(t, 0)
    BY DEF at
  <2> QED BY <1>2, <1>3, <2>1, ExportFacts
<1>5. \A i \in 1..l : BlockAddr(Passed, i) = at[f[i]]
  <2>1. Entries(t, N) /\ \A i \in 1..N : Sound(t[i])
    BY <1>2 DEF Refers, Instr
  <2> QED BY <1>2, <1>3, <2>1, BlockAddrIs
<1> HIDE DEF at, new
<1>6. N \in Nat /\ N > 0
  BY NumberFacts, FirstBlock
<1>7. ASSUME NEW e \in DOMAIN excs
      PROVE  /\ {ys[e].start, ys[e].end, ys[e].handler} \subseteq DOMAIN new.at
             /\ Number(new, ys[e].start) = Number(gCode, excs[e].start)
             /\ Number(new, ys[e].handler) = Number(gCode, excs[e].handler)
             /\ Number(new, ys[e].end) = Label(gCode, excs[e].end)
  <2> DEFINE x == excList[e]
             w == excs[e]
  <2>1. /\ {"start", "end", "handler"} \subseteq DOMAIN x
        /\ {x.start, x.end, x.handler} \subseteq 1..l
        /\ f[x.start] = Number(gCode, w.start) /\ f[x.handler] = Number(gCode, w.handler)
        /\ f[x.end] = Label(gCode, w.end)
    BY <1>3 DEF RefersTo
  <2>2. /\ ys[e].start = BlockAddr(Passed, x.start) /\ ys[e].end = BlockAddr(Passed, x.end)
        /\ ys[e].handler = BlockAddr(Passed, x.handler)
    BY <2>1 DEF ReadBack, bbGetExc
  <2>3. /\ Number(gCode, w.start) \in 1..N /\ Number(gCode, w.handler) \in 1..N
        /\ Label(gCode, w.end) \in 1..N
    <3>1. Entry(gCode, w)
      OBVIOUS
    <3>2. 1 \in 1..N
      BY <1>6
    <3> HIDE DEF w
    <3> QED BY <3>1, <3>2, AddressFacts DEF Entry, Label
  <2>4. ASSUME NEW i \in 1..N PROVE at[i] \in DOMAIN new.at /\ Number(new, at[i]) = i
    <3>1. i \in 1..(N + 1)
      BY <1>6
    <3> QED BY <1>4, <3>1 DEF Numbered
  <2> HIDE DEF x, w, ys
  <2> QED BY <1>5, <2>1, <2>2, <2>3, <2>4 DEF w
<1>8. DOMAIN ys = DOMAIN excs /\ Entries(ys, n)
  BY DEF ReadBack, Entries
<1> HIDE DEF ys
<1>9. ASSUME NEW i \in 1..N PROVE PassedOn(gCode, bbList, Passed, new, i)
  <2>1. /\ BlocksOf(bbList, l, f, s) /\ Refers(gCode, l, f, s)
        /\ Words(s[i]) = Words(Decoded(gCode, i))
    BY <1>1 DEF ResolvedBy
  <2>2. Entries(s, N) /\ Entries(t, N) /\ Instr(s[i])
    BY <1>2, <2>1 DEF Refers
  <2>3. InstrsOf(bbList) = s /\ InstrsOf(Passed) = t
    BY <1>2, <1>3, <1>6, <2>1, <2>2, Joined
  <2>4. s[i] \in Range(s) /\ t[i] \in Range(t)
    BY <2>2, EntriesSeq DEF Range
  <2> QED BY <1>2, <1>4, <2>1, <2>2, <2>3, <2>4 DEF PassedOn
<1> QED BY <1>4, <1>7, <1>8, <1>9 DEF Carried, Numbered, new, ys
-----------------------------------------------------------------------------
(* The invariant. *)

\* A method whose turn has not come, and one that has been written.
Same(o, md) == Method(md) /\ md.code = o.code /\ md.excs = o.excs

Moved(o, md) ==
  /\ Method(md)
  /\ IF o.code = NoCode THEN md.code = NoCode ELSE Carried(o.code, o.excs, md.code, md.excs)

\* In the second pass all methods have been written once.
Touched(ph, pa, x, n) == pa = 2 \/ ph \notin {"load", "exc", "rewrite"} \/ n < x

SameShape(o, cls) ==
  /\ {"methods", "pool"} \subseteq DOMAIN cls
  /\ DOMAIN cls.methods = DOMAIN o.methods /\ Len(cls.methods) = Len(o.methods)

ClassOk(o, cls, ph, pa, x) ==
  /\ SameShape(o, cls)
  /\ \A n \in DOMAIN o.methods : IF Touched(ph, pa, x, n) THEN Moved(o.methods[n], cls.methods[n])
                                 ELSE Same(o.methods[n], cls.methods[n])

\* The method in work while its blocks are found.
Adding(md, code, bs, xs, q, j) ==
  /\ code = md.code /\ md.code # NoCode /\ Loaded(code, bs, q)
  /\ j \in 0..Len(md.excs) /\ Listed(xs, md.excs, j)
  /\ \A e \in 1..j : {md.excs[e].start, md.excs[e].end, md.excs[e].handler} \subseteq Known(bs, q)

\* The method in work when its targets are blocks.
Rewriting(md, code, bs, xs) ==
  code = md.code /\ md.code # NoCode /\ Resolved(code, bs, xs, md.excs)

GoingInv ==
  /\ orig \in Classes /\ m \in Nat /\ ClassOk(orig, c, phase, pass, m)
  /\ Q # <<>> => phase = "exc"
  /\ phase = "exc" => m \in DOMAIN c.methods /\ Adding(c.methods[m], gCode, bbList, excList, Q, k)
  /\ phase = "rewrite" => m \in DOMAIN c.methods /\ Rewriting(c.methods[m], gCode, bbList, excList)

Inv ==
  /\ exit \in {"no", "offset", "local", "new"}
  /\ IF exit = "no" THEN GoingInv ELSE phase # "done"

\* What is assumed of classes, for the one in work.
LEMMA OrigFacts ==
  ASSUME orig \in Classes
  PROVE  /\ {"methods", "pool"} \subseteq DOMAIN orig
         /\ Len(orig.methods) \in Nat /\ DOMAIN orig.methods = 1..Len(orig.methods)
         /\ \A n \in DOMAIN orig.methods : Method(orig.methods[n])
BY ClassesAssumption DEF List

\* A method without code is as it should be without being rewritten.
LEMMA SameMoved ==
  ASSUME NEW o, NEW md, Same(o, md), md.code = NoCode
  PROVE  Moved(o, md)
BY DEF Same, Moved

\* The invariant holds for a class that has been read.
LEMMA InitInv ==
  ASSUME Init
  PROVE  Inv
<1>1. orig \in Classes /\ c = orig /\ phase = "load" /\ m = 1 /\ pass = 1 /\ Q = <<>> /\ exit = "no"
  BY DEF Init
<1>2. \A n \in DOMAIN orig.methods : ~Touched("load", 1, 1, n)
  BY <1>1, OrigFacts DEF Touched
<1>3. ClassOk(orig, orig, "load", 1, 1)
  BY <1>1, <1>2, OrigFacts DEF ClassOk, SameShape, Same
<1>4. GoingInv
  BY <1>1, <1>3 DEF GoingInv
<1> QED BY <1>1, <1>4 DEF Inv

\* To the next method, or out of the loop.
LEMMA Advance ==
  ASSUME orig \in Classes, m \in Nat, NEW pa, SameShape(orig, c), NEW cls, SameShape(orig, cls), NextMethod,
         \A n \in DOMAIN orig.methods :
           IF pa = 2 \/ n < m \/ n = m THEN Moved(orig.methods[n], cls.methods[n])
           ELSE Same(orig.methods[n], cls.methods[n])
  PROVE  ClassOk(orig, cls, phase', pa, m') /\ m' \in Nat /\ phase' \in {"load", "mark", "fix"}
<1>1. Len(orig.methods) \in Nat /\ DOMAIN orig.methods = 1..Len(orig.methods)
  BY OrigFacts
<1>2. Len(c.methods) = Len(orig.methods)
  BY DEF SameShape
<1>3. CASE m < Len(c.methods)
  <2>1. m' = m + 1 /\ phase' = "load"
    BY <1>3 DEF NextMethod
  <2>2. \A n \in DOMAIN orig.methods :
          Touched(phase', pa, m', n) <=> (pa = 2 \/ n < m \/ n = m)
    BY <1>1, <2>1 DEF Touched
  <2> QED BY <2>1, <2>2 DEF ClassOk
<1>4. CASE ~(m < Len(c.methods))
  <2>1. m' = 1 /\ phase' \in {"mark", "fix"}
    BY <1>4 DEF NextMethod
  <2>2. \A n \in DOMAIN orig.methods : Touched(phase', pa, m', n) /\ (n < m \/ n = m)
    BY <1>1, <1>2, <1>4, <2>1 DEF Touched
  <2> QED BY <2>1, <2>2 DEF ClassOk
<1> QED BY <1>3, <1>4

\* bbInit: the queue has the start of the code, and no block is there yet.
LEMMA LoadCodeInv ==
  ASSUME GoingInv, LoadCode
  PROVE  Inv'
<1>1. /\ exit = "no" /\ phase = "load" /\ m \in DOMAIN c.methods /\ c.methods[m].code # NoCode
      /\ gCode' = c.methods[m].code /\ bbList' = <<>> /\ excList' = <<>> /\ Q' = <<0>>
      /\ phase' = "exc" /\ k' = 0 /\ UNCHANGED <<c, orig, m, pass, exit>>
  BY DEF LoadCode, Going, bbInit
<1>2. ClassOk(orig, c, "exc", pass, m)
  BY <1>1 DEF GoingInv, ClassOk, Touched
<1> DEFINE md == c.methods[m]
<1>3. Method(md)
  BY <1>1 DEF GoingInv, ClassOk, SameShape, Moved, Same
<1>4. WellFormed(md.code) /\ Len(md.excs) \in Nat
  BY <1>1, <1>3 DEF Method
<1> HIDE DEF md
<1>5. Loaded(md.code, <<>>, <<0>>)
  <2>1. 0 \in Places(md.code)
    BY <1>4 DEF WellFormed, Places
  <2>2. <<0>> \in Seq(Places(md.code))
    BY <2>1
  <2> QED BY <2>2 DEF Loaded
<1>6. Listed(<<>>, md.excs, 0)
  BY NoEntries DEF Listed
<1>7. Adding(md, md.code, <<>>, <<>>, <<0>>, 0)
  BY <1>1, <1>4, <1>5, <1>6 DEF Adding, md
<1>8. GoingInv'
  BY <1>1, <1>2, <1>7 DEF GoingInv, md
<1> QED BY <1>1, <1>8 DEF Inv

\* A method without code, or the end of a class without methods.
LEMMA SkipMethodInv ==
  ASSUME GoingInv, SkipMethod
  PROVE  Inv'
<1>1. /\ exit = "no" /\ phase = "load" /\ (m \in DOMAIN c.methods => c.methods[m].code = NoCode)
      /\ NextMethod /\ Q = <<>> /\ UNCHANGED <<c, orig, pass, exit, Q>>
  BY DEF SkipMethod, Going, bbVars
<1>2. orig \in Classes /\ m \in Nat /\ SameShape(orig, c)
      /\ \A n \in DOMAIN orig.methods : IF Touched("load", pass, m, n) THEN Moved(orig.methods[n], c.methods[n])
                                        ELSE Same(orig.methods[n], c.methods[n])
  BY <1>1 DEF GoingInv, ClassOk
<1>3. ASSUME NEW n \in DOMAIN orig.methods
      PROVE  IF pass = 2 \/ n < m \/ n = m THEN Moved(orig.methods[n], c.methods[n])
             ELSE Same(orig.methods[n], c.methods[n])
  <2>1. n = m => c.methods[n].code = NoCode
    BY <1>1, <1>2 DEF SameShape
  <2> QED BY <1>2, <2>1, SameMoved DEF Touched
<1>4. ClassOk(orig, c, phase', pass, m') /\ m' \in Nat /\ phase' \in {"load", "mark", "fix"}
  BY <1>1, <1>2, <1>3, Advance
<1>5. GoingInv'
  BY <1>1, <1>2, <1>4 DEF GoingInv
<1> QED BY <1>1, <1>5 DEF Inv

\* The method in work has code of a compiler, or what has been written of it.
LEMMA WorkFacts ==
  ASSUME GoingInv, m \in DOMAIN c.methods, c.methods[m].code # NoCode
  PROVE  LET md == c.methods[m]
         IN  /\ WellFormed(md.code) /\ Len(md.excs) \in Nat /\ DOMAIN md.excs = 1..Len(md.excs)
             /\ \A e \in DOMAIN md.excs : Entry(md.code, md.excs[e])
             /\ m \in DOMAIN orig.methods /\ {"code", "excs"} \subseteq DOMAIN md
<1> DEFINE md == c.methods[m]
<1>1. Method(md) /\ m \in DOMAIN orig.methods
  BY DEF GoingInv, ClassOk, SameShape, Moved, Same
<1> HIDE DEF md
<1>2. /\ WellFormed(md.code) /\ Len(md.excs) \in Nat /\ DOMAIN md.excs = 1..Len(md.excs)
      /\ \A e \in DOMAIN md.excs : Entry(md.code, md.excs[e])
      /\ {"code", "excs"} \subseteq DOMAIN md
  BY <1>1 DEF Method, Entry, md
<1> QED BY <1>1, <1>2 DEF md

\* One turn of bbPrvRun.
LEMMA DisassembleInv ==
  ASSUME GoingInv, exit = "no", Disassemble
  PROVE  Inv'
<1>1. /\ bbPrvRun(IllegalNew) /\ Q # <<>>
      /\ UNCHANGED <<c, orig, phase, m, k, pass>>
  BY DEF Disassemble, bbPrvRun
<1>2. phase = "exc" /\ m \in DOMAIN c.methods /\ Adding(c.methods[m], gCode, bbList, excList, Q, k)
  BY <1>1 DEF GoingInv
<1> DEFINE md == c.methods[m]
<1>3. md.code # NoCode /\ gCode = md.code
  BY <1>2 DEF Adding
<1>4. WellFormed(gCode) /\ Loaded(gCode, bbList, Q)
  BY <1>2, <1>3, WorkFacts DEF Adding
<1>5. Taken(IllegalNew) /\ gCode' = gCode /\ excList' = excList
  BY <1>1, <1>4, QueueStep
<1>6. CASE exit' = "new"
  BY <1>1, <1>2, <1>6 DEF Inv
<1>7. CASE exit' # "new"
  <2>1. exit' = "no" /\ Loaded(gCode, bbList', Q') /\ Known(bbList, Q) \subseteq Known(bbList', Q')
    BY <1>5, <1>7 DEF Taken
  <2>2. Adding(md, gCode, bbList, excList, Q, k)
    BY <1>2
  <2> HIDE DEF md
  <2>3. Adding(md, gCode, bbList', excList, Q', k)
    <3>1. \A e \in 1..k : {md.excs[e].start, md.excs[e].end, md.excs[e].handler} \subseteq Known(bbList', Q')
      BY <2>1, <2>2 DEF Adding
    <3> QED BY <2>1, <2>2, <3>1 DEF Adding
  <2>4. Adding(c.methods[m], gCode, bbList, excList, Q, k)'
    BY <1>1, <1>5, <2>3 DEF md
  <2>5. GoingInv'
    BY <1>1, <1>2, <2>4 DEF GoingInv
  <2> QED BY <2>1, <2>5 DEF Inv
<1> QED BY <1>6, <1>7

Appends(u, s, n, x) ==
  /\ Entries(u, n + 1) /\ u[n + 1] = x
  /\ \A j \in 1..n : u[j] = s[j]

\* What stands where after an append.
LEMMA AppendEntries ==
  ASSUME NEW s, NEW n \in Nat, Entries(s, n), NEW x
  PROVE  Appends(Append(s, x), s, n, x)
<1> DEFINE T == {s[j] : j \in 1..n} \cup {x}
           u == Append(s, x)
<1>1. s \in Seq(T) /\ Len(s) = n /\ x \in T
  <2>1. {s[j] : j \in 1..n} \subseteq T
    OBVIOUS
  <2> HIDE DEF T
  <2>2. s \in Seq(T) /\ Len(s) = n
    BY <2>1, EntriesSeq
  <2> QED BY <2>2 DEF T
<1> HIDE DEF T
<1>2. /\ u \in Seq(T) /\ Len(u) = n + 1
      /\ \A j \in 1..n : u[j] = s[j]
      /\ u[n + 1] = x
  BY <1>1, AppendProperties
<1> HIDE DEF u
<1>3. Entries(u, n + 1)
  <2>1. u \in [1..(n + 1) -> T]
    BY <1>2, LenProperties
  <2> QED BY <2>1 DEF Entries
<1> QED BY <1>2, <1>3 DEF Appends, u

\* With an empty queue, all targets start a block.
LEMMA LoadedAll ==
  ASSUME NEW code, NEW bs, NEW q, Loaded(code, bs, q), q = <<>>
  PROVE  \E l, f : BlocksCut(code, bs, l, f) /\ Reached(code, bs, q)
<1>1. <<>> # <<0>>
  OBVIOUS
<1> QED BY <1>1 DEF Loaded

\* bbAddExc: the addresses of the entry are queued, to be starts of blocks
\* before the targets are resolved.
LEMMA AddExceptionInv ==
  ASSUME GoingInv, AddException
  PROVE  Inv'
<1> DEFINE md == c.methods[m]
           x == md.excs[k + 1]
           r == [start |-> x.start, end |-> x.end, handler |-> x.handler]
           q == <<x.start, x.end, x.handler>>
<1>1. /\ exit = "no" /\ Q = <<>> /\ phase = "exc" /\ k < Len(md.excs)
      /\ Q' = q \o Q /\ excList' = Append(excList, r)
      /\ UNCHANGED <<gCode, bbList>> /\ k' = k + 1 /\ UNCHANGED <<c, orig, phase, m, pass, exit>>
  BY DEF AddException, Going, bbAddExc, bbPrvInsertAddr
<1>2. m \in DOMAIN c.methods /\ Adding(md, gCode, bbList, excList, Q, k)
  BY <1>1 DEF GoingInv
<1>3. /\ WellFormed(md.code) /\ Len(md.excs) \in Nat /\ DOMAIN md.excs = 1..Len(md.excs)
      /\ \A e \in DOMAIN md.excs : Entry(md.code, md.excs[e])
  BY <1>2, WorkFacts DEF Adding
<1> HIDE DEF md
<1>4. /\ gCode = md.code /\ md.code # NoCode /\ Loaded(gCode, bbList, Q) /\ k \in Nat /\ Entries(excList, k)
      /\ \A e \in 1..k : /\ excList[e] = [start |-> md.excs[e].start, end |-> md.excs[e].end,
                                          handler |-> md.excs[e].handler]
                         /\ {md.excs[e].start, md.excs[e].end, md.excs[e].handler} \subseteq Known(bbList, Q)
  BY <1>2, <1>3 DEF Adding, Listed
<1>5. k + 1 \in 0..Len(md.excs) /\ k + 1 \in DOMAIN md.excs /\ \A e \in 1..(k + 1) : e \in 1..k \/ e = k + 1
  BY <1>1, <1>3, <1>4
<1>6. {x.start, x.end, x.handler} \subseteq Places(gCode)
  BY <1>3, <1>4, <1>5 DEF Entry, Places
<1> HIDE DEF x
<1>7. /\ q \in Seq(Places(gCode)) /\ q \o Q = q /\ Range(q) = {x.start, x.end, x.handler} /\ Range(Q) = {}
  <2>1. q \in Seq(Places(gCode))
    BY <1>6
  <2>2. q \o <<>> = q
    BY <2>1, ConcatEmptySeq
  <2>3. Range(q) = {x.start, x.end, x.handler}
    <3>1. DOMAIN q = {1, 2, 3} /\ q[1] = x.start /\ q[2] = x.end /\ q[3] = x.handler
      OBVIOUS
    <3> HIDE DEF q
    <3> QED BY <3>1 DEF Range
  <2>4. Range(Q) = {}
    BY <1>1 DEF Range
  <2> QED BY <1>1, <2>1, <2>2, <2>3, <2>4
<1> HIDE DEF q
<1>8. Known(bbList, Q) \subseteq Known(bbList, q) /\ {x.start, x.end, x.handler} \subseteq Known(bbList, q)
  BY <1>7 DEF Known
<1>9. Loaded(gCode, bbList, q)
  <2>1. PICK l, f : BlocksCut(gCode, bbList, l, f) /\ Reached(gCode, bbList, Q)
    BY <1>1, <1>4, LoadedAll
  <2>2. Reached(gCode, bbList, q)
    BY <1>8, <2>1 DEF Reached
  <2> QED BY <1>7, <2>1, <2>2 DEF Loaded
<1> DEFINE xs == Append(excList, r)
<1>10. /\ Entries(xs, k + 1) /\ xs[k + 1] = r
       /\ \A j \in 1..k : xs[j] = excList[j]
  <2> HIDE DEF r
  <2>1. Appends(xs, excList, k, r)
    BY <1>4, AppendEntries
  <2> HIDE DEF xs
  <2> QED BY <2>1 DEF Appends
<1> HIDE DEF xs
<1>11. Listed(xs, md.excs, k + 1)
  BY <1>4, <1>5, <1>10 DEF Listed, x
<1>12. \A e \in 1..(k + 1) : {md.excs[e].start, md.excs[e].end, md.excs[e].handler} \subseteq Known(bbList, q)
  <2>1. {md.excs[k + 1].start, md.excs[k + 1].end, md.excs[k + 1].handler} \subseteq Known(bbList, q)
    BY <1>8 DEF x
  <2> QED BY <1>4, <1>5, <1>8, <2>1
<1>13. Adding(md, gCode, bbList, xs, q, k + 1)
  BY <1>4, <1>5, <1>9, <1>11, <1>12 DEF Adding
<1>14. Adding(c.methods[m], gCode, bbList, excList, Q, k)'
  <2>1. excList' = xs /\ Q' = q /\ (c.methods)'[m'] = md
    BY <1>1, <1>7 DEF xs, md
  <2> QED BY <1>1, <1>13, <2>1
<1>15. GoingInv'
  BY <1>1, <1>2, <1>14 DEF GoingInv
<1> QED BY <1>1, <1>15 DEF Inv

\* bbFinishLoading: every target and every end of an entry is a block.
LEMMA FinishLoadingInv ==
  ASSUME GoingInv, FinishLoading
  PROVE  Inv'
<1> DEFINE md == c.methods[m]
           n == Len(md.excs)
<1>1. /\ exit = "no" /\ Q = <<>> /\ phase = "exc" /\ k = Len(md.excs) /\ bbFinishLoading /\ phase' = "rewrite"
      /\ UNCHANGED <<c, orig, m, pass, gCode, Q>>
  BY DEF FinishLoading, Going
<1>2. m \in DOMAIN c.methods /\ Adding(md, gCode, bbList, excList, Q, k)
  BY <1>1 DEF GoingInv
<1>3. /\ WellFormed(md.code) /\ n \in Nat /\ DOMAIN md.excs = 1..n
      /\ \A e \in DOMAIN md.excs : Entry(md.code, md.excs[e])
  BY <1>2, WorkFacts DEF Adding
<1> HIDE DEF md
<1>4. /\ gCode = md.code /\ md.code # NoCode /\ Loaded(gCode, bbList, Q) /\ Listed(excList, md.excs, n)
      /\ \A e \in 1..n : {md.excs[e].start, md.excs[e].end, md.excs[e].handler} \subseteq Known(bbList, Q)
  BY <1>1, <1>2 DEF Adding
<1>5. PICK l, f : BlocksCut(gCode, bbList, l, f) /\ Reached(gCode, bbList, Q)
  BY <1>1, <1>4, LoadedAll
<1>6. Known(bbList, Q) = Heads(bbList)
  <2>1. Range(Q) = {}
    BY <1>1 DEF Range
  <2> QED BY <2>1 DEF Known
<1> DEFINE excs == md.excs
<1>7. exit' = exit /\ Resolved(gCode, bbList', excList', excs)
  <2>1. /\ WellFormed(gCode) /\ n \in Nat /\ DOMAIN excs = 1..n /\ Listed(excList, excs, n)
        /\ \A e \in DOMAIN excs : /\ Entry(gCode, excs[e])
                                  /\ {excs[e].start, excs[e].end, excs[e].handler} \subseteq Heads(bbList)
    BY <1>3, <1>4, <1>6
  <2> HIDE DEF excs, n
  <2> QED BY <1>1, <1>5, <2>1, FinishStep
<1>8. Rewriting(c.methods[m], gCode, bbList, excList)'
  BY <1>1, <1>4, <1>7 DEF Rewriting, md
<1>9. ClassOk(orig, c, phase, pass, m)'
  BY <1>1 DEF GoingInv, ClassOk, Touched
<1>10. GoingInv'
  BY <1>1, <1>2, <1>8, <1>9 DEF GoingInv
<1> QED BY <1>1, <1>7, <1>10 DEF Inv

\* The class new is cls but for its method x, which has another code and other entries.
Replaced(cls, new, l, x, code, excs) ==
  /\ {"methods", "pool"} \subseteq DOMAIN new
  /\ DOMAIN new.methods = 1..l /\ Len(new.methods) = l
  /\ new.methods[x].code = code /\ new.methods[x].excs = excs
  /\ {"code", "excs"} \subseteq DOMAIN new.methods[x]
  /\ \A n \in 1..l : n # x => new.methods[n] = cls.methods[n]

\* The code and the entries of one method and the constants are replaced.
LEMMA MethodReplaced ==
  ASSUME NEW cls, NEW l \in Nat, DOMAIN cls.methods = 1..l, {"methods", "pool"} \subseteq DOMAIN cls,
         NEW x \in 1..l, {"code", "excs"} \subseteq DOMAIN cls.methods[x],
         NEW code, NEW excs, NEW pool, NEW new,
         new = [cls EXCEPT !.methods[x].code = code, !.methods[x].excs = excs, !.pool = pool]
  PROVE  Replaced(cls, new, l, x, code, excs)
<1> DEFINE a == [cls EXCEPT !.methods[x].code = code]
           b == [a EXCEPT !.methods[x].excs = excs]
<1>1. /\ DOMAIN a = DOMAIN cls /\ a.methods = [cls.methods EXCEPT ![x].code = code]
  OBVIOUS
<1> HIDE DEF a
<1>2. /\ DOMAIN b = DOMAIN cls /\ b.methods = [a.methods EXCEPT ![x].excs = excs]
  BY <1>1
<1> HIDE DEF b
<1>3. new = [b EXCEPT !.pool = pool]
  BY DEF a, b
<1>4. DOMAIN new = DOMAIN cls /\ new.methods = b.methods
  BY <1>2, <1>3
<1>5. /\ DOMAIN a.methods = 1..l /\ a.methods[x].code = code /\ {"code", "excs"} \subseteq DOMAIN a.methods[x]
      /\ \A n \in 1..l : n # x => a.methods[n] = cls.methods[n]
  BY <1>1
<1>6. /\ DOMAIN b.methods = 1..l /\ b.methods[x].code = code /\ b.methods[x].excs = excs
      /\ {"code", "excs"} \subseteq DOMAIN b.methods[x]
      /\ \A n \in 1..l : n # x => b.methods[n] = a.methods[n]
  BY <1>2, <1>5
<1>7. Len(b.methods) = l
  <2>1. Entries(b.methods, l)
    BY <1>2, <1>5 DEF Entries
  <2> QED BY <2>1, EntriesSeq
<1> QED BY <1>4, <1>5, <1>6, <1>7 DEF Replaced

\* The method in work has been written, or the converter ends.
LEMMA RewriteInv ==
  ASSUME GoingInv, Rewrite
  PROVE  Inv'
<1> DEFINE md == c.methods[m]
           excs == md.excs
           n == Len(excs)
           types == [e \in DOMAIN excs |-> IF pass = 1 THEN excs[e].type ELSE fmap[excs[e].type]]
           blocks == bbPass([i \in Range(InstrsOf(bbList)) |->
                              IF pass = 1 THEN Optimize(i) ELSE FixConstants(i)])
           newExcs == [e \in DOMAIN excs |->
                         [start |-> bbGetExc(blocks, e).start, end |-> bbGetExc(blocks, e).end,
                          handler |-> bbGetExc(blocks, e).handler,
                          type |-> IF pass = 1 THEN excs[e].type ELSE fmap[excs[e].type]]]
           pool == IF pass = 1 THEN Marked(c.pool, MarkConstants(InstrsOf(blocks), excs)) ELSE c.pool
<1>1. /\ exit = "no" /\ phase = "rewrite" /\ Q = <<>> /\ UNCHANGED <<orig, pass, Q>>
  BY DEF Rewrite, Going
<1>2. IF pass = 1 /\ LocalMissing
      THEN exit' = "local" /\ UNCHANGED <<c, phase, m, bbList, excList>>
      ELSE IF OutOfReach(blocks)
      THEN exit' = "offset" /\ UNCHANGED <<c, phase, m, bbList, excList>>
      ELSE /\ c' = [c EXCEPT !.methods[m].code = bbExport(blocks), !.methods[m].excs = newExcs,
                             !.pool = pool]
           /\ NextMethod /\ UNCHANGED exit
  BY Zenon DEF Rewrite
<1>3. blocks = Passed
  BY DEF Passed, Pass
<1>4. newExcs = ReadBack(blocks, excs, types)
  BY DEF ReadBack
<1>5. m \in DOMAIN c.methods /\ Rewriting(md, gCode, bbList, excList)
  BY <1>1 DEF GoingInv
<1>6. /\ WellFormed(md.code) /\ n \in Nat /\ DOMAIN excs = 1..n
      /\ \A e \in DOMAIN excs : Entry(md.code, excs[e])
      /\ m \in DOMAIN orig.methods /\ {"code", "excs"} \subseteq DOMAIN md
      /\ gCode = md.code /\ md.code # NoCode
  BY <1>5, WorkFacts DEF Rewriting
<1> HIDE DEF blocks, newExcs, pool, types
<1>7. CASE exit' # "no"
  <2>1. exit' \in {"local", "offset"} /\ phase' = "rewrite"
    BY <1>1, <1>2, <1>7
  <2> QED BY <1>7, <2>1 DEF Inv
<1>8. CASE exit' = "no"
  <2> DEFINE new == bbExport(Passed)
             ys == ReadBack(Passed, excs, types)
             old == orig.methods[m]
             l == Len(orig.methods)
  <2>1. /\ c' = [c EXCEPT !.methods[m].code = new, !.methods[m].excs = ys, !.pool = pool]
        /\ NextMethod /\ exit' = "no"
    BY <1>2, <1>3, <1>4, <1>8
  <2>2. Carried(gCode, excs, new, ys) /\ Entries(ys, n)
    <3>1. Resolved(gCode, bbList, excList, excs)
      BY <1>5 DEF Rewriting
    <3> HIDE DEF excs, n
    <3> QED BY <1>6, <3>1, RewriteStep
  <2> HIDE DEF new, ys
  <2>3. /\ l \in Nat /\ DOMAIN orig.methods = 1..l /\ orig \in Classes /\ m \in Nat
        /\ {"methods", "pool"} \subseteq DOMAIN c /\ DOMAIN c.methods = 1..l /\ Len(c.methods) = l
        /\ \A i \in 1..l : Method(orig.methods[i])
    BY OrigFacts DEF GoingInv, ClassOk, SameShape
  <2> HIDE DEF l
  <2>4. /\ {"methods", "pool"} \subseteq DOMAIN c'
        /\ DOMAIN (c').methods = 1..l /\ Len((c').methods) = l
        /\ (c').methods[m].code = new /\ (c').methods[m].excs = ys
        /\ {"code", "excs"} \subseteq DOMAIN (c').methods[m]
        /\ \A i \in 1..l : i # m => (c').methods[i] = c.methods[i]
    <3>1. m \in 1..l
      BY <1>5, <2>3
    <3>2. {"code", "excs"} \subseteq DOMAIN c.methods[m]
      BY <1>6
    <3> DEFINE cls == c'
    <3>3. cls = [c EXCEPT !.methods[m].code = new, !.methods[m].excs = ys, !.pool = pool]
      BY <2>1
    <3> HIDE DEF cls
    <3>4. Replaced(c, cls, l, m, new, ys)
      BY <2>3, <3>1, <3>2, <3>3, MethodReplaced
    <3> QED BY <3>4 DEF Replaced, cls
  <2> DEFINE md2 == (c').methods[m]
  <2>5. Method(md2)
    <3>1. Len(ys) = n /\ DOMAIN ys = 1..n
      BY <1>6, <2>2, EntriesSeq
    <3>2. WellFormed(new) /\ new # NoCode
      <4>1. WellFormed(new)
        BY <2>2 DEF Carried
      <4>2. new.len # 0
        BY <4>1 DEF WellFormed
      <4> QED BY <4>1, <4>2 DEF NoCode
    <3>3. \A e \in DOMAIN ys : {ys[e].start, ys[e].handler} \subseteq DOMAIN new.at /\ ys[e].end \in DOMAIN new.at
      BY <2>2 DEF Carried
    <3> HIDE DEF n
    <3> QED BY <1>6, <2>4, <3>1, <3>2, <3>3 DEF Method
  <2>6. Moved(old, md2)
    <3>1. IF Touched("rewrite", pass, m, m) THEN Moved(old, md) ELSE Same(old, md)
      BY <1>1, <1>6 DEF GoingInv, ClassOk
    <3>2. Carried(md.code, md.excs, md2.code, md2.excs)
      BY <1>6, <2>2, <2>4
    <3> HIDE DEF md, md2
    <3>3. CASE Moved(old, md)
      <4>1. old.code # NoCode /\ Carried(old.code, old.excs, md.code, md.excs)
        BY <1>6, <3>3 DEF Moved
      <4>2. Carried(old.code, old.excs, md2.code, md2.excs)
        BY <3>2, <4>1, CarriedOn
      <4> QED BY <2>5, <4>1, <4>2 DEF Moved
    <3>4. CASE Same(old, md)
      BY <1>6, <2>5, <3>2, <3>4 DEF Moved, Same
    <3> QED BY <3>1, <3>3, <3>4
  <2>7. ASSUME NEW i \in DOMAIN orig.methods
        PROVE  IF pass = 2 \/ i < m \/ i = m THEN Moved(orig.methods[i], (c').methods[i])
               ELSE Same(orig.methods[i], (c').methods[i])
    <3>1. CASE i = m
      BY <2>6, <3>1
    <3>2. CASE i # m
      <4>1. (c').methods[i] = c.methods[i]
        BY <2>3, <2>4, <3>2
      <4>2. IF Touched("rewrite", pass, m, i) THEN Moved(orig.methods[i], c.methods[i])
            ELSE Same(orig.methods[i], c.methods[i])
        BY <1>1 DEF GoingInv, ClassOk
      <4> QED BY <3>2, <4>1, <4>2 DEF Touched
    <3> QED BY <3>1, <3>2
  <2>8. ClassOk(orig, c', phase', pass, m') /\ m' \in Nat /\ phase' \in {"load", "mark", "fix"}
    <3>1. SameShape(orig, c) /\ SameShape(orig, c')
      BY <2>3, <2>4 DEF SameShape, l
    <3> QED BY <2>1, <2>3, <2>7, <3>1, Advance
  <2>9. GoingInv'
    BY <1>1, <2>3, <2>8 DEF GoingInv
  <2> QED BY <1>8, <2>9 DEF Inv
<1> QED BY <1>7, <1>8

\* Constants are marked; the methods stay.
LEMMA MarkOthersInv ==
  ASSUME GoingInv, MarkOthers
  PROVE  Inv'
<1>1. /\ exit = "no" /\ phase = "mark" /\ Q = <<>> /\ phase' = "reorder"
      /\ UNCHANGED <<orig, m, pass, exit, Q>>
  BY DEF MarkOthers, Going, bbVars
<1>2. PICK pool : c' = [c EXCEPT !.pool = pool]
  BY DEF MarkOthers
<1>3. SameShape(orig, c) /\ \A n \in DOMAIN orig.methods : Moved(orig.methods[n], c.methods[n])
  BY <1>1 DEF GoingInv, ClassOk, Touched
<1>4. DOMAIN c' = DOMAIN c /\ (c').methods = c.methods
  BY <1>2, <1>3 DEF SameShape
<1>5. ClassOk(orig, c', "reorder", pass, m)
  BY <1>3, <1>4 DEF ClassOk, SameShape, Touched
<1>6. GoingInv'
  BY <1>1, <1>5 DEF GoingInv
<1> QED BY <1>1, <1>6 DEF Inv

\* The second pass begins with methods that the first has written.
LEMMA ReorderInv ==
  ASSUME GoingInv, Reorder
  PROVE  Inv'
<1>1. /\ exit = "no" /\ phase = "reorder" /\ Q = <<>> /\ phase' = "load" /\ pass' = 2
      /\ UNCHANGED <<c, orig, m, exit, Q>>
  BY DEF Reorder, Going, bbVars
<1>2. SameShape(orig, c) /\ \A n \in DOMAIN orig.methods : Moved(orig.methods[n], c.methods[n])
  BY <1>1 DEF GoingInv, ClassOk, Touched
<1>3. ClassOk(orig, c, "load", 2, m)
  BY <1>2 DEF ClassOk, Touched
<1>4. GoingInv'
  BY <1>1, <1>3 DEF GoingInv
<1> QED BY <1>1, <1>4 DEF Inv

\* Methods keep their code and their entries.
LEMMA FixedMethods ==
  ASSUME FixOthers, {"methods", "pool"} \subseteq DOMAIN c,
         NEW l \in Nat, DOMAIN c.methods = 1..l,
         \A n \in 1..l : {"code", "excs"} \subseteq DOMAIN c.methods[n]
  PROVE  /\ {"methods", "pool"} \subseteq DOMAIN c'
         /\ DOMAIN (c').methods = 1..l /\ Len((c').methods) = l
         /\ \A n \in 1..l : /\ {"code", "excs"} \subseteq DOMAIN (c').methods[n]
                            /\ (c').methods[n].code = c.methods[n].code
                            /\ (c').methods[n].excs = c.methods[n].excs
<1> DEFINE renamed(ms) ==
             [n \in DOMAIN ms |-> [ms[n] EXCEPT !.name = fmap[@], !.descr = fmap[@]]]
           moved(con) == [con EXCEPT !.refs = [r \in DOMAIN con.refs |-> fmap[con.refs[r]]]]
           string(idx) == IF idx = 0 THEN 0 ELSE fmap[Const(c, idx).refs[1]]
           this == string(c.this)
           super == string(c.super)
           ifaces == [n \in DOMAIN c.ifaces |-> fmap[c.ifaces[n]]]
           attrs == [n \in DOMAIN c.attrs |-> fmap[c.attrs[n]]]
           fields == renamed(c.fields)
           ms == renamed(c.methods)
           addressable == Cardinality({n \in DOMAIN c.pool : c.pool[n].direct}) + 1
           placed == Cardinality({n \in DOMAIN c.pool : c.pool[n].used}) + 1
           constantRMap(p) == CHOOSE n \in DOMAIN c.pool : fmap[n] = p
           pool == [p \in DOMAIN c.pool |-> moved(c.pool[constantRMap(p)])]
<1>1. c' = [c EXCEPT !.this = this, !.super = super, !.ifaces = ifaces, !.attrs = attrs,
                     !.fields = fields, !.methods = ms, !.addressable = addressable,
                     !.placed = placed, !.pool = pool]
  BY Zenon DEF FixOthers
<1> HIDE DEF this, super, ifaces, attrs, fields, addressable, placed, pool
<1>2. DOMAIN ms = 1..l /\ \A n \in 1..l : ms[n] = [c.methods[n] EXCEPT !.name = fmap[@], !.descr = fmap[@]]
  OBVIOUS
<1>5. Len(ms) = l
  <2>1. Entries(ms, l)
    BY DEF Entries
  <2> QED BY <2>1, EntriesSeq
<1> HIDE DEF ms
<1>3. \A n \in 1..l : /\ {"code", "excs"} \subseteq DOMAIN ms[n]
                      /\ ms[n].code = c.methods[n].code /\ ms[n].excs = c.methods[n].excs
  BY <1>2
<1>4. DOMAIN c' = DOMAIN c /\ (c').methods = ms
  BY <1>1
<1> QED BY <1>2, <1>3, <1>4, <1>5

\* Names and types of methods get new indices; their code stays.
LEMMA FixOthersInv ==
  ASSUME GoingInv, FixOthers
  PROVE  Inv'
<1>1. /\ exit = "no" /\ phase = "fix" /\ Q = <<>> /\ phase' = "export"
      /\ UNCHANGED <<orig, m, pass, exit, Q>>
  BY DEF FixOthers, Going, bbVars
<1>2. SameShape(orig, c) /\ \A n \in DOMAIN orig.methods : Moved(orig.methods[n], c.methods[n])
  BY <1>1 DEF GoingInv, ClassOk, Touched
<1> DEFINE l == Len(orig.methods)
<1>3. /\ l \in Nat /\ DOMAIN orig.methods = 1..l
      /\ {"methods", "pool"} \subseteq DOMAIN c /\ DOMAIN c.methods = 1..l
  BY <1>2, OrigFacts DEF GoingInv, SameShape
<1>4. \A n \in 1..l : {"code", "excs"} \subseteq DOMAIN c.methods[n]
  BY <1>2, <1>3 DEF Moved, Method
<1> HIDE DEF l
<1>5. /\ {"methods", "pool"} \subseteq DOMAIN c'
      /\ DOMAIN (c').methods = 1..l /\ Len((c').methods) = l
      /\ \A n \in 1..l : /\ {"code", "excs"} \subseteq DOMAIN (c').methods[n]
                         /\ (c').methods[n].code = c.methods[n].code
                         /\ (c').methods[n].excs = c.methods[n].excs
  BY <1>3, <1>4, FixedMethods
<1>6. ASSUME NEW n \in 1..l PROVE Moved(orig.methods[n], (c').methods[n])
  <2> DEFINE a == c.methods[n]
             b == (c').methods[n]
  <2>1. Moved(orig.methods[n], a)
    BY <1>2, <1>3
  <2>2. {"code", "excs"} \subseteq DOMAIN b /\ b.code = a.code /\ b.excs = a.excs
    BY <1>5
  <2> HIDE DEF a, b
  <2>3. Moved(orig.methods[n], b)
    BY <2>1, <2>2 DEF Moved, Method
  <2> QED BY <2>3 DEF b
<1>7. ClassOk(orig, c', "export", pass, m)
  BY <1>3, <1>5, <1>6 DEF ClassOk, SameShape, Touched, l
<1>8. GoingInv'
  BY <1>1, <1>7 DEF GoingInv
<1> QED BY <1>1, <1>8 DEF Inv

\* The file is written; the class stays.
LEMMA ExportInv ==
  ASSUME GoingInv, classExport
  PROVE  Inv'
<1>1. /\ exit = "no" /\ phase = "export" /\ Q = <<>> /\ phase' = "done"
      /\ UNCHANGED <<c, orig, m, pass, exit, Q>>
  BY DEF classExport, Going, bbVars
<1>2. SameShape(orig, c) /\ \A n \in DOMAIN orig.methods : Moved(orig.methods[n], c.methods[n])
  BY <1>1 DEF GoingInv, ClassOk, Touched
<1>3. ClassOk(orig, c, "done", pass, m)
  BY <1>2 DEF ClassOk, Touched
<1>4. GoingInv'
  BY <1>1, <1>3 DEF GoingInv
<1> QED BY <1>1, <1>4 DEF Inv

\* Every step keeps the invariant.
LEMMA NextInv ==
  ASSUME Inv, [Next]_vars
  PROVE  Inv'
<1>1. CASE UNCHANGED vars
  <2>1. UNCHANGED <<c, orig, phase, m, k, pass, gCode, bbList, excList, Q, exit>>
    BY <1>1 DEF vars, bbVars
  <2> QED BY <2>1 DEF Inv, GoingInv, Adding, Rewriting
<1>2. CASE Next
  <2>1. exit = "no"
    BY <1>2 DEF Next, LoadCode, SkipMethod, Disassemble, bbPrvRun, AddException, FinishLoading, Rewrite,
                MarkOthers, Reorder, FixOthers, classExport, Going
  <2>2. GoingInv
    BY <2>1 DEF Inv
  <2>3. CASE LoadCode
    BY <2>2, <2>3, LoadCodeInv
  <2>4. CASE SkipMethod
    BY <2>2, <2>4, SkipMethodInv
  <2>5. CASE Disassemble
    BY <2>1, <2>2, <2>5, DisassembleInv
  <2>6. CASE AddException
    BY <2>2, <2>6, AddExceptionInv
  <2>7. CASE FinishLoading
    BY <2>2, <2>7, FinishLoadingInv
  <2>8. CASE Rewrite
    BY <2>2, <2>8, RewriteInv
  <2>9. CASE MarkOthers
    BY <2>2, <2>9, MarkOthersInv
  <2>10. CASE Reorder
    BY <2>2, <2>10, ReorderInv
  <2>11. CASE FixOthers
    BY <2>2, <2>11, FixOthersInv
  <2>12. CASE classExport
    BY <2>2, <2>12, ExportInv
  <2> QED BY <1>2, <2>3, <2>4, <2>5, <2>6, <2>7, <2>8, <2>9, <2>10, <2>11, <2>12 DEF Next
<1> QED BY <1>1, <1>2

\* What a method that has been written says, in the words of the property.
LEMMA MovedTargets ==
  ASSUME NEW o, NEW md, Method(o), Moved(o, md)
  PROVE  LET old == o.code
             new == md.code
             label(a) == IF a = old.len THEN {1} ELSE {Number(old, a)}
         IN  /\ Cardinality(DOMAIN new.at) = Cardinality(DOMAIN old.at)
             /\ \A i \in 1..Cardinality(DOMAIN old.at) : TargetsOf(new, i) = TargetsOf(old, i)
             /\ \A e \in DOMAIN o.excs :
                  LET was == o.excs[e]
                      is == md.excs[e]
                  IN  /\ Number(new, is.start) = Number(old, was.start)
                      /\ Number(new, is.handler) = Number(old, was.handler)
                      /\ Number(new, is.end) \in label(was.end)
<1>1. CASE o.code = NoCode
  <2>1. md.code = o.code /\ DOMAIN o.excs = 1..0
    BY <1>1 DEF Moved, Method
  <2> QED BY <2>1
<1>2. CASE o.code # NoCode
  <2>1. Carried(o.code, o.excs, md.code, md.excs)
    BY <1>2 DEF Moved
  <2> QED BY <2>1 DEF Carried, SameTargets, Label, Count
<1> QED BY <1>1, <1>2

\* The invariant is about all methods when the converter is done.
LEMMA InvTargets ==
  ASSUME Inv
  PROVE  TargetsKept
<1>1. exit \in {"no", "offset", "local", "new"}
  BY DEF Inv
<1>2. ASSUME phase = "done", NEW n \in DOMAIN c.methods
      PROVE  /\ n \in DOMAIN orig.methods /\ Method(orig.methods[n])
             /\ Moved(orig.methods[n], c.methods[n])
  <2>1. GoingInv
    BY <1>2 DEF Inv
  <2> QED BY <1>2, <2>1, OrigFacts DEF GoingInv, ClassOk, SameShape, Touched
<1> QED BY <1>1, <1>2, MovedTargets DEF TargetsKept

\* For every class with code of a compiler, any number of methods, instructions,
\* branches, switches and exception entries: however the passes shorten and lengthen
\* instructions, each target and each entry of the UJC code means the instruction
\* that it meant in the class file, and the converter refuses a method for none but
\* the three reasons (bbPrvRun, bbFinishLoading, bbFinalizeChanges and bbExport in
\* bb.c, and classOptimize).  Addresses are numbers without a bound.
THEOREM AlwaysTargetsKept == Spec => []TargetsKept
<1>1. Init => Inv
  BY InitInv
<1>2. Inv /\ [Next]_vars => Inv'
  BY NextInv
<1>3. Inv => TargetsKept
  BY InvTargets
<1> QED BY <1>1, <1>2, <1>3, PTL DEF Spec
-----------------------------------------------------------------------------
(* Sizes and what they come to. *)

Sizes(s, n) == n \in Nat /\ \A x \in 1..n : s[x] \in Nat

\* f counts up the sizes s.
CountsUp(f, s, n) == f[0] = 0 /\ \A x \in 1..n : f[x] = f[x - 1] + s[x]

\* A function that counts up is what Total computes.
LEMMA TotalIs ==
  ASSUME NEW n \in Nat, NEW s, NEW f, CountsUp(f, s, n)
  PROVE  Total(s, n) = f[n]
<1> DEFINE G(x, h) == IF x = 0 THEN 0 ELSE h[x - 1] + s[x]
           to == CHOOSE h : h = [x \in 0..n |-> G(x, h)]
           g == [x \in 0..n |-> f[x]]
<1>1. g = [x \in 0..n |-> G(x, g)]
  <2> SUFFICES ASSUME NEW x \in 0..n PROVE f[x] = G(x, g)
    OBVIOUS
  <2>1. CASE x = 0
    BY <2>1 DEF CountsUp
  <2>2. CASE x # 0
    <3>1. x \in 1..n /\ x - 1 \in 0..n
      BY <2>2
    <3>2. g[x - 1] = f[x - 1]
      BY <3>1
    <3> HIDE DEF g
    <3> QED BY <2>2, <3>1, <3>2 DEF CountsUp
  <2> QED BY <2>1, <2>2
<1>2. to = [x \in 0..n |-> G(x, to)]
  <2> HIDE DEF G, g
  <2> QED BY <1>1
<1>3. \A x \in 0..n : to[x] = G(x, to)
  <2> HIDE DEF G, to
  <2> QED BY <1>2
<1>4. Total(s, n) = to[n]
  BY DEF Total
<1> HIDE DEF to, g
<1> DEFINE P == {x \in Nat : x <= n => to[x] = f[x]}
<1>5. 0 \in P
  BY <1>3 DEF CountsUp
<1>6. ASSUME NEW x \in Nat, x \in P PROVE x + 1 \in P
  <2> SUFFICES ASSUME x + 1 <= n PROVE to[x + 1] = f[x + 1]
    OBVIOUS
  <2>1. x + 1 \in 1..n /\ x + 1 \in 0..n /\ x + 1 # 0 /\ (x + 1) - 1 = x /\ x <= n
    OBVIOUS
  <2>2. to[x + 1] = to[x] + s[x + 1]
    BY <1>3, <2>1
  <2>3. f[x + 1] = f[x] + s[x + 1]
    BY <2>1 DEF CountsUp
  <2> QED BY <1>6, <2>1, <2>2, <2>3
<1>7. n \in P
  <2> HIDE DEF P
  <2> QED BY <1>5, <1>6, SetInduction
<1> QED BY <1>4, <1>7

\* Total counts up.
LEMMA TotalFacts ==
  ASSUME NEW s, NEW n, Sizes(s, n)
  PROVE  /\ Total(s, 0) = 0
         /\ \A x \in 0..n : Total(s, x) \in Nat
         /\ \A x \in 1..n : Total(s, x) = Total(s, x - 1) + s[x]
<1> DEFINE p == [x \in 1..n |-> x - 1]
           H == [x \in 1..n |-> [y \in Nat |-> y + s[x]]]
<1>1. FromOneBelow(n, Nat, 0, p, H)
  BY DEF FromOneBelow, Sizes
<1>2. \A x \in 1..n : p[x] = x - 1 /\ \A y \in Nat : H[x][y] = y + s[x]
  OBVIOUS
<1> HIDE DEF p, H
<1>3. PICK f : f \in [0..n -> Nat] /\ StepsOf(f, n, 0, p, H)
  BY <1>1, StepFunction
<1>4. n \in Nat
  BY DEF Sizes
<1>5. f[0] = 0
  BY <1>3, <1>4 DEF StepsOf
<1>6. ASSUME NEW x \in 1..n PROVE f[x] = f[x - 1] + s[x]
  <2>1. x \in 0..n /\ x # 0 /\ x - 1 \in 0..n
    BY <1>4
  <2>2. f[x - 1] \in Nat
    BY <1>3, <2>1
  <2>3. f[x] = H[x][f[p[x]]]
    BY <1>3, <2>1 DEF StepsOf
  <2> QED BY <1>2, <2>2, <2>3
<1>7. ASSUME NEW x \in 0..n PROVE Total(s, x) = f[x]
  <2>1. x \in Nat /\ \A y \in 1..x : y \in 1..n
    BY <1>4
  <2>2. CountsUp(f, s, x)
    BY <1>5, <1>6, <2>1 DEF CountsUp
  <2> QED BY <2>1, <2>2, TotalIs
<1>8. 0 \in 0..n /\ \A x \in 1..n : x \in 0..n /\ x - 1 \in 0..n
  BY <1>4
<1> QED BY <1>3, <1>5, <1>6, <1>7, <1>8

\* Sizes that are the same come to the same.
LEMMA TotalSame ==
  ASSUME NEW s, NEW t, NEW n, Sizes(s, n), \A x \in 1..n : t[x] = s[x]
  PROVE  Total(t, n) = Total(s, n)
<1> DEFINE f == [x \in 0..n |-> Total(s, x)]
<1>1. n \in Nat
  BY DEF Sizes
<1>2. \A x \in 1..n : x \in 0..n /\ x - 1 \in 0..n /\ 0 \in 0..n /\ n \in 0..n
  BY <1>1
<1>3. \A x \in 0..n : f[x] = Total(s, x)
  OBVIOUS
<1> HIDE DEF f
<1>4. CountsUp(f, t, n)
  BY <1>1, <1>2, <1>3, TotalFacts DEF CountsUp
<1>5. n \in 0..n
  BY <1>1
<1> QED BY <1>1, <1>3, <1>4, <1>5, TotalIs

\* More sizes come to more.
LEMMA TotalRises ==
  ASSUME NEW s, NEW n, Sizes(s, n), NEW a \in 0..n, NEW b \in 0..n, a <= b
  PROVE  Total(s, a) <= Total(s, b)
<1> DEFINE P == {d \in Nat : a + d <= n => Total(s, a) <= Total(s, a + d)}
<1>1. n \in Nat /\ a \in Nat /\ b \in Nat
  BY DEF Sizes
<1>2. \A x \in 0..n : Total(s, x) \in Nat
  BY TotalFacts
<1>3. 0 \in P
  BY <1>1, <1>2
<1>4. ASSUME NEW d \in Nat, d \in P PROVE d + 1 \in P
  <2> SUFFICES ASSUME a + (d + 1) <= n PROVE Total(s, a) <= Total(s, a + (d + 1))
    OBVIOUS
  <2> DEFINE x == a + (d + 1)
  <2>1. x \in 1..n /\ x \in 0..n /\ x - 1 = a + d /\ a + d \in 0..n /\ a + d <= n
    BY <1>1
  <2> HIDE DEF x
  <2>2. Total(s, x) = Total(s, a + d) + s[x]
    BY <2>1, TotalFacts
  <2>3. s[x] \in Nat /\ Total(s, a) \in Nat /\ Total(s, a + d) \in Nat
    BY <1>2, <2>1 DEF Sizes
  <2>4. Total(s, a) <= Total(s, a + d)
    BY <1>4, <2>1
  <2> QED BY <2>2, <2>3, <2>4 DEF x
<1>5. b - a \in P
  <2>1. b - a \in Nat
    BY <1>1
  <2> HIDE DEF P
  <2> QED BY <1>3, <1>4, <2>1, SetInduction
<1>6. a + (b - a) = b
  BY <1>1
<1> QED BY <1>1, <1>5, <1>6

\* What has a size moves all that follows.
LEMMA TotalJumps ==
  ASSUME NEW s, NEW n, Sizes(s, n), NEW a \in 1..n, NEW b \in 1..n, a < b, s[a] # 0
  PROVE  Total(s, a - 1) < Total(s, b - 1)
<1>1. n \in Nat /\ a - 1 \in 0..n /\ a \in 0..n /\ b - 1 \in 0..n /\ a <= b - 1
  BY DEF Sizes
<1>2. Total(s, a) <= Total(s, b - 1)
  BY <1>1, TotalRises
<1>3. Total(s, a) = Total(s, a - 1) + s[a]
  BY TotalFacts
<1>4. s[a] \in Nat /\ Total(s, a) \in Nat /\ Total(s, a - 1) \in Nat /\ Total(s, b - 1) \in Nat
  BY <1>1, TotalFacts DEF Sizes
<1> QED BY <1>2, <1>3, <1>4

\* Sizes that are sums come to the sum.
LEMMA TotalSum ==
  ASSUME NEW s, NEW t, NEW u, NEW n, Sizes(s, n), Sizes(t, n), \A x \in 1..n : u[x] = s[x] + t[x]
  PROVE  Total(u, n) = Total(s, n) + Total(t, n)
<1> DEFINE f == [x \in 0..n |-> Total(s, x) + Total(t, x)]
<1>1. n \in Nat
  BY DEF Sizes
<1>2. \A x \in 0..n : f[x] = Total(s, x) + Total(t, x)
  OBVIOUS
<1> HIDE DEF f
<1>3. f[0] = 0
  <2>1. 0 \in 0..n
    BY <1>1
  <2> QED BY <1>2, <2>1, TotalFacts
<1>4. ASSUME NEW x \in 1..n PROVE f[x] = f[x - 1] + u[x]
  <2>1. x \in 0..n /\ x - 1 \in 0..n
    BY <1>1
  <2>2. Total(s, x) = Total(s, x - 1) + s[x] /\ Total(t, x) = Total(t, x - 1) + t[x]
    BY TotalFacts
  <2>3. Total(s, x - 1) \in Nat /\ Total(t, x - 1) \in Nat /\ s[x] \in Nat /\ t[x] \in Nat
    BY <2>1, TotalFacts DEF Sizes
  <2> QED BY <1>2, <2>1, <2>2, <2>3
<1>5. CountsUp(f, u, n) /\ n \in 0..n
  BY <1>1, <1>3, <1>4 DEF CountsUp
<1> QED BY <1>1, <1>2, <1>5, TotalIs

\* Sizes that follow others come after what those come to.
LEMMA TotalAfter ==
  ASSUME NEW u, NEW n \in Nat, NEW t, NEW l, Sizes(u, n + l), Sizes(t, l),
         \A x \in 1..l : u[n + x] = t[x], NEW b \in 0..l
  PROVE  Total(u, n + b) = Total(u, n) + Total(t, b)
<1> DEFINE P == {x \in Nat : x <= l => Total(u, n + x) = Total(u, n) + Total(t, x)}
<1>1. l \in Nat
  BY DEF Sizes
<1>2. /\ \A x \in 0..l : n + x \in 0..(n + l)
      /\ \A x \in 1..l : n + x \in 1..(n + l) /\ (n + x) - 1 = n + (x - 1)
      /\ n \in 0..(n + l) /\ 0 \in 0..l /\ n + 0 = n
  BY <1>1
<1>3. 0 \in P
  <2>1. Total(u, n) \in Nat
    BY <1>2, TotalFacts
  <2>2. Total(t, 0) = 0
    BY TotalFacts
  <2>3. Total(u, n + 0) = Total(u, n) + Total(t, 0)
    BY <1>2, <2>1, <2>2
  <2> QED BY <2>3
<1>4. ASSUME NEW x \in Nat, x \in P PROVE x + 1 \in P
  <2> SUFFICES ASSUME x + 1 <= l PROVE Total(u, n + (x + 1)) = Total(u, n) + Total(t, x + 1)
    OBVIOUS
  <2> DEFINE y == x + 1
  <2>1. y \in 1..l /\ y - 1 = x /\ x \in 0..l /\ x <= l
    BY <1>1
  <2> HIDE DEF y
  <2>2. Total(u, n + y) = Total(u, n + x) + u[n + y]
    <3>1. Total(u, n + y) = Total(u, (n + y) - 1) + u[n + y]
      BY <1>2, <2>1, TotalFacts
    <3> QED BY <1>2, <2>1, <3>1
  <2>3. Total(t, y) = Total(t, x) + t[y]
    BY <2>1, TotalFacts
  <2>4. u[n + y] = t[y] /\ t[y] \in Nat /\ Total(t, x) \in Nat /\ Total(u, n) \in Nat
    BY <1>2, <2>1, TotalFacts DEF Sizes
  <2>5. Total(u, n + x) = Total(u, n) + Total(t, x)
    BY <1>4, <2>1
  <2> QED BY <2>2, <2>3, <2>4, <2>5 DEF y
<1>5. b \in P
  <2> HIDE DEF P
  <2> QED BY <1>3, <1>4, SetInduction
<1> QED BY <1>1, <1>5
-----------------------------------------------------------------------------
(* The new order of the constants. *)

Marks(pool, l) ==
  /\ l \in Nat /\ DOMAIN pool = 1..l
  /\ \A n \in 1..l : /\ pool[n].used \in BOOLEAN /\ pool[n].direct \in BOOLEAN
                     /\ pool[n].direct => pool[n].used

\* The constants that come before constant n, and it too.
UpTo(pool, n) ==
  {x \in DOMAIN pool : \/ Kind(pool[x]) < Kind(pool[n])
                       \/ Kind(pool[x]) = Kind(pool[n]) /\ x <= n}
Direct(pool) == {n \in DOMAIN pool : pool[n].direct}
Used(pool) == {n \in DOMAIN pool : pool[n].used}

\* There are three kinds, and the first two are those of the marks.
LEMMA KindFacts ==
  ASSUME NEW pool, NEW l, Marks(pool, l), NEW n \in 1..l
  PROVE  /\ Kind(pool[n]) \in {1, 2, 3}
         /\ pool[n].direct <=> Kind(pool[n]) = 1
         /\ pool[n].used <=> Kind(pool[n]) # 3
BY DEF Marks, Kind

\* Fewer are in a set of constants that has fewer.
LEMMA FewerConstants ==
  ASSUME NEW pool, NEW l, Marks(pool, l), NEW S, NEW T, S \subseteq T, T \subseteq 1..l
  PROVE  /\ IsFiniteSet(S) /\ IsFiniteSet(T)
         /\ Cardinality(S) \in Nat /\ Cardinality(T) \in Nat
         /\ Cardinality(S) <= Cardinality(T) /\ Cardinality(T) <= l
         /\ S # T => Cardinality(S) < Cardinality(T)
<1>1. l \in Nat
  BY DEF Marks
<1>2. IsFiniteSet(1..l) /\ Cardinality(1..l) = l
  BY <1>1, FS_Interval
<1>3. IsFiniteSet(T) /\ Cardinality(T) <= l
  BY <1>2, FS_Subset
<1>4. IsFiniteSet(S) /\ Cardinality(S) <= Cardinality(T) /\ (Cardinality(S) = Cardinality(T) => S = T)
  BY <1>3, FS_Subset
<1>5. Cardinality(S) \in Nat /\ Cardinality(T) \in Nat
  BY <1>3, <1>4, FS_CardinalityType
<1> QED BY <1>3, <1>4, <1>5

\* A new index counts the constants that come before and the constant itself.
LEMMA NewIndexIs ==
  ASSUME NEW pool, NEW n
  PROVE  NewIndex(pool, n) = Cardinality(UpTo(pool, n))
BY DEF NewIndex, UpTo

\* A constant is found among those that are addressed, and among those that are
\* placed, if it is one of them; and one that is addressed has not moved back.
LEMMA NewIndexFacts ==
  ASSUME NEW pool, NEW l, Marks(pool, l), NEW n \in 1..l
  PROVE  /\ NewIndex(pool, n) \in 1..l
         /\ pool[n].direct => NewIndex(pool, n) <= n
         /\ pool[n].direct <=> NewIndex(pool, n) <= Cardinality(Direct(pool))
         /\ pool[n].used <=> NewIndex(pool, n) <= Cardinality(Used(pool))
<1>1. l \in Nat /\ DOMAIN pool = 1..l
  BY DEF Marks
<1> DEFINE S == UpTo(pool, n)
<1>2. S \subseteq 1..l /\ n \in S
  BY <1>1, KindFacts DEF UpTo
<1>3. IsFiniteSet(S) /\ Cardinality(S) \in Nat /\ Cardinality(S) <= l /\ Cardinality(S) # 0
  <2>1. IsFiniteSet(S) /\ Cardinality(S) \in Nat /\ Cardinality(S) <= l
    BY <1>2, FewerConstants
  <2> HIDE DEF S
  <2> QED BY <1>2, <2>1, FS_EmptySet
<1>4. ASSUME pool[n].direct PROVE Cardinality(S) <= n
  <2>1. Kind(pool[n]) = 1
    BY <1>4, KindFacts
  <2>2. S \subseteq 1..n
    BY <1>1, <2>1, KindFacts DEF UpTo
  <2>3. IsFiniteSet(1..n) /\ Cardinality(1..n) = n
    BY <1>1, FS_Interval
  <2> QED BY <2>2, <2>3, FS_Subset
<1>5. pool[n].direct <=> Cardinality(S) <= Cardinality(Direct(pool))
  <2>1. CASE pool[n].direct
    <3>1. S \subseteq Direct(pool)
      BY <1>1, <2>1, KindFacts DEF UpTo, Direct
    <3>2. Direct(pool) \subseteq 1..l
      BY <1>1 DEF Direct
    <3> QED BY <2>1, <3>1, <3>2, FewerConstants
  <2>2. CASE ~pool[n].direct
    <3>1. Direct(pool) \subseteq S /\ n \notin Direct(pool)
      BY <1>1, <2>2, KindFacts DEF UpTo, Direct
    <3>2. Direct(pool) # S
      BY <1>2, <3>1
    <3>3. Cardinality(Direct(pool)) \in Nat /\ Cardinality(Direct(pool)) < Cardinality(S)
      BY <1>2, <3>1, <3>2, FewerConstants
    <3> QED BY <1>3, <2>2, <3>3
  <2>3. pool[n].direct \in BOOLEAN
    BY DEF Marks
  <2> QED BY <2>1, <2>2, <2>3
<1>6. pool[n].used <=> Cardinality(S) <= Cardinality(Used(pool))
  <2>1. CASE pool[n].used
    <3>1. S \subseteq Used(pool)
      BY <1>1, <2>1, KindFacts DEF UpTo, Used
    <3>2. Used(pool) \subseteq 1..l
      BY <1>1 DEF Used
    <3> QED BY <2>1, <3>1, <3>2, FewerConstants
  <2>2. CASE ~pool[n].used
    <3>1. Used(pool) \subseteq S /\ n \notin Used(pool)
      BY <1>1, <2>2, KindFacts DEF UpTo, Used
    <3>2. Used(pool) # S
      BY <1>2, <3>1
    <3>3. Cardinality(Used(pool)) \in Nat /\ Cardinality(Used(pool)) < Cardinality(S)
      BY <1>2, <3>1, <3>2, FewerConstants
    <3> QED BY <1>3, <2>2, <3>3
  <2>3. pool[n].used \in BOOLEAN
    BY DEF Marks
  <2> QED BY <2>1, <2>2, <2>3
<1> HIDE DEF S
<1>7. Cardinality(S) \in 1..l
  BY <1>1, <1>3
<1> QED BY <1>4, <1>5, <1>6, <1>7, NewIndexIs DEF S

\* No two constants have the same new index.
LEMMA NewIndexOneToOne ==
  ASSUME NEW pool, NEW l, Marks(pool, l), NEW a \in 1..l, NEW b \in 1..l,
         NewIndex(pool, a) = NewIndex(pool, b)
  PROVE  a = b
<1>1. l \in Nat /\ DOMAIN pool = 1..l
  BY DEF Marks
<1>2. ASSUME NEW x \in 1..l, NEW y \in 1..l, x # y,
             Kind(pool[x]) < Kind(pool[y]) \/ (Kind(pool[x]) = Kind(pool[y]) /\ x < y)
      PROVE  NewIndex(pool, x) # NewIndex(pool, y)
  <2>1. UpTo(pool, x) \subseteq UpTo(pool, y)
    BY <1>1, <1>2, KindFacts DEF UpTo
  <2>2. y \in UpTo(pool, y) /\ y \notin UpTo(pool, x)
    BY <1>1, <1>2, KindFacts DEF UpTo
  <2>3. UpTo(pool, y) \subseteq 1..l /\ UpTo(pool, x) # UpTo(pool, y)
    BY <1>1, <2>2 DEF UpTo
  <2> QED BY <2>1, <2>3, FewerConstants, NewIndexIs
<1>3. \A x, y \in Int : x < y \/ x = y \/ y < x
  OBVIOUS
<1>4. Kind(pool[a]) \in Int /\ Kind(pool[b]) \in Int /\ a \in Int /\ b \in Int
  BY <1>1, KindFacts
<1> QED BY <1>2, <1>3, <1>4

\* Every index is some constant's.
LEMMA NewIndexOnto ==
  ASSUME NEW pool, NEW l, Marks(pool, l), NEW p \in 1..l
  PROVE  \E n \in 1..l : NewIndex(pool, n) = p
<1> DEFINE f == [n \in 1..l |-> NewIndex(pool, n)]
<1>1. l \in Nat
  BY DEF Marks
<1>2. f \in Injection(1..l, 1..l)
  <2>1. f \in [1..l -> 1..l]
    BY NewIndexFacts
  <2>2. \A a, b \in 1..l : f[a] = f[b] => a = b
    BY NewIndexOneToOne
  <2> HIDE DEF f
  <2> QED BY <2>1, <2>2 DEF Injection, IsInjective
<1>3. f \in Surjection(1..l, 1..l)
  <2> HIDE DEF f
  <2> QED BY <1>1, <1>2, FS_Interval, FS_Injection
<1>4. \E n \in 1..l : f[n] = p
  <2> HIDE DEF f
  <2> QED BY <1>3 DEF Surjection
<1> QED BY <1>4
-----------------------------------------------------------------------------
(* What is at the addresses of the file. *)

Turns == c.placed - 1

\* The constants that are placed, as classExport finds them.
Laid ==
  /\ c.placed \in Nat /\ c.placed # 0 /\ c.addressable \in Nat
  /\ \A n \in 1..Turns : c.pool[n].used = TRUE /\ c.pool[n].size \in Nat /\ c.pool[n].direct \in BOOLEAN

ItemSizes == [x \in DOMAIN Items |-> Items[x].size]

\* The sizes that the two loops add up are numbers.
LEMMA LaidSizes ==
  ASSUME Laid
  PROVE  /\ Turns \in Nat /\ Sizes(StringSz, Turns) /\ Sizes(OtherSz, Turns)
         /\ \A n \in 1..Turns : /\ n \in PlacedStrings => StringSz[n] # 0
                                /\ n \in Addressed(Numbers \cup Members) => OtherSz[n] # 0
<1>1. Turns \in Nat
  BY DEF Laid, Turns
<1>2. ASSUME NEW n \in 1..Turns
      PROVE  /\ StringSz[n] \in Nat /\ OtherSz[n] \in Nat
             /\ n \in PlacedStrings => StringSz[n] # 0
             /\ n \in Addressed(Numbers \cup Members) => OtherSz[n] # 0
  <2>1. c.pool[n].size \in Nat /\ n \in 1..(c.placed - 1)
    BY DEF Laid, Turns
  <2>2. StringSz[n] = IF n \in PlacedStrings THEN 3 + c.pool[n].size ELSE 0
    BY <2>1 DEF StringSz
  <2>3. OtherSz[n] = IF n \notin Addressed(Numbers \cup Members) THEN 0
                     ELSE 1 + IF c.pool[n].type \in Members THEN 9 ELSE c.pool[n].size
    BY <2>1 DEF OtherSz
  <2> QED BY <2>1, <2>2, <2>3
<1> QED BY <1>1, <1>2 DEF Sizes

\* A turn of the first loop, and a turn of the second.
LEMMA ItemsFacts ==
  ASSUME Laid
  PROVE  /\ DOMAIN Items = 1..(Turns + Turns)
         /\ \A n \in 1..Turns :
              /\ Items[n].size = StringSz[n] /\ Items[Turns + n].size = OtherSz[n]
              /\ n \in PlacedStrings => Items[n].val = <<c.pool[n].val>>
              /\ n \in Addressed(Numbers \cup Members) => Items[Turns + n].val = Item(n).val
<1>1. Turns \in Nat /\ Turns = c.placed - 1
  BY DEF Laid, Turns
<1>2. DOMAIN Items = 1..(Turns + Turns)
  BY DEF Items, Turns
<1>3. ASSUME NEW n \in 1..Turns
      PROVE  /\ Items[n].size = StringSz[n]
             /\ n \in PlacedStrings => Items[n].val = <<c.pool[n].val>>
  <2>1. n \in 1..(Turns + Turns) /\ n <= Turns /\ c.pool[n].size \in Nat
    BY <1>1 DEF Laid
  <2>2. Items[n] = IF n \in PlacedStrings THEN Item(n) ELSE [val |-> <<>>, size |-> 0]
    BY <2>1 DEF Items, Turns
  <2>3. StringSz[n] = IF n \in PlacedStrings THEN 3 + c.pool[n].size ELSE 0
    BY <1>1 DEF StringSz
  <2>4. n \in PlacedStrings => Item(n).val = <<c.pool[n].val>> /\ Item(n).size = 1 + 2 + c.pool[n].size
    <3> SUFFICES ASSUME c.pool[n].type = "string"
                 PROVE  Item(n).val = <<c.pool[n].val>> /\ Item(n).size = 1 + 2 + c.pool[n].size
      BY DEF PlacedStrings
    <3>1. c.pool[n].type \notin Numbers /\ c.pool[n].type \notin Members
      BY DEF Members, Numbers
    <3> QED BY <3>1 DEF Item
  <2> QED BY <2>1, <2>2, <2>3, <2>4
<1>4. ASSUME NEW n \in 1..Turns
      PROVE  /\ Items[Turns + n].size = OtherSz[n]
             /\ n \in Addressed(Numbers \cup Members) => Items[Turns + n].val = Item(n).val
  <2>1. Turns + n \in 1..(Turns + Turns) /\ ~(Turns + n <= Turns) /\ (Turns + n) - Turns = n /\ c.pool[n].size \in Nat
    BY <1>1 DEF Laid
  <2>2. Items[Turns + n] = IF n \in Addressed(Numbers \cup Members) THEN Item(n) ELSE [val |-> <<>>, size |-> 0]
    BY <2>1 DEF Items, Turns
  <2>3. OtherSz[n] = IF n \notin Addressed(Numbers \cup Members) THEN 0
                     ELSE 1 + IF c.pool[n].type \in Members THEN 9 ELSE c.pool[n].size
    BY <1>1 DEF OtherSz
  <2>4. n \in Addressed(Numbers \cup Members) => Item(n).size = OtherSz[n]
    <3> SUFFICES ASSUME n \in Addressed(Numbers \cup Members) PROVE Item(n).size = OtherSz[n]
      OBVIOUS
    <3>1. CASE c.pool[n].type \in Members
      <4>1. c.pool[n].type # "string" /\ c.pool[n].type \notin Numbers
        BY <3>1 DEF Members, Numbers
      <4>2. Item(n).size = 1 + 3 + 3 + 3
        BY <3>1, <4>1 DEF Item
      <4> QED BY <2>3, <3>1, <4>2
    <3>2. CASE c.pool[n].type \in Numbers
      <4>1. c.pool[n].type # "string" /\ c.pool[n].type \notin Members
        BY <3>2 DEF Members, Numbers
      <4>2. Item(n).size = 1 + c.pool[n].size
        BY <3>2, <4>1 DEF Item
      <4> QED BY <2>3, <4>1, <4>2
    <3> QED BY <3>1, <3>2 DEF Addressed
  <2> QED BY <2>2, <2>3, <2>4
<1> QED BY <1>2, <1>3, <1>4

\* The sizes of all turns, and what they come to before a turn of each loop.
LEMMA ItemTotals ==
  ASSUME Laid
  PROVE  /\ Sizes(ItemSizes, Turns + Turns)
         /\ \A b \in 0..Turns :
              /\ Total(ItemSizes, b) = Total(StringSz, b)
              /\ Total(ItemSizes, Turns + b) = Total(StringSz, Turns) + Total(OtherSz, b)
<1>1. Turns \in Nat /\ Sizes(StringSz, Turns) /\ Sizes(OtherSz, Turns)
  BY LaidSizes
<1>2. /\ \A n \in 1..Turns : ItemSizes[n] = StringSz[n] /\ ItemSizes[Turns + n] = OtherSz[n]
  <2>1. \A n \in 1..Turns : n \in 1..(Turns + Turns) /\ Turns + n \in 1..(Turns + Turns)
    BY <1>1
  <2> QED BY <2>1, ItemsFacts DEF ItemSizes
<1>3. Sizes(ItemSizes, Turns + Turns)
  <2>1. \A x \in 1..(Turns + Turns) : x \in 1..Turns \/ (x - Turns \in 1..Turns /\ x = Turns + (x - Turns))
    BY <1>1
  <2>2. \A x \in 1..(Turns + Turns) : ItemSizes[x] \in Nat
    BY <1>1, <1>2, <2>1 DEF Sizes
  <2> QED BY <1>1, <2>2 DEF Sizes
<1>4. ASSUME NEW b \in 0..Turns
      PROVE  Total(ItemSizes, b) = Total(StringSz, b)
  <2>1. Sizes(StringSz, b) /\ \A x \in 1..b : ItemSizes[x] = StringSz[x]
    BY <1>1, <1>2 DEF Sizes
  <2> QED BY <2>1, TotalSame
<1>5. ASSUME NEW b \in 0..Turns
      PROVE  Total(ItemSizes, Turns + b) = Total(StringSz, Turns) + Total(OtherSz, b)
  <2>1. Total(ItemSizes, Turns + b) = Total(ItemSizes, Turns) + Total(OtherSz, b)
    BY <1>1, <1>2, <1>3, TotalAfter
  <2>2. Turns \in 0..Turns
    BY <1>1
  <2> QED BY <1>4, <2>1, <2>2
<1> QED BY <1>3, <1>4, <1>5

\* The precalculated sizes are those of what is written.
LEMMA ConstsIs ==
  ASSUME Laid
  PROVE  Consts = Total(StringSz, Turns) + Total(OtherSz, Turns)
<1> DEFINE u == [n \in 1..Turns |-> ConstSz(c.pool[n])]
<1>1. Turns \in Nat /\ Sizes(StringSz, Turns) /\ Sizes(OtherSz, Turns)
  BY LaidSizes
<1>2. ASSUME NEW n \in 1..Turns PROVE u[n] = StringSz[n] + OtherSz[n]
  <2> DEFINE con == c.pool[n]
  <2>1. con.used = TRUE /\ con.size \in Nat /\ con.direct \in BOOLEAN /\ n \in 1..(c.placed - 1)
    BY DEF Laid, Turns
  <2>2. StringSz[n] = IF con.type = "string" THEN 3 + con.size ELSE 0
    BY <2>1 DEF StringSz, PlacedStrings
  <2>3. OtherSz[n] = IF ~(con.direct /\ con.type \in Numbers \cup Members) THEN 0
                     ELSE 1 + IF con.type \in Members THEN 9 ELSE con.size
    BY <2>1 DEF OtherSz, Addressed
  <2>4. u[n] = ConstSz(con)
    OBVIOUS
  <2> HIDE DEF con, u
  <2>5. CASE con.type = "string"
    <3>1. con.type \notin Numbers \cup Members
      BY <2>5 DEF Numbers, Members
    <3>2. ConstSz(con) = 1 + (2 + con.size)
      BY <2>1, <2>5, <3>1 DEF ConstSz
    <3> QED BY <2>1, <2>2, <2>3, <2>4, <2>5, <3>1, <3>2
  <2>6. CASE con.type \in Numbers /\ con.direct
    <3>1. con.type \notin Members /\ con.type # "string"
      BY <2>6 DEF Numbers, Members
    <3>2. ConstSz(con) = 1 + con.size
      BY <2>1, <2>6, <3>1 DEF ConstSz
    <3> QED BY <2>1, <2>2, <2>3, <2>4, <2>6, <3>1, <3>2
  <2>7. CASE con.type \in Members /\ con.direct
    <3>1. con.type \notin Numbers /\ con.type # "string"
      BY <2>7 DEF Numbers, Members
    <3>2. ConstSz(con) = 1 + 9
      BY <2>1, <2>7, <3>1 DEF ConstSz
    <3> QED BY <2>1, <2>2, <2>3, <2>4, <2>7, <3>1, <3>2
  <2>8. CASE con.type # "string" /\ ~(con.direct /\ con.type \in Numbers \cup Members)
    <3>1. ConstSz(con) = 1 + -1
      BY <2>1, <2>8 DEF ConstSz
    <3> QED BY <2>1, <2>2, <2>3, <2>4, <2>8, <3>1
  <2> QED BY <2>1, <2>5, <2>6, <2>7, <2>8
<1>3. Consts = Total(u, Turns)
  BY DEF Consts, Turns
<1> HIDE DEF u
<1> QED BY <1>1, <1>2, <1>3, TotalSum

\* Where what has been written begins is not where anything else does.
LEMMA PositionsDiffer ==
  ASSUME Laid, NEW a \in 1..(Turns + Turns), NEW b \in 1..(Turns + Turns),
         Items[a].size # 0, Items[b].size # 0, Position(Items, a) = Position(Items, b)
  PROVE  a = b
<1>1. Turns + Turns \in Nat /\ DOMAIN Items = 1..(Turns + Turns) /\ Sizes(ItemSizes, Turns + Turns)
  BY LaidSizes, ItemsFacts, ItemTotals
<1>2. Header + Crefs \in Int
  BY DEF Laid, Header, Crefs
<1>3. \A x \in 1..(Turns + Turns) : x - 1 \in 0..(Turns + Turns) /\ Total(ItemSizes, x - 1) \in Nat
  BY <1>1, TotalFacts
<1>4. \A x : Position(Items, x) = Header + Crefs + Total(ItemSizes, x - 1)
  BY DEF Position, ItemSizes
<1>5. Total(ItemSizes, a - 1) = Total(ItemSizes, b - 1)
  BY <1>2, <1>3, <1>4
<1>6. ItemSizes[a] # 0 /\ ItemSizes[b] # 0
  BY <1>1 DEF ItemSizes
<1>7. ASSUME NEW x \in 1..(Turns + Turns), NEW y \in 1..(Turns + Turns), x < y, ItemSizes[x] # 0
      PROVE  Total(ItemSizes, x - 1) < Total(ItemSizes, y - 1)
  BY <1>1, <1>7, TotalJumps
<1>8. ~(a < b) /\ ~(b < a)
  <2>1. Total(ItemSizes, a - 1) \in Nat /\ Total(ItemSizes, b - 1) \in Nat
    BY <1>3
  <2> QED BY <1>5, <1>6, <1>7, <2>1
<1> QED BY <1>1, <1>8

\* What a turn writes is found where it began.
LEMMA ReadBackAt ==
  ASSUME Laid, NEW n \in 1..(Turns + Turns), Items[n].size # 0
  PROVE  Read(UJC, Position(Items, n)) = Items[n].val
<1> DEFINE wrote == {x \in DOMAIN Items : Items[x].size # 0}
           a == Position(Items, n)
<1>1. DOMAIN Items = 1..(Turns + Turns) /\ n \in wrote
  BY ItemsFacts
<1>2. \A x \in wrote : Position(Items, x) = a => x = n
  BY <1>1, PositionsDiffer
<1>3. Written(Items) = [d \in {Position(Items, x) : x \in wrote} |->
                          Items[CHOOSE x \in wrote : Position(Items, x) = d].val]
  BY DEF Written
<1>4. UJC.items = Written(Items)
  BY DEF UJC
<1> HIDE DEF wrote
<1>5. (CHOOSE x \in wrote : Position(Items, x) = a) = n
  BY <1>1, <1>2
<1>6. a \in {Position(Items, x) : x \in wrote}
  BY <1>1
<1> HIDE DEF a
<1>7. a \in DOMAIN UJC.items /\ UJC.items[a] = Items[n].val
  BY <1>3, <1>4, <1>5, <1>6
<1>8. Read(UJC, a) = Items[n].val
  BY <1>7 DEF Read
<1> QED BY <1>8 DEF a

\* A string is found at its address.
LEMMA StringRead ==
  ASSUME Laid, NEW n \in PlacedStrings
  PROVE  StringAddr(n) \in Int /\ Read(UJC, StringAddr(n)) = <<c.pool[n].val>>
<1>1. Turns \in Nat /\ n \in 1..Turns /\ StringSz[n] # 0 /\ Sizes(StringSz, Turns)
  BY LaidSizes DEF PlacedStrings, Turns
<1>2. n - 1 \in 0..Turns /\ n \in 1..(Turns + Turns)
  BY <1>1
<1>3. Items[n].size # 0 /\ Items[n].val = <<c.pool[n].val>> /\ DOMAIN Items = 1..(Turns + Turns)
  BY <1>1, ItemsFacts
<1>4. Total(ItemSizes, n - 1) = Total(StringSz, n - 1) /\ Total(StringSz, n - 1) \in Nat
  BY <1>1, <1>2, ItemTotals, TotalFacts
<1>5. Position(Items, n) = Header + Crefs + Total(ItemSizes, n - 1)
  BY DEF Position, ItemSizes
<1>6. StringAddr(n) = Header + Crefs + Total(StringSz, n - 1)
  BY DEF StringAddr
<1>7. Read(UJC, Position(Items, n)) = <<c.pool[n].val>>
  BY <1>2, <1>3, ReadBackAt
<1>8. Header + Crefs \in Int
  BY DEF Laid, Header, Crefs
<1> QED BY <1>4, <1>5, <1>6, <1>7, <1>8

\* A number or a member is found at the address in the table of references.
LEMMA OtherRead ==
  ASSUME Laid, NEW n \in Addressed(Numbers \cup Members)
  PROVE  Read(UJC, CrefAddr(n)) = Item(n).val
<1>1. Turns \in Nat /\ n \in 1..Turns /\ OtherSz[n] # 0
  BY LaidSizes DEF Addressed, Turns
<1>2. n - 1 \in 0..Turns /\ Turns + n \in 1..(Turns + Turns) /\ (Turns + n) - 1 = Turns + (n - 1)
  BY <1>1
<1>3. Items[Turns + n].size # 0 /\ Items[Turns + n].val = Item(n).val
  BY <1>1, ItemsFacts
<1>4. Total(ItemSizes, Turns + (n - 1)) = Total(StringSz, Turns) + Total(OtherSz, n - 1)
  BY <1>2, ItemTotals
<1>5. Position(Items, Turns + n) = Header + Crefs + Total(ItemSizes, Turns + (n - 1))
  BY <1>2 DEF Position, ItemSizes
<1>6. CrefAddr(n) = Header + Crefs + Total(StringSz, Turns) + Total(OtherSz, n - 1)
  <2>1. c.pool[n].direct /\ c.pool[n].type # "string" /\ c.pool[n].type \notin OneRef
    BY DEF Addressed, Numbers, Members, OneRef
  <2> QED BY <2>1 DEF CrefAddr, Turns
<1>7. CrefAddr(n) = Position(Items, Turns + n)
  <2>1. Header + Crefs \in Int
    BY DEF Laid, Header, Crefs
  <2>2. Total(StringSz, Turns) \in Nat /\ Total(OtherSz, n - 1) \in Nat
    <3>1. Turns \in 0..Turns
      BY <1>1
    <3> QED BY <1>2, <3>1, LaidSizes, TotalFacts
  <2> QED BY <1>4, <1>5, <1>6, <2>1, <2>2
<1>8. Read(UJC, Position(Items, Turns + n)) = Item(n).val
  BY <1>2, <1>3, ReadBackAt
<1> QED BY <1>7, <1>8

\* The sections follow the constants.
LEMMA EndOfConstants ==
  ASSUME Laid
  PROVE  UJC.interfaces = UJC.end + 2 /\ UJC.methods = UJC.end + Interfaces
<1>1. Turns \in 0..Turns /\ 2 * c.placed - 1 - 1 = Turns + Turns
  BY DEF Turns, Laid
<1>2. Total(ItemSizes, Turns + Turns) = Consts
  BY <1>1, ItemTotals, ConstsIs
<1>3. Position(Items, 2 * c.placed - 1) = Header + Crefs + Consts
  <2>1. Position(Items, 2 * c.placed - 1) = Header + Crefs + Total(ItemSizes, 2 * c.placed - 1 - 1)
    BY DEF Position, ItemSizes
  <2> QED BY <1>1, <1>2, <2>1
<1>4. UJC.end = Header + Crefs + Consts /\ UJC.interfaces = Header + Crefs + Consts + 2
      /\ UJC.methods = Header + Crefs + Consts + Interfaces
  BY <1>3 DEF UJC
<1> QED BY <1>4
-----------------------------------------------------------------------------
(* What is named, and the invariant about it: o is the class file, f the new *)
(* indices.                                                                  *)

\* Where the constant idx is, once pass pa is over.
At(f, pa, idx) == IF pa = 1 THEN idx ELSE f[idx]

\* What the instruction w of the class file names has become part of i, in its place.
Holds(o, w, i) ==
  /\ i.idx = 0
  /\ \/ i.op = "push_raw" /\ w.op # "push_raw" /\ i.val = Meaning(o, w.idx)
     \/ /\ i.op \in Accesses /\ o.pool[w.idx].refs[1] = o.this
        /\ FoundLocal(o, i) = Tail(Meaning(o, w.idx))

\* i names what w names, and that has been marked.
Names(o, f, pa, pool, w, i) ==
  \/ i.op = w.op /\ i.idx = At(f, pa, w.idx) /\ (w.idx # 0 => pool[w.idx].direct)
  \/ Holds(o, w, i)

\* A method after pass pa: what its instructions and its exception entries name.
MethodNames(o, f, pa, pool, old, md) ==
  /\ \A j \in 1..Count(old.code) :
       Names(o, f, pa, pool, old.code.at[Address(old.code, j)], md.code.at[Address(md.code, j)])
  /\ \A e \in DOMAIN old.excs :
       /\ md.excs[e].type = At(f, pa, old.excs[e].type)
       /\ old.excs[e].type # 0 => pool[old.excs[e].type].direct

\* The passes that method n has been through.
Passes(ph, pa, x, n) == IF ph \notin {"load", "exc", "rewrite"} \/ n < x THEN pa ELSE pa - 1

AllNames(o, f, ph, pa, x, cls) ==
  \A n \in DOMAIN o.methods :
    Passes(ph, pa, x, n) # 0 =>
      MethodNames(o, f, Passes(ph, pa, x, n), cls.pool, o.methods[n], cls.methods[n])

ConstantFields == {"type", "refs", "val", "size", "used", "direct"}

\* The constants are those of the class file, some of them marked.
SamePool(o, pool) ==
  /\ DOMAIN pool = DOMAIN o.pool
  /\ \A n \in DOMAIN pool :
       /\ ConstantFields \subseteq DOMAIN pool[n]
       /\ pool[n].type = o.pool[n].type /\ pool[n].refs = o.pool[n].refs
       /\ pool[n].val = o.pool[n].val /\ pool[n].size = o.pool[n].size
       /\ pool[n].used \in BOOLEAN /\ pool[n].direct \in BOOLEAN
       /\ pool[n].direct => pool[n].used

MemberFields == {"name", "descr"}
ClassFields ==
  {"pool", "this", "super", "ifaces", "attrs", "fields", "methods", "addressable", "placed"}

\* The tables of the class are those of the class file.
SameTables(o, cls) ==
  /\ ClassFields \subseteq DOMAIN cls
  /\ cls.this = o.this /\ cls.super = o.super /\ cls.ifaces = o.ifaces
  /\ cls.fields = o.fields /\ DOMAIN cls.methods = DOMAIN o.methods
  /\ \A n \in DOMAIN o.methods :
       /\ MemberFields \subseteq DOMAIN cls.methods[n]
       /\ cls.methods[n].name = o.methods[n].name
       /\ cls.methods[n].descr = o.methods[n].descr

\* All that has to be marked has been marked.
Complete(o, pool) ==
  /\ \A n \in Named(o) : pool[n].direct
  /\ \A n \in DOMAIN pool : pool[n].direct => \A x \in Needs(o.pool, o.pool[n]) : pool[x].used

FMap(pool) == [n \in {0} \cup DOMAIN pool |-> IF n = 0 THEN 0 ELSE NewIndex(pool, n)]

\* Before the constants are moved.
Unmoved(o, f, ph, pa, x, cls) ==
  /\ SamePool(o, cls.pool) /\ SameTables(o, cls) /\ AllNames(o, f, ph, pa, x, cls)
  /\ pa \in {1, 2} /\ ph \in {"load", "exc", "rewrite", "mark", "reorder", "fix"}
  /\ ph \in {"mark", "reorder"} => pa = 1 /\ x = 1
  /\ ph = "fix" => pa = 2
  /\ ph = "reorder" \/ pa = 2 => Complete(o, cls.pool)
  /\ pa = 2 => f = FMap(cls.pool)

\* A constant that has been moved.
Renumbered(f, con) == [con EXCEPT !.refs = [r \in DOMAIN @ |-> f[@[r]]]]

\* The class cls has the constants of pool in their new places, and its tables follow.
Rearranged(o, f, pool, cls) ==
  /\ cls.pool = [p \in DOMAIN pool |-> Renumbered(f, pool[CHOOSE n \in DOMAIN pool : f[n] = p])]
  /\ cls.addressable = Cardinality({n \in DOMAIN pool : pool[n].direct}) + 1
  /\ cls.placed = Cardinality({n \in DOMAIN pool : pool[n].used}) + 1
  /\ cls.this = f[o.pool[o.this].refs[1]]
  /\ cls.super = IF o.super = 0 THEN 0 ELSE f[o.pool[o.super].refs[1]]
  /\ cls.ifaces = [n \in DOMAIN o.ifaces |-> f[o.ifaces[n]]]
  /\ DOMAIN cls.fields = DOMAIN o.fields /\ DOMAIN cls.methods = DOMAIN o.methods
  /\ \A n \in DOMAIN o.fields :
       cls.fields[n].name = f[o.fields[n].name] /\ cls.fields[n].descr = f[o.fields[n].descr]
  /\ \A n \in DOMAIN o.methods :
       cls.methods[n].name = f[o.methods[n].name] /\ cls.methods[n].descr = f[o.methods[n].descr]

\* The constants of pool have been moved.
MovedFrom(o, f, pool, cls) ==
  /\ SamePool(o, pool) /\ Complete(o, pool) /\ f = FMap(pool)
  /\ Rearranged(o, f, pool, cls)
  /\ \A n \in DOMAIN o.methods : MethodNames(o, f, 2, pool, o.methods[n], cls.methods[n])

Ready(pool) == MovedFrom(orig, fmap, pool, c)

NamesInv ==
  exit = "no" => CASE phase = "done" -> KeptIn(file)
                   [] phase = "export" -> \E pool : Ready(pool)
                   [] OTHER -> Unmoved(orig, fmap, phase, pass, m, c)
-----------------------------------------------------------------------------
(* What the constants have become. *)

\* The constants of a class file.
LEMMA OrigPool ==
  ASSUME orig \in Classes
  PROVE  /\ Len(orig.pool) \in Nat /\ DOMAIN orig.pool = 1..Len(orig.pool)
         /\ \A n \in 1..Len(orig.pool) : Constant(orig, orig.pool[n])
BY ClassesAssumption DEF List, Const

\* A constant refers to constants.
LEMMA RefersWell ==
  ASSUME orig \in Classes, NEW n \in 1..Len(orig.pool)
  PROVE  LET con == orig.pool[n]
             l == Len(orig.pool)
             is(r, type) == con.refs[r] \in 1..l /\ orig.pool[con.refs[r]].type = type
         IN  /\ con.size \in Nat
             /\ con.type \in OneRef => DOMAIN con.refs = {1} /\ is(1, "string")
             /\ con.type \in Members => DOMAIN con.refs = {1, 2} /\ is(1, "class") /\ is(2, "nti")
             /\ con.type = "nti" => DOMAIN con.refs = {1, 2} /\ is(1, "string") /\ is(2, "string")
<1>1. Constant(orig, orig.pool[n]) /\ DOMAIN orig.pool = 1..Len(orig.pool)
  BY OrigPool
<1> QED BY <1>1 DEF Constant, IsConst, Const

\* The constants have the marks that their order goes by.
LEMMA SamePoolMarks ==
  ASSUME orig \in Classes, NEW pool, SamePool(orig, pool)
  PROVE  Marks(pool, Len(orig.pool))
BY OrigPool DEF SamePool, Marks

\* Every constant has its new place, and what is addressed or placed comes first.
LEMMA Reordered ==
  ASSUME orig \in Classes, NEW pool, Ready(pool)
  PROVE  LET l == Len(orig.pool)
         IN  /\ l \in Nat /\ DOMAIN pool = 1..l /\ DOMAIN c.pool = 1..l /\ fmap[0] = 0
             /\ c.addressable - 1 \in 0..l /\ c.placed - 1 \in 0..l
             /\ c.addressable \in Nat /\ c.placed \in Nat
             /\ \A n \in 1..l : /\ fmap[n] \in 1..l /\ c.pool[fmap[n]] = Renumbered(fmap, pool[n])
                                /\ pool[n].direct <=> fmap[n] \in 1..(c.addressable - 1)
                                /\ pool[n].used <=> fmap[n] \in 1..(c.placed - 1)
                                /\ pool[n].direct => pool[n].used
             /\ \A p \in 1..l : \E n \in 1..l : fmap[n] = p
<1> DEFINE l == Len(orig.pool)
           back(p) == CHOOSE n \in DOMAIN pool : fmap[n] = p
<1>1. l \in Nat /\ DOMAIN pool = 1..l /\ Marks(pool, l)
  BY OrigPool, SamePoolMarks DEF Ready, MovedFrom, SamePool
<1>2. /\ fmap = FMap(pool) /\ DOMAIN c.pool = DOMAIN pool
      /\ c.pool = [p \in DOMAIN pool |-> Renumbered(fmap, pool[back(p)])]
      /\ c.addressable = Cardinality(Direct(pool)) + 1 /\ c.placed = Cardinality(Used(pool)) + 1
  BY DEF Ready, MovedFrom, Rearranged, Direct, Used
<1> HIDE DEF l
<1>3. fmap[0] = 0 /\ \A n \in 1..l : fmap[n] = NewIndex(pool, n)
  BY <1>1, <1>2 DEF FMap
<1>4. Direct(pool) \subseteq 1..l /\ Used(pool) \subseteq 1..l
  BY <1>1 DEF Direct, Used
<1>5. /\ Cardinality(Direct(pool)) \in Nat /\ Cardinality(Direct(pool)) <= l
      /\ Cardinality(Used(pool)) \in Nat /\ Cardinality(Used(pool)) <= l
  BY <1>1, <1>4, FewerConstants
<1>6. ASSUME NEW n \in 1..l
      PROVE  /\ fmap[n] \in 1..l /\ c.pool[fmap[n]] = Renumbered(fmap, pool[n])
             /\ pool[n].direct <=> fmap[n] \in 1..(c.addressable - 1)
             /\ pool[n].used <=> fmap[n] \in 1..(c.placed - 1)
             /\ pool[n].direct => pool[n].used
  <2>1. /\ fmap[n] \in 1..l
        /\ pool[n].direct <=> fmap[n] <= Cardinality(Direct(pool))
        /\ pool[n].used <=> fmap[n] <= Cardinality(Used(pool))
    BY <1>1, <1>3, NewIndexFacts
  <2>2. back(fmap[n]) = n
    BY <1>1, <1>3, NewIndexOneToOne
  <2>3. c.pool[fmap[n]] = Renumbered(fmap, pool[n])
    <3> HIDE DEF back
    <3> QED BY <1>1, <1>2, <2>1, <2>2
  <2>4. pool[n].direct => pool[n].used
    BY <1>1 DEF Marks
  <2>5. c.addressable - 1 = Cardinality(Direct(pool)) /\ c.placed - 1 = Cardinality(Used(pool))
    BY <1>2, <1>5
  <2> QED BY <1>5, <2>1, <2>3, <2>4, <2>5
<1>7. \A p \in 1..l : \E n \in 1..l : fmap[n] = p
  <2> HIDE DEF back
  <2> TAKE p \in 1..l
  <2>1. PICK n \in 1..l : NewIndex(pool, n) = p
    BY <1>1, NewIndexOnto
  <2> QED BY <1>3, <2>1
<1>8. c.addressable \in Nat /\ c.placed \in Nat /\ c.addressable - 1 \in 0..l /\ c.placed - 1 \in 0..l
  BY <1>1, <1>2, <1>5
<1> QED BY <1>1, <1>2, <1>3, <1>6, <1>7, <1>8 DEF l

\* A constant in its new place is what it was, with the new places of what it refers to.
LEMMA MovedFields ==
  ASSUME orig \in Classes, NEW pool, Ready(pool), NEW n \in 1..Len(orig.pool)
  PROVE  LET con == c.pool[fmap[n]]
             was == orig.pool[n]
         IN  /\ con.type = was.type /\ con.val = was.val /\ con.size = was.size
             /\ con.used = pool[n].used /\ con.direct = pool[n].direct
             /\ con.used \in BOOLEAN /\ con.direct \in BOOLEAN
             /\ \A r \in DOMAIN was.refs : con.refs[r] = fmap[was.refs[r]]
<1>1. c.pool[fmap[n]] = Renumbered(fmap, pool[n]) /\ n \in DOMAIN pool
  BY Reordered
<1>2. /\ ConstantFields \subseteq DOMAIN pool[n]
      /\ pool[n].type = orig.pool[n].type /\ pool[n].refs = orig.pool[n].refs
      /\ pool[n].val = orig.pool[n].val /\ pool[n].size = orig.pool[n].size
      /\ pool[n].used \in BOOLEAN /\ pool[n].direct \in BOOLEAN
  BY <1>1 DEF Ready, MovedFrom, SamePool
<1> QED BY <1>1, <1>2 DEF Renumbered, ConstantFields

\* Their references are to the new places.
LEMMA MovedRefs ==
  ASSUME orig \in Classes, NEW pool, Ready(pool), NEW n \in 1..Len(orig.pool),
         NEW r \in DOMAIN orig.pool[n].refs
  PROVE  c.pool[fmap[n]].refs[r] = fmap[orig.pool[n].refs[r]]
BY MovedFields

\* Constants that have been moved can be laid out.
LEMMA ReadyLaid ==
  ASSUME orig \in Classes, NEW pool, Ready(pool)
  PROVE  Laid
<1> DEFINE l == Len(orig.pool)
<1>1. /\ l \in Nat /\ c.addressable \in Nat /\ c.placed \in Nat /\ c.placed - 1 \in 0..l
      /\ \A n \in 1..l : pool[n].used <=> fmap[n] \in 1..(c.placed - 1)
      /\ \A p \in 1..l : \E n \in 1..l : fmap[n] = p
  BY Reordered
<1>2. ASSUME NEW p \in 1..Turns
      PROVE  c.pool[p].used = TRUE /\ c.pool[p].size \in Nat /\ c.pool[p].direct \in BOOLEAN
  <2>1. p \in 1..l /\ p \in 1..(c.placed - 1)
    BY <1>1 DEF Turns
  <2>2. PICK n \in 1..l : fmap[n] = p
    BY <1>1, <2>1
  <2>3. pool[n].used
    BY <1>1, <2>1, <2>2
  <2>4. /\ c.pool[p].used = pool[n].used /\ c.pool[p].direct \in BOOLEAN /\ pool[n].used \in BOOLEAN
        /\ c.pool[p].size = orig.pool[n].size
    BY <2>2, MovedFields
  <2>5. orig.pool[n].size \in Nat
    BY RefersWell
  <2> QED BY <2>3, <2>4, <2>5
<1>3. c.placed # 0
  BY <1>1
<1> QED BY <1>1, <1>2, <1>3 DEF Laid

\* A string that has been placed is found at its address.
LEMMA StringFound ==
  ASSUME orig \in Classes, NEW pool, Ready(pool), NEW n \in 1..Len(orig.pool),
         orig.pool[n].type = "string", pool[n].used
  PROVE  /\ StringAddr(fmap[n]) \in Int
         /\ Read(UJC, StringAddr(fmap[n])) = <<orig.pool[n].val>>
<1>1. fmap[n] \in 1..(c.placed - 1)
  BY Reordered
<1>2. c.pool[fmap[n]].type = "string" /\ c.pool[fmap[n]].used /\ c.pool[fmap[n]].val = orig.pool[n].val
  BY MovedFields
<1>3. fmap[n] \in PlacedStrings
  BY <1>1, <1>2 DEF PlacedStrings
<1> QED BY <1>2, <1>3, ReadyLaid, StringRead

\* Everything that a directly used constant needs has been placed.
LEMMA NeedsPlaced ==
  ASSUME orig \in Classes, NEW pool, Ready(pool), NEW n \in 1..Len(orig.pool), pool[n].direct
  PROVE  \A x \in Needs(orig.pool, orig.pool[n]) : pool[x].used
BY Reordered DEF Ready, MovedFrom, Complete

\* A directly used constant is found by its new index.
LEMMA ConstantFound ==
  ASSUME orig \in Classes, NEW pool, Ready(pool), NEW n \in 1..Len(orig.pool), pool[n].direct,
         orig.pool[n].type \in {"string"} \cup OneRef \cup Numbers \cup Members
  PROVE  fmap[n] # 0 /\ Found(UJC, fmap[n]) = Meaning(orig, n)
<1> DEFINE l == Len(orig.pool)
           was == orig.pool[n]
           con == c.pool[fmap[n]]
           a == CrefAddr(fmap[n])
<1>1. l \in Nat /\ fmap[n] \in 1..(c.addressable - 1) /\ fmap[n] \in 1..(c.placed - 1) /\ pool[n].used
  BY Reordered
<1>2. UJC.crefs = [x \in 1..(c.addressable - 1) |-> CrefAddr(x)]
  BY DEF UJC
<1>3. fmap[n] \in DOMAIN UJC.crefs /\ UJC.crefs[fmap[n]] = a
  BY <1>1, <1>2
<1>4. Found(UJC, fmap[n]) = IF Len(Read(UJC, a)) = 3
                            THEN [j \in 1..3 |-> Text(UJC, Read(UJC, a)[j] - 1)] ELSE Read(UJC, a)
  BY <1>3 DEF Found
<1>5. fmap[n] # 0
  BY <1>1
<1>6. con.type = was.type /\ con.direct /\ \A r \in DOMAIN was.refs : con.refs[r] = fmap[was.refs[r]]
  BY MovedFields
<1>7. CASE was.type = "string"
  <2>1. a = StringAddr(fmap[n])
    BY <1>6, <1>7 DEF CrefAddr, OneRef
  <2>2. Read(UJC, a) = <<was.val>>
    BY <1>1, <1>7, <2>1, StringFound
  <2>3. Meaning(orig, n) = <<was.val>>
    BY <1>7 DEF Meaning, OneRef, Members
  <2>4. Len(<<was.val>>) = 1
    OBVIOUS
  <2> HIDE DEF was, a
  <2> QED BY <1>4, <1>5, <2>2, <2>3, <2>4
<1>8. CASE was.type \in OneRef
  <2>1. DOMAIN was.refs = {1} /\ was.refs[1] \in 1..l /\ orig.pool[was.refs[1]].type = "string"
    BY <1>8, RefersWell
  <2>2. was.type # "string"
    BY <1>8 DEF OneRef
  <2>3. a = StringAddr(fmap[was.refs[1]])
    BY <1>6, <1>8, <2>1, <2>2 DEF CrefAddr
  <2>4. pool[was.refs[1]].used
    <3>1. was.refs[1] \in Needs(orig.pool, was)
      BY <1>8 DEF Needs, OneRef, Members
    <3> QED BY <3>1, NeedsPlaced
  <2>5. Read(UJC, a) = <<orig.pool[was.refs[1]].val>>
    BY <2>1, <2>3, <2>4, StringFound
  <2>6. Meaning(orig, n) = <<orig.pool[was.refs[1]].val>>
    BY <1>8 DEF Meaning, OneRef, Members
  <2>7. Len(<<orig.pool[was.refs[1]].val>>) = 1
    OBVIOUS
  <2> HIDE DEF was, a
  <2> QED BY <1>4, <1>5, <2>5, <2>6, <2>7
<1>9. CASE was.type \in Numbers
  <2>1. was.type # "string" /\ was.type \notin OneRef /\ was.type \notin Members
    BY <1>9 DEF OneRef, Numbers, Members
  <2>2. fmap[n] \in Addressed(Numbers \cup Members)
    BY <1>1, <1>6, <1>9 DEF Addressed
  <2>3. Read(UJC, a) = Item(fmap[n]).val
    BY <2>2, ReadyLaid, OtherRead
  <2>4. Item(fmap[n]).val = <<con.val>>
    BY <1>6, <1>9, <2>1 DEF Item
  <2>5. con.val = was.val
    BY MovedFields
  <2>6. Meaning(orig, n) = <<was.val>>
    BY <2>1 DEF Meaning
  <2>7. Len(<<was.val>>) = 1
    OBVIOUS
  <2> HIDE DEF was, a, con
  <2> QED BY <1>4, <1>5, <2>3, <2>4, <2>5, <2>6, <2>7
<1>10. CASE was.type \in Members
  <2>1. was.type # "string" /\ was.type \notin OneRef /\ was.type \notin Numbers
    BY <1>10 DEF OneRef, Numbers, Members
  <2> DEFINE x == was.refs[1]
             y == was.refs[2]
             sx == orig.pool[x].refs[1]
             sy == orig.pool[y].refs[1]
             sz == orig.pool[y].refs[2]
  <2>2. DOMAIN was.refs = {1, 2} /\ x \in 1..l /\ y \in 1..l /\ orig.pool[x].type = "class"
        /\ orig.pool[y].type = "nti"
    BY <1>10, RefersWell
  <2>3. DOMAIN orig.pool[x].refs = {1} /\ sx \in 1..l /\ orig.pool[sx].type = "string"
    BY <2>2, RefersWell DEF OneRef
  <2>4. DOMAIN orig.pool[y].refs = {1, 2} /\ sy \in 1..l /\ sz \in 1..l
        /\ orig.pool[sy].type = "string" /\ orig.pool[sz].type = "string"
    BY <2>2, RefersWell
  <2>5. con.refs[1] = fmap[x] /\ con.refs[2] = fmap[y]
    BY <1>6, <2>2
  <2>6. c.pool[fmap[x]].refs[1] = fmap[sx] /\ c.pool[fmap[y]].refs[1] = fmap[sy]
        /\ c.pool[fmap[y]].refs[2] = fmap[sz]
    <3> HIDE DEF x, y
    <3>1. \A r \in {1} : c.pool[fmap[x]].refs[r] = fmap[orig.pool[x].refs[r]]
      BY <2>2, <2>3, MovedRefs
    <3>2. \A r \in {1, 2} : c.pool[fmap[y]].refs[r] = fmap[orig.pool[y].refs[r]]
      <4>1. y \in 1..Len(orig.pool) /\ DOMAIN orig.pool[y].refs = {1, 2}
        BY <2>2, <2>4
      <4> QED BY <4>1, MovedRefs
    <3> QED BY <3>1, <3>2
  <2>7. fmap[n] \in Addressed(Numbers \cup Members)
    BY <1>1, <1>6, <1>10 DEF Addressed
  <2>8. Read(UJC, a) = Item(fmap[n]).val
    BY <2>7, ReadyLaid, OtherRead
  <2>9. Item(fmap[n]).val = <<StringAddr(fmap[sx]) + 1, StringAddr(fmap[sy]) + 1, StringAddr(fmap[sz]) + 1>>
    BY <1>6, <1>10, <2>1, <2>5, <2>6 DEF Item
  <2>10. pool[sx].used /\ pool[sy].used /\ pool[sz].used
    <3>1. Needs(orig.pool, was) = {sx} \cup Range(orig.pool[y].refs)
      BY <1>10, <2>1 DEF Needs
    <3>2. sx \in Needs(orig.pool, was) /\ sy \in Needs(orig.pool, was) /\ sz \in Needs(orig.pool, was)
      BY <2>4, <3>1 DEF Range
    <3> QED BY <3>2, NeedsPlaced
  <2>11. ASSUME NEW s \in {sx, sy, sz}
         PROVE  /\ (StringAddr(fmap[s]) + 1) - 1 = StringAddr(fmap[s])
                /\ Text(UJC, StringAddr(fmap[s])) = orig.pool[s].val
    <3>1. StringAddr(fmap[s]) \in Int /\ Read(UJC, StringAddr(fmap[s])) = <<orig.pool[s].val>>
      BY <2>3, <2>4, <2>10, StringFound
    <3>2. <<orig.pool[s].val>> # <<>> /\ <<orig.pool[s].val>>[1] = orig.pool[s].val
      OBVIOUS
    <3> QED BY <3>1, <3>2 DEF Text
  <2>12. Meaning(orig, n) = <<orig.pool[sx].val, orig.pool[sy].val, orig.pool[sz].val>>
    BY <1>10, <2>1 DEF Meaning
  <2> HIDE DEF was, a, con, x, y, sx, sy, sz
  <2> DEFINE there == Read(UJC, a)
  <2>13. there[1] = StringAddr(fmap[sx]) + 1 /\ there[2] = StringAddr(fmap[sy]) + 1
         /\ there[3] = StringAddr(fmap[sz]) + 1 /\ Len(there) = 3
    BY <2>8, <2>9
  <2> HIDE DEF there
  <2>14. Text(UJC, there[1] - 1) = orig.pool[sx].val /\ Text(UJC, there[2] - 1) = orig.pool[sy].val
         /\ Text(UJC, there[3] - 1) = orig.pool[sz].val
    BY <2>11, <2>13
  <2>15. Found(UJC, fmap[n]) = [j \in 1..3 |-> Text(UJC, there[j] - 1)]
    BY <1>4, <2>13 DEF there
  <2>16. [j \in 1..3 |-> Text(UJC, there[j] - 1)] =
           <<orig.pool[sx].val, orig.pool[sy].val, orig.pool[sz].val>>
    BY <2>14
  <2> QED BY <1>5, <2>12, <2>15, <2>16
<1> QED BY <1>7, <1>8, <1>9, <1>10
-----------------------------------------------------------------------------
(* The file of a class whose constants have been moved. *)

IsA(n, types) == n \in 1..Len(orig.pool) /\ orig.pool[n].type \in types

\* The tables of a class name constants.
LEMMA TableFacts ==
  ASSUME orig \in Classes
  PROVE  /\ IsA(orig.this, {"class"}) /\ (orig.super = 0 \/ IsA(orig.super, {"class"}))
         /\ \A n \in DOMAIN orig.ifaces : IsA(orig.ifaces[n], {"class"})
         /\ \A n \in DOMAIN orig.fields : IsA(orig.fields[n].name, {"string"}) /\ IsA(orig.fields[n].descr, {"string"})
         /\ \A n \in DOMAIN orig.methods : IsA(orig.methods[n].name, {"string"}) /\ IsA(orig.methods[n].descr, {"string"})
<1>1. DOMAIN orig.pool = 1..Len(orig.pool)
  BY OrigPool
<1>2. \A n, types : IsConst(orig, n, types) => IsA(n, types)
  BY <1>1 DEF IsConst, IsA, Const
<1>3. /\ IsConst(orig, orig.this, {"class"}) /\ (orig.super = 0 \/ IsConst(orig, orig.super, {"class"}))
      /\ \A n \in DOMAIN orig.ifaces : IsConst(orig, orig.ifaces[n], {"class"})
  BY ClassesAssumption
<1>4. \A member \in Range(orig.fields) \cup Range(orig.methods) :
        IsConst(orig, member.name, {"string"}) /\ IsConst(orig, member.descr, {"string"})
  BY ClassesAssumption
<1>5. /\ \A n \in DOMAIN orig.fields : orig.fields[n] \in Range(orig.fields)
      /\ \A n \in DOMAIN orig.methods : orig.methods[n] \in Range(orig.methods)
  BY DEF Range
<1> QED BY <1>2, <1>3, <1>4, <1>5

\* The names of a class are among those that are marked.
LEMMA NamedFacts ==
  ASSUME orig \in Classes
  PROVE  /\ orig.pool[orig.this].refs[1] \in Named(orig)
         /\ orig.super # 0 => orig.pool[orig.super].refs[1] \in Named(orig)
         /\ \A n \in DOMAIN orig.ifaces : orig.ifaces[n] \in Named(orig)
         /\ \A n \in DOMAIN orig.fields : orig.fields[n].name \in Named(orig) /\ orig.fields[n].descr \in Named(orig)
         /\ \A n \in DOMAIN orig.methods : orig.methods[n].name \in Named(orig) /\ orig.methods[n].descr \in Named(orig)
<1> DEFINE members == Range(orig.fields) \cup Range(orig.methods)
<1>1. \A f \in members : f.name \in Named(orig) /\ f.descr \in Named(orig)
  BY DEF Named
<1>2. /\ \A n \in DOMAIN orig.fields : orig.fields[n] \in members
      /\ \A n \in DOMAIN orig.methods : orig.methods[n] \in members
      /\ \A n \in DOMAIN orig.ifaces : orig.ifaces[n] \in Range(orig.ifaces)
  BY DEF Range
<1> HIDE DEF members
<1> QED BY <1>1, <1>2 DEF Named, Const

\* The instructions and the exception entries of a method name constants.
LEMMA CodeFacts ==
  ASSUME orig \in Classes, NEW n \in DOMAIN orig.methods
  PROVE  LET md == orig.methods[n]
         IN  /\ Method(md)
             /\ \A j \in 1..Count(md.code) : /\ md.code # NoCode
                                             /\ Address(md.code, j) \in DOMAIN md.code.at
                                             /\ Instruction(orig, md.code.at[Address(md.code, j)])
             /\ \A e \in DOMAIN md.excs : md.excs[e].type = 0 \/ IsA(md.excs[e].type, {"class"})
<1> DEFINE md == orig.methods[n]
<1>1. /\ Method(md) /\ \A a \in DOMAIN md.code.at : Instruction(orig, md.code.at[a])
      /\ \A e \in DOMAIN md.excs : md.excs[e].type = 0 \/ IsConst(orig, md.excs[e].type, {"class"})
  BY ClassesAssumption
<1> HIDE DEF md
<1>2. ASSUME NEW j \in 1..Count(md.code)
      PROVE  md.code # NoCode /\ Address(md.code, j) \in DOMAIN md.code.at
  <2>1. md.code # NoCode
    <3>1. DOMAIN NoCode.at = {}
      BY DEF NoCode
    <3>2. Count(NoCode) = 0
      BY <3>1, FS_EmptySet DEF Count
    <3> QED BY <3>2
  <2>2. WellFormed(md.code)
    BY <1>1, <2>1 DEF Method
  <2> QED BY <2>1, <2>2, AddressFacts
<1>3. DOMAIN orig.pool = 1..Len(orig.pool)
  BY OrigPool
<1>4. \A e \in DOMAIN md.excs : md.excs[e].type = 0 \/ IsA(md.excs[e].type, {"class"})
  BY <1>1, <1>3 DEF IsConst, IsA, Const
<1> QED BY <1>1, <1>2, <1>4 DEF md

\* An instruction that names in the new pool what it named in the old one.
LEMMA NamesFound ==
  ASSUME orig \in Classes, NEW pool, Ready(pool), NEW w, Instruction(orig, w), NEW i, Names(orig, fmap, 2, pool, w, i)
  PROVE  SameReference(UJC, w, i)
<1> DEFINE l == Len(orig.pool)
<1>1. DOMAIN orig.pool = 1..l /\ fmap[0] = 0
  BY OrigPool, Reordered
<1>2. CASE Holds(orig, w, i)
  BY <1>2 DEF Holds, SameReference, Accesses, Access
<1>3. CASE i.op = w.op /\ i.idx = fmap[w.idx] /\ (w.idx # 0 => pool[w.idx].direct)
  <2>1. CASE w.idx = 0
    <3>1. i.idx = 0 /\ i.op = w.op
      BY <1>1, <1>3, <2>1
    <3>2. w.op \notin Accesses
      BY <2>1 DEF Instruction
    <3> QED BY <2>1, <3>1, <3>2 DEF SameReference
  <2>2. CASE w.idx # 0
    <3>1. w.idx \in 1..l /\ orig.pool[w.idx].type \in Operands(w.op)
      BY <1>1, <2>2 DEF Instruction, IsConst, Const
    <3>2. Operands(w.op) \subseteq {"string"} \cup OneRef \cup Numbers \cup Members
      BY DEF Operands, OneRef, Numbers, Members
    <3>3. fmap[w.idx] # 0 /\ Found(UJC, fmap[w.idx]) = Meaning(orig, w.idx)
      BY <1>3, <2>2, <3>1, <3>2, ConstantFound
    <3> QED BY <1>3, <3>3 DEF SameReference
  <2> QED BY <2>1, <2>2
<1> QED BY <1>2, <1>3 DEF Names, At

\* classExport writes a file in which everything is found.
LEMMA ExportKeeps ==
  ASSUME orig \in Classes, NEW pool, Ready(pool)
  PROVE  KeptIn(UJC)
<1>1. /\ Complete(orig, pool) /\ Rearranged(orig, fmap, pool, c)
      /\ \A n \in DOMAIN orig.methods : MethodNames(orig, fmap, 2, pool, orig.methods[n], c.methods[n])
  BY DEF Ready, MovedFrom
<1> DEFINE renamed(is, was) == is.name = fmap[was.name] /\ is.descr = fmap[was.descr]
<1>2. /\ c.this = fmap[orig.pool[orig.this].refs[1]]
      /\ c.super = IF orig.super = 0 THEN 0 ELSE fmap[orig.pool[orig.super].refs[1]]
      /\ c.ifaces = [n \in DOMAIN orig.ifaces |-> fmap[orig.ifaces[n]]]
      /\ DOMAIN c.fields = DOMAIN orig.fields /\ DOMAIN c.methods = DOMAIN orig.methods
      /\ \A n \in DOMAIN orig.fields : renamed(c.fields[n], orig.fields[n])
      /\ \A n \in DOMAIN orig.methods : renamed(c.methods[n], orig.methods[n])
  BY <1>1 DEF Rearranged
<1>3. DOMAIN c.ifaces = DOMAIN orig.ifaces /\ \A n \in DOMAIN orig.ifaces : c.ifaces[n] = fmap[orig.ifaces[n]]
  BY <1>2
<1>4. /\ UJC.this = c.this /\ UJC.super = c.super
      /\ UJC.ifaceList = [n \in DOMAIN c.ifaces |-> StringAddr(c.pool[c.ifaces[n]].refs[1])]
      /\ \A n \in DOMAIN c.methods : /\ UJC.methodList[n].name = StringAddr(c.methods[n].name)
                                     /\ UJC.methodList[n].descr = StringAddr(c.methods[n].descr)
      /\ \A n \in DOMAIN c.fields : /\ UJC.fieldList[n].name = StringAddr(c.fields[n].name)
                                    /\ UJC.fieldList[n].descr = StringAddr(c.fields[n].descr)
  BY DEF UJC
<1>5. \A n \in Named(orig) : pool[n].direct
  BY <1>1 DEF Complete
<1>6. ASSUME NEW n, IsA(n, {"string"}), pool[n].used
      PROVE  Read(UJC, StringAddr(fmap[n])) = Meaning(orig, n)
  <2>1. Read(UJC, StringAddr(fmap[n])) = <<orig.pool[n].val>>
    BY <1>6, StringFound DEF IsA
  <2>2. Meaning(orig, n) = <<orig.pool[n].val>>
    BY <1>6 DEF IsA, Meaning, OneRef, Members
  <2> QED BY <2>1, <2>2
<1>7. ASSUME NEW n, IsA(n, {"string"}), n \in Named(orig)
      PROVE  Read(UJC, StringAddr(fmap[n])) = Meaning(orig, n)
  <2>1. pool[n].used
    BY <1>5, <1>7, Reordered DEF IsA
  <2> QED BY <1>6, <1>7, <2>1
<1>8. ASSUME NEW n, IsA(n, {"class"}), orig.pool[n].refs[1] \in Named(orig)
      PROVE  Found(UJC, fmap[orig.pool[n].refs[1]]) = Meaning(orig, n)
  <2> DEFINE s == orig.pool[n].refs[1]
  <2>1. s \in 1..Len(orig.pool) /\ orig.pool[s].type = "string" /\ pool[s].direct
    BY <1>5, <1>8, RefersWell DEF IsA, OneRef
  <2>2. Meaning(orig, n) = <<orig.pool[s].val>>
    BY <1>8 DEF IsA, Meaning, OneRef, Members
  <2> HIDE DEF s
  <2>3. Found(UJC, fmap[s]) = Meaning(orig, s)
    BY <2>1, ConstantFound
  <2>4. Meaning(orig, s) = <<orig.pool[s].val>>
    BY <2>1 DEF Meaning, OneRef, Members
  <2> QED BY <2>2, <2>3, <2>4 DEF s
<1>9. ASSUME NEW n \in DOMAIN orig.ifaces
      PROVE  Read(UJC, UJC.ifaceList[n]) = Meaning(orig, orig.ifaces[n])
  <2> DEFINE x == orig.ifaces[n]
             s == orig.pool[x].refs[1]
  <2>1. IsA(x, {"class"}) /\ x \in Named(orig)
    BY TableFacts, NamedFacts
  <2>2. x \in 1..Len(orig.pool) /\ orig.pool[x].type = "class" /\ pool[x].direct
    BY <1>5, <2>1 DEF IsA
  <2>3. DOMAIN orig.pool[x].refs = {1} /\ IsA(s, {"string"})
    BY <2>2, RefersWell DEF OneRef, IsA
  <2>4. s \in Needs(orig.pool, orig.pool[x])
    BY <2>2 DEF Needs, OneRef, Members
  <2>5. pool[s].used
    BY <2>2, <2>4, NeedsPlaced
  <2>6. UJC.ifaceList[n] = StringAddr(c.pool[fmap[x]].refs[1])
    BY <1>4, <1>3
  <2> HIDE DEF x
  <2>7. c.pool[fmap[x]].refs[1] = fmap[s]
    BY <2>2, <2>3, MovedFields
  <2>8. Meaning(orig, x) = <<orig.pool[s].val>> /\ Meaning(orig, s) = <<orig.pool[s].val>>
    BY <2>2, <2>3 DEF Meaning, OneRef, Members, IsA
  <2> HIDE DEF s
  <2> QED BY <1>6, <2>3, <2>5, <2>6, <2>7, <2>8 DEF x
<1>10. /\ Found(UJC, UJC.this) = Meaning(orig, orig.this)
      /\ IF orig.super = 0 THEN UJC.super = 0 ELSE Found(UJC, UJC.super) = Meaning(orig, orig.super)
  <2>1. UJC.this = fmap[orig.pool[orig.this].refs[1]] /\ Found(UJC, UJC.this) = Meaning(orig, orig.this)
    <3>1. UJC.this = fmap[orig.pool[orig.this].refs[1]]
      BY <1>4, <1>2
    <3>2. IsA(orig.this, {"class"}) /\ orig.pool[orig.this].refs[1] \in Named(orig)
      BY TableFacts, NamedFacts
    <3> QED BY <1>8, <3>1, <3>2
  <2>2. CASE orig.super = 0
    BY <1>4, <1>2, <2>1, <2>2
  <2>3. CASE orig.super # 0
    <3>1. UJC.super = fmap[orig.pool[orig.super].refs[1]]
      BY <1>4, <1>2, <2>3
    <3>2. IsA(orig.super, {"class"}) /\ orig.pool[orig.super].refs[1] \in Named(orig)
      BY <2>3, TableFacts, NamedFacts
    <3> QED BY <1>8, <2>1, <2>3, <3>1, <3>2
  <2> QED BY <2>2, <2>3
<1>11. ASSUME NEW n \in DOMAIN orig.fields
      PROVE  /\ Read(UJC, UJC.fieldList[n].name) = Meaning(orig, orig.fields[n].name)
             /\ Read(UJC, UJC.fieldList[n].descr) = Meaning(orig, orig.fields[n].descr)
  <2> DEFINE was == orig.fields[n]
             is == c.fields[n]
  <2>1. is.name = fmap[was.name] /\ is.descr = fmap[was.descr] /\ n \in DOMAIN c.fields
    BY <1>2
  <2>2. UJC.fieldList[n].name = StringAddr(is.name) /\ UJC.fieldList[n].descr = StringAddr(is.descr)
    BY <1>4, <2>1
  <2>3. IsA(was.name, {"string"}) /\ IsA(was.descr, {"string"}) /\ was.name \in Named(orig) /\ was.descr \in Named(orig)
    BY TableFacts, NamedFacts
  <2> HIDE DEF was, is
  <2> QED BY <1>7, <2>1, <2>2, <2>3 DEF was
<1>12. ASSUME NEW n \in DOMAIN orig.methods
      PROVE  /\ Read(UJC, UJC.methodList[n].name) = Meaning(orig, orig.methods[n].name)
             /\ Read(UJC, UJC.methodList[n].descr) = Meaning(orig, orig.methods[n].descr)
  <2> DEFINE was == orig.methods[n]
             is == c.methods[n]
  <2>1. is.name = fmap[was.name] /\ is.descr = fmap[was.descr] /\ n \in DOMAIN c.methods
    BY <1>2
  <2>2. UJC.methodList[n].name = StringAddr(is.name) /\ UJC.methodList[n].descr = StringAddr(is.descr)
    BY <1>4, <2>1
  <2>3. IsA(was.name, {"string"}) /\ IsA(was.descr, {"string"}) /\ was.name \in Named(orig) /\ was.descr \in Named(orig)
    BY TableFacts, NamedFacts
  <2> HIDE DEF was, is
  <2> QED BY <1>7, <2>1, <2>2, <2>3 DEF was
<1>13. ASSUME NEW n \in DOMAIN orig.methods
       PROVE  LET old == orig.methods[n]
                  new == c.methods[n]
              IN  /\ \A j \in 1..Cardinality(DOMAIN old.code.at) :
                       SameReference(UJC, old.code.at[Address(old.code, j)],
                                     new.code.at[Address(new.code, j)])
                  /\ \A e \in DOMAIN old.excs :
                       IF old.excs[e].type = 0 THEN new.excs[e].type = 0
                       ELSE Found(UJC, new.excs[e].type) = Meaning(orig, old.excs[e].type)
  <2> DEFINE old == orig.methods[n]
             new == c.methods[n]
  <2>1. MethodNames(orig, fmap, 2, pool, old, new)
    BY <1>1
  <2>2. /\ \A j \in 1..Count(old.code) : Instruction(orig, old.code.at[Address(old.code, j)])
        /\ \A e \in DOMAIN old.excs : old.excs[e].type = 0 \/ IsA(old.excs[e].type, {"class"})
    BY CodeFacts
  <2> HIDE DEF old, new
  <2>3. \A j \in 1..Count(old.code) :
          SameReference(UJC, old.code.at[Address(old.code, j)], new.code.at[Address(new.code, j)])
    BY <2>1, <2>2, NamesFound DEF MethodNames
  <2>4. ASSUME NEW e \in DOMAIN old.excs
        PROVE  IF old.excs[e].type = 0 THEN new.excs[e].type = 0
               ELSE Found(UJC, new.excs[e].type) = Meaning(orig, old.excs[e].type)
    <3> DEFINE x == old.excs[e].type
    <3>1. new.excs[e].type = fmap[x] /\ (x # 0 => pool[x].direct) /\ fmap[0] = 0
      BY <2>1, Reordered DEF MethodNames, At
    <3>2. x # 0 => x \in 1..Len(orig.pool) /\ orig.pool[x].type = "class"
      BY <2>2 DEF IsA
    <3> HIDE DEF x
    <3>3. x # 0 => Found(UJC, fmap[x]) = Meaning(orig, x)
      BY <3>1, <3>2, ConstantFound DEF OneRef
    <3>4. IF x = 0 THEN new.excs[e].type = 0 ELSE Found(UJC, new.excs[e].type) = Meaning(orig, x)
      BY <3>1, <3>3
    <3> QED BY <3>4 DEF x
  <2> QED BY <2>3, <2>4 DEF Count, old, new
<1>14. UJC.interfaces = UJC.end + 2 /\ UJC.methods = UJC.end + Interfaces
  BY ReadyLaid, EndOfConstants
<1>15. DOMAIN c.methods = DOMAIN orig.methods
  BY <1>1 DEF Rearranged
<1> QED BY <1>9, <1>10, <1>11, <1>12, <1>13, <1>14, <1>15 DEF KeptIn
-----------------------------------------------------------------------------
(* The steps and what is named. *)

\* What is named is still marked when more is.
LEMMA NamesGrow ==
  ASSUME orig \in Classes, NEW f, NEW pa, NEW n \in DOMAIN orig.methods, NEW md, NEW p, NEW q,
         MethodNames(orig, f, pa, p, orig.methods[n], md),
         \A x \in DOMAIN orig.pool : p[x].direct => q[x].direct
  PROVE  MethodNames(orig, f, pa, q, orig.methods[n], md)
<1> DEFINE old == orig.methods[n]
           w(j) == old.code.at[Address(old.code, j)]
<1>1. /\ \A j \in 1..Count(old.code) : w(j).idx # 0 => w(j).idx \in DOMAIN orig.pool
      /\ \A e \in DOMAIN old.excs : old.excs[e].type # 0 => old.excs[e].type \in DOMAIN orig.pool
  <2>1. \A j \in 1..Count(old.code) : Instruction(orig, w(j))
    BY CodeFacts
  <2>2. \A e \in DOMAIN old.excs : old.excs[e].type = 0 \/ IsA(old.excs[e].type, {"class"})
    BY CodeFacts
  <2> HIDE DEF old, w
  <2> QED BY <2>1, <2>2, OrigPool DEF Instruction, IsConst, IsA
<1>2. MethodNames(orig, f, pa, p, old, md)
  OBVIOUS
<1> HIDE DEF old
<1>3. MethodNames(orig, f, pa, q, old, md)
  BY <1>1, <1>2 DEF MethodNames, Names
<1> QED BY <1>3 DEF old

\* In the first pass nothing has been renumbered.
LEMMA NamesFirst ==
  ASSUME NEW o, NEW f, NEW g, NEW p, NEW old, NEW md, MethodNames(o, f, 1, p, old, md)
  PROVE  MethodNames(o, g, 1, p, old, md)
BY DEF MethodNames, Names, At

\* A method without code names nothing.
LEMMA NoNames ==
  ASSUME orig \in Classes, NEW n \in DOMAIN orig.methods, orig.methods[n].code = NoCode,
         NEW f, NEW pa, NEW p, NEW md
  PROVE  MethodNames(orig, f, pa, p, orig.methods[n], md)
<1> DEFINE old == orig.methods[n]
<1>1. Method(old)
  BY OrigFacts
<1> HIDE DEF old
<1>2. old.code = NoCode
  BY DEF old
<1>3. DOMAIN old.excs = {}
  BY <1>1, <1>2 DEF Method
<1>4. Count(old.code) = 0
  <2>1. DOMAIN NoCode.at = {}
    BY DEF NoCode
  <2> QED BY <1>2, <2>1, FS_EmptySet DEF Count
<1> QED BY <1>3, <1>4 DEF MethodNames, old

\* The names hold for a class that has been read.
LEMMA InitNames ==
  ASSUME Init
  PROVE  NamesInv
<1>1. orig \in Classes /\ c = orig /\ phase = "load" /\ m = 1 /\ pass = 1
  BY DEF Init
<1>2. SamePool(orig, orig.pool)
  <2>1. \A n \in DOMAIN orig.pool : Constant(orig, orig.pool[n])
    BY <1>1, OrigPool
  <2> QED BY <2>1 DEF SamePool, ConstantFields, Constant
<1>3. SameTables(orig, orig)
  <2>1. ClassFields \subseteq DOMAIN orig
    BY <1>1, ClassesAssumption DEF ClassFields
  <2>2. \A n \in DOMAIN orig.methods : MemberFields \subseteq DOMAIN orig.methods[n]
    <3>1. \A n \in DOMAIN orig.methods : orig.methods[n] \in Range(orig.fields) \cup Range(orig.methods)
      BY DEF Range
    <3>2. \A member \in Range(orig.fields) \cup Range(orig.methods) : {"name", "descr"} \subseteq DOMAIN member
      BY <1>1, ClassesAssumption
    <3> QED BY <3>1, <3>2 DEF MemberFields
  <2> QED BY <2>1, <2>2 DEF SameTables
<1>4. AllNames(orig, fmap, "load", 1, 1, orig)
  <2>1. DOMAIN orig.methods = 1..Len(orig.methods) /\ Len(orig.methods) \in Nat
    BY <1>1, OrigFacts
  <2>2. \A n \in DOMAIN orig.methods : Passes("load", 1, 1, n) = 0
    BY <2>1 DEF Passes
  <2> QED BY <2>2 DEF AllNames
<1>5. Unmoved(orig, fmap, phase, pass, m, c)
  BY <1>1, <1>2, <1>3, <1>4 DEF Unmoved
<1> QED BY <1>1, <1>5 DEF NamesInv

Loop == {"load", "exc", "rewrite"}

\* Within a method nothing changes.
LEMMA SameNames ==
  ASSUME Unmoved(orig, fmap, phase, pass, m, c), phase \in Loop, phase' \in Loop,
         UNCHANGED <<c, orig, fmap, pass, m>>
  PROVE  NamesInv'
<1>1. \A n : Passes(phase', pass, m, n) = Passes(phase, pass, m, n)
  BY DEF Passes, Loop
<1>2. Unmoved(orig, fmap, phase', pass, m, c)
  BY <1>1 DEF Unmoved, AllNames, Loop
<1> QED BY <1>2 DEF NamesInv, Loop

\* A method is through with the pass.
LEMMA NamesAdvance ==
  ASSUME orig \in Classes, m \in Nat, SameShape(orig, c), NextMethod, pass \in {1, 2},
         NEW cls, NEW f,
         \A n \in DOMAIN orig.methods :
           LET times == IF n < m \/ n = m THEN pass ELSE pass - 1
           IN  times # 0 => MethodNames(orig, f, times, cls.pool, orig.methods[n], cls.methods[n])
  PROVE  /\ AllNames(orig, f, phase', pass, m', cls)
         /\ phase' = "load" \/ (m' = 1 /\ phase' = IF pass = 1 THEN "mark" ELSE "fix")
<1>1. Len(orig.methods) \in Nat /\ DOMAIN orig.methods = 1..Len(orig.methods)
  BY OrigFacts
<1>2. Len(c.methods) = Len(orig.methods)
  BY DEF SameShape
<1>3. CASE m < Len(c.methods)
  <2>1. m' = m + 1 /\ phase' = "load"
    BY <1>3 DEF NextMethod
  <2>2. \A n \in DOMAIN orig.methods :
          Passes(phase', pass, m', n) = IF n < m \/ n = m THEN pass ELSE pass - 1
    BY <1>1, <2>1 DEF Passes
  <2> QED BY <2>1, <2>2 DEF AllNames
<1>4. CASE ~(m < Len(c.methods))
  <2>1. m' = 1 /\ phase' = IF pass = 1 THEN "mark" ELSE "fix"
    BY <1>4 DEF NextMethod
  <2>2. \A n \in DOMAIN orig.methods : Passes(phase', pass, m', n) = pass /\ (n < m \/ n = m)
    BY <1>1, <1>2, <1>4, <2>1 DEF Passes
  <2> QED BY <2>1, <2>2 DEF AllNames
<1> QED BY <1>3, <1>4

\* What holds after the last step of a pass over a method.
LEMMA PassOver ==
  ASSUME NEW o, NEW f, NEW ph, NEW x, NEW pa \in {1, 2}, NEW cls,
         SamePool(o, cls.pool), SameTables(o, cls), AllNames(o, f, ph, pa, x, cls),
         ph = "load" \/ (x = 1 /\ ph = IF pa = 1 THEN "mark" ELSE "fix"),
         pa = 2 => Complete(o, cls.pool) /\ f = FMap(cls.pool)
  PROVE  Unmoved(o, f, ph, pa, x, cls)
BY DEF Unmoved

\* A method without code.
LEMMA SkipMethodNames ==
  ASSUME GoingInv, exit = "no", NamesInv, SkipMethod
  PROVE  NamesInv'
<1>1. /\ phase = "load" /\ (m \in DOMAIN c.methods => c.methods[m].code = NoCode)
      /\ NextMethod /\ UNCHANGED <<c, orig, fmap, pass>>
  BY DEF SkipMethod
<1>2. Unmoved(orig, fmap, phase, pass, m, c)
  BY <1>1 DEF NamesInv
<1>3. orig \in Classes /\ m \in Nat /\ SameShape(orig, c) /\ pass \in {1, 2}
  BY <1>2 DEF GoingInv, ClassOk, Unmoved
<1>4. ASSUME NEW n \in DOMAIN orig.methods, n = m
      PROVE  orig.methods[n].code = NoCode
  <2>1. c.methods[n].code = NoCode
    BY <1>1, <1>3, <1>4 DEF SameShape
  <2>2. Moved(orig.methods[n], c.methods[n]) \/ Same(orig.methods[n], c.methods[n])
    BY DEF GoingInv, ClassOk
  <2>3. ~WellFormed(NoCode)
    BY DEF WellFormed, NoCode
  <2> QED BY <2>1, <2>2, <2>3 DEF Moved, Same, Carried
<1>5. ASSUME NEW n \in DOMAIN orig.methods
      PROVE  LET times == IF n < m \/ n = m THEN pass ELSE pass - 1
             IN  times # 0 => MethodNames(orig, fmap, times, c.pool, orig.methods[n], c.methods[n])
  <2>1. CASE n = m
    BY <1>4, <1>3, <2>1, NoNames
  <2>2. CASE n # m
    BY <1>1, <1>2, <2>2 DEF Unmoved, AllNames, Passes
  <2> QED BY <2>1, <2>2
<1>6. /\ AllNames(orig, fmap, phase', pass, m', c)
      /\ phase' = "load" \/ (m' = 1 /\ phase' = IF pass = 1 THEN "mark" ELSE "fix")
  BY <1>1, <1>3, <1>5, NamesAdvance
<1>7. Unmoved(orig, fmap, phase', pass, m', c)
  BY <1>2, <1>3, <1>6, PassOver DEF Unmoved
<1>8. phase' # "done" /\ phase' # "export"
  BY <1>6
<1> QED BY <1>1, <1>7, <1>8 DEF NamesInv
-----------------------------------------------------------------------------
(* The first pass: instructions that hold what they name. *)

\* The member of this class that a reference means is one of that name and type.
LEMMA LocalFacts ==
  ASSUME NEW cls, NEW ref, NEW members, NEW l \in Nat, DOMAIN members = 1..l,
         NEW u, u = Const(cls, ref.refs[2]).refs
  PROVE  LET n == Local(cls, ref, members)
         IN  n = 0 \/ (n \in 1..l /\ members[n].name = u[1] /\ members[n].descr = u[2])
<1> DEFINE S == {n \in DOMAIN members : <<members[n].name, members[n].descr>> = u}
<1>1. S \subseteq Nat \ {0}
  OBVIOUS
<1>2. Local(cls, ref, members) = FirstOf(S)
  BY DEF Local
<1>3. \A n \in S : n \in 1..l /\ <<members[n].name, members[n].descr>> = u
  OBVIOUS
<1>4. \A n \in S : n \in 1..l /\ members[n].name = u[1] /\ members[n].descr = u[2]
  BY <1>3
<1> HIDE DEF S
<1> QED BY <1>1, <1>2, <1>4, FirstOfFacts

\* No field is without size.
LEMMA JavaTypeSzFacts ==
  ASSUME NEW type
  PROVE  JavaTypeSz(type) \in {1, 2, 4, 8}
<1>1. CASE type \in {"B", "Z"}
  BY <1>1 DEF JavaTypeSz
<1>2. CASE type \in {"C", "S"}
  BY <1>2 DEF JavaTypeSz
<1>3. CASE type \in {"D", "J"}
  BY <1>3 DEF JavaTypeSz
<1>4. CASE type \notin {"B", "Z", "C", "S", "D", "J"}
  BY <1>4 DEF JavaTypeSz
<1> QED BY <1>1, <1>2, <1>3, <1>4

\* The sizes of the fields that are, or are not, static.
FieldSizes(cls, static) ==
  [x \in DOMAIN cls.fields |-> IF cls.fields[x].static = static THEN JavaTypeSz(Descr(cls, cls.fields[x])) ELSE 0]

\* An offset is the total of the sizes of the fields before, of the same kind.
LEMMA OffsetIs ==
  ASSUME NEW cls, NEW n
  PROVE  Offset(cls, n) = Total(FieldSizes(cls, cls.fields[n].static), n - 1)
BY DEF Offset, FieldSizes

\* The types of fields are what they were.
LEMMA SameDescr ==
  ASSUME orig \in Classes, SamePool(orig, c.pool), SameTables(orig, c)
  PROVE  /\ \A x \in DOMAIN orig.fields : Descr(c, c.fields[x]) = Descr(orig, orig.fields[x])
         /\ \A static : FieldSizes(c, static) = FieldSizes(orig, static)
<1>1. c.fields = orig.fields
  BY DEF SameTables
<1>2. ASSUME NEW x \in DOMAIN orig.fields
      PROVE  Descr(c, c.fields[x]) = Descr(orig, orig.fields[x])
  <2>1. orig.fields[x].descr \in DOMAIN orig.pool
    BY TableFacts, OrigPool DEF IsA
  <2> QED BY <1>1, <2>1 DEF Descr, Const, SamePool
<1>3. ASSUME NEW static PROVE FieldSizes(c, static) = FieldSizes(orig, static)
  BY <1>1, <1>2 DEF FieldSizes
<1> QED BY <1>2, <1>3

\* No two fields of a kind are at the same offset.
LEMMA OffsetsDiffer ==
  ASSUME orig \in Classes, NEW a \in DOMAIN orig.fields, NEW b \in DOMAIN orig.fields,
         orig.fields[a].static = orig.fields[b].static, Offset(orig, a) = Offset(orig, b)
  PROVE  a = b
<1> DEFINE l == Len(orig.fields)
           s == FieldSizes(orig, orig.fields[a].static)
<1>1. l \in Nat /\ DOMAIN orig.fields = 1..l
  BY ClassesAssumption DEF List
<1>2. Sizes(s, l) /\ s[a] # 0 /\ s[b] # 0
  <2>1. \A x \in 1..l : s[x] = IF orig.fields[x].static = orig.fields[a].static
                               THEN JavaTypeSz(Descr(orig, orig.fields[x])) ELSE 0
    BY <1>1 DEF FieldSizes
  <2> HIDE DEF s, l
  <2>2. \A x \in 1..l : s[x] \in Nat
    BY <2>1, JavaTypeSzFacts
  <2>3. s[a] # 0 /\ s[b] # 0
    BY <1>1, <2>1, JavaTypeSzFacts
  <2> QED BY <1>1, <2>2, <2>3 DEF Sizes
<1>3. Total(s, a - 1) = Total(s, b - 1)
  BY OffsetIs
<1> HIDE DEF s, l
<1>4. ASSUME NEW x \in 1..l, NEW y \in 1..l, x < y, s[x] # 0
      PROVE  Total(s, x - 1) < Total(s, y - 1)
  BY <1>2, <1>4, TotalJumps
<1>5. a \in 1..l /\ b \in 1..l /\ a - 1 \in 0..l /\ b - 1 \in 0..l
  BY <1>1
<1>6. Total(s, a - 1) \in Nat /\ Total(s, b - 1) \in Nat
  BY <1>2, <1>5, TotalFacts
<1>7. ~(a < b) /\ ~(b < a)
  BY <1>2, <1>3, <1>4, <1>5, <1>6
<1> QED BY <1>1, <1>5, <1>7

\* A reference to a member of this class, and the constants it refers to.
LEMMA MemberRef ==
  ASSUME orig \in Classes, SamePool(orig, c.pool), SameTables(orig, c), NEW x,
         x \in DOMAIN orig.pool, orig.pool[x].type \in Members
  PROVE  LET nt == orig.pool[x].refs[2]
         IN  /\ Const(c, x).refs = orig.pool[x].refs /\ Const(c, Const(c, x).refs[2]).refs = orig.pool[nt].refs
             /\ IsLocal(c, Const(c, x)) <=> orig.pool[x].refs[1] = orig.this
             /\ IsLocal(orig, Const(orig, x)) <=> orig.pool[x].refs[1] = orig.this
             /\ DOMAIN orig.pool[nt].refs = {1, 2}
             /\ Tail(Meaning(orig, x)) = <<orig.pool[orig.pool[nt].refs[1]].val, orig.pool[orig.pool[nt].refs[2]].val>>
             /\ Local(c, Const(c, x), c.fields) = Local(orig, Const(orig, x), orig.fields)
<1> DEFINE nt == orig.pool[x].refs[2]
<1>1. x \in 1..Len(orig.pool) /\ DOMAIN orig.pool = 1..Len(orig.pool)
  BY OrigPool
<1>2. nt \in DOMAIN orig.pool /\ orig.pool[nt].type = "nti"
  BY <1>1, RefersWell
<1>3. DOMAIN orig.pool[nt].refs = {1, 2}
  BY <1>1, <1>2, RefersWell
<1>4. c.pool[x].refs = orig.pool[x].refs /\ c.pool[nt].refs = orig.pool[nt].refs /\ c.this = orig.this
      /\ c.fields = orig.fields
  BY <1>2 DEF SamePool, SameTables
<1>5. /\ Const(c, x).refs = orig.pool[x].refs /\ Const(c, Const(c, x).refs[2]).refs = orig.pool[nt].refs
      /\ Const(orig, x).refs = orig.pool[x].refs /\ Const(orig, Const(orig, x).refs[2]).refs = orig.pool[nt].refs
  BY <1>4 DEF Const
<1>6. /\ IsLocal(c, Const(c, x)) <=> orig.pool[x].refs[1] = orig.this
      /\ IsLocal(orig, Const(orig, x)) <=> orig.pool[x].refs[1] = orig.this
  BY <1>4, <1>5 DEF IsLocal
<1>7. Local(c, Const(c, x), c.fields) = Local(orig, Const(orig, x), orig.fields)
  BY <1>4, <1>5 DEF Local
<1>8. Tail(Meaning(orig, x)) = <<orig.pool[orig.pool[nt].refs[1]].val, orig.pool[orig.pool[nt].refs[2]].val>>
  <2>1. Meaning(orig, x) = <<orig.pool[orig.pool[orig.pool[x].refs[1]].refs[1]].val,
                             orig.pool[orig.pool[nt].refs[1]].val, orig.pool[orig.pool[nt].refs[2]].val>>
    BY DEF Meaning, OneRef, Members
  <2>2. \A x1, y1, z1 : Tail(<<x1, y1, z1>>) = <<y1, z1>>
    OBVIOUS
  <2> QED BY <2>1, <2>2
<1> QED BY <1>3, <1>5, <1>6, <1>7, <1>8

\* What the wide form of an access to a member of this class holds.
LEMMA HeldForm ==
  ASSUME NEW i, IsLocal(c, Const(c, i.idx)), HandleLocals(i) # <<>>
  PROVE  LET n == Local(c, Const(c, i.idx), OfKind(c, i))
         IN  HandleLocals(i) = IF i.op = "invoke" THEN <<"call", n - 1, c.methods[n].slots + 1>>
                               ELSE <<Descr(c, c.fields[n]), Offset(c, n)>>
<1> DEFINE n == Local(c, Const(c, i.idx), OfKind(c, i))
<1>1. CASE i.op = "invoke"
  <2> HIDE DEF n
  <2>1. HandleLocals(i) = IF c.methods[n].slots >= Byte - 1 THEN <<>> ELSE <<"call", n - 1, c.methods[n].slots + 1>>
    BY <1>1 DEF HandleLocals, n
  <2> QED BY <1>1, <2>1 DEF n
<1>2. CASE i.op # "invoke"
  BY <1>2 DEF HandleLocals
<1> QED BY <1>1, <1>2

\* An access to a member of this class finds it by its number or its offset.
LEMMA LocalHeld ==
  ASSUME orig \in Classes, SamePool(orig, c.pool), SameTables(orig, c),
         NEW w, Instruction(orig, w), NEW i, i.op = w.op, i.idx = w.idx, w.op \in Accesses,
         HandleLocals(i) # <<>>, Local(c, Const(c, i.idx), OfKind(c, i)) # 0,
         NEW r, r.op = i.op, r.idx = 0, r.val = HandleLocals(i)
  PROVE  Holds(orig, w, r)
<1> DEFINE x == w.idx
           nt == orig.pool[x].refs[2]
           n == Local(c, Const(c, x), OfKind(c, i))
           op == w.op
<1>1. x \in DOMAIN orig.pool /\ orig.pool[x].type \in Members /\ orig.pool[x].type \in Operands(op)
  <2>1. x \in DOMAIN orig.pool /\ orig.pool[x].type \in Operands(op)
    BY DEF Instruction, IsConst, Const
  <2>2. Operands(op) \subseteq Members
    BY DEF Operands, Accesses, Access, Members
  <2> QED BY <2>1, <2>2
<1>2. /\ Const(c, Const(c, x).refs[2]).refs = orig.pool[nt].refs
      /\ IsLocal(c, Const(c, x)) <=> orig.pool[x].refs[1] = orig.this
      /\ IsLocal(orig, Const(orig, x)) <=> orig.pool[x].refs[1] = orig.this
      /\ DOMAIN orig.pool[nt].refs = {1, 2}
      /\ Tail(Meaning(orig, x)) = <<orig.pool[orig.pool[nt].refs[1]].val, orig.pool[orig.pool[nt].refs[2]].val>>
      /\ Local(c, Const(c, x), c.fields) = Local(orig, Const(orig, x), orig.fields)
  BY <1>1, MemberRef
<1>3. IsLocal(c, Const(c, x))
  BY DEF HandleLocals
<1>4. orig.pool[x].refs[1] = orig.this
  BY <1>2, <1>3
<1>5. CASE op = "invoke"
  <2>1. n = Local(c, Const(c, x), c.methods)
    BY <1>5 DEF OfKind
  <2>2. DOMAIN c.methods = 1..Len(orig.methods) /\ Len(orig.methods) \in Nat
    BY OrigFacts DEF SameTables
  <2>3. /\ n \in DOMAIN orig.methods
        /\ c.methods[n].name = orig.pool[nt].refs[1] /\ c.methods[n].descr = orig.pool[nt].refs[2]
    <3>1. n # 0
      OBVIOUS
    <3> HIDE DEF n
    <3>2. n \in 1..Len(orig.methods)
          /\ c.methods[n].name = orig.pool[nt].refs[1] /\ c.methods[n].descr = orig.pool[nt].refs[2]
      <4> DEFINE u == orig.pool[nt].refs
      <4>1. u = Const(c, Const(c, x).refs[2]).refs
        BY <1>2
      <4> HIDE DEF u
      <4>2. n \in 1..Len(orig.methods) /\ c.methods[n].name = u[1] /\ c.methods[n].descr = u[2]
        BY <2>1, <2>2, <3>1, <4>1, LocalFacts
      <4> QED BY <4>2 DEF u
    <3> QED BY <2>2, <3>2 DEF SameTables
  <2> DEFINE md == orig.methods[n]
  <2>4. c.methods[n].name = md.name /\ c.methods[n].descr = md.descr
    BY <2>3 DEF SameTables
  <2>6. md.name = orig.pool[nt].refs[1] /\ md.descr = orig.pool[nt].refs[2]
    BY <2>3, <2>4
  <2>7. HandleLocals(i) = <<"call", n - 1, c.methods[n].slots + 1>>
    <3>1. i.op = "invoke"
      BY <1>5
    <3> HIDE DEF n
    <3> QED BY <1>3, <3>1, HeldForm DEF n
  <2>8. r.val[2] + 1 = n
    <3> HIDE DEF n
    <3>1. r.val[2] = n - 1
      BY <2>7
    <3>2. n \in Nat
      <4>1. n \in DOMAIN c.methods
        BY <2>3 DEF SameTables
      <4> QED BY <2>2, <4>1
    <3> QED BY <3>1, <3>2
  <2> HIDE DEF n
  <2>9. FoundLocal(orig, r) = <<orig.pool[md.name].val, orig.pool[md.descr].val>>
    BY <1>5, <2>8 DEF FoundLocal
  <2> QED BY <1>2, <1>4, <2>6, <2>9 DEF Holds
<1>6. CASE op \in Access
  <2>0. op # "invoke"
    BY <1>6 DEF Access
  <2>1. n = Local(c, Const(c, x), c.fields)
    BY <2>0 DEF OfKind
  <2>2. c.fields = orig.fields /\ DOMAIN orig.fields = 1..Len(orig.fields) /\ Len(orig.fields) \in Nat
    BY ClassesAssumption DEF SameTables, List
  <2>3. /\ n \in DOMAIN orig.fields
        /\ orig.fields[n].name = orig.pool[nt].refs[1] /\ orig.fields[n].descr = orig.pool[nt].refs[2]
    <3>1. n # 0
      OBVIOUS
    <3> HIDE DEF n
    <3>2. n \in 1..Len(orig.fields)
          /\ c.fields[n].name = orig.pool[nt].refs[1] /\ c.fields[n].descr = orig.pool[nt].refs[2]
      <4> DEFINE u == orig.pool[nt].refs
      <4>1. u = Const(c, Const(c, x).refs[2]).refs
        BY <1>2
      <4> HIDE DEF u
      <4>2. n \in 1..Len(orig.fields) /\ c.fields[n].name = u[1] /\ c.fields[n].descr = u[2]
        BY <2>1, <2>2, <3>1, <4>1, LocalFacts
      <4> QED BY <4>2 DEF u
    <3> QED BY <2>2, <3>2
  <2> DEFINE f == orig.fields[n]
  <2>4. f.name = orig.pool[nt].refs[1] /\ f.descr = orig.pool[nt].refs[2]
    BY <2>3
  <2>5. HandleLocals(i) = <<Descr(c, c.fields[n]), Offset(c, n)>>
    <3>1. i.op # "invoke"
      BY <2>0
    <3> HIDE DEF n
    <3> QED BY <1>3, <3>1, HeldForm DEF n
  <2>6. f.static = (op = "static")
    <3>1. n = Local(orig, Const(orig, x), orig.fields)
      BY <1>2, <2>1
    <3>2. n # 0 /\ IsLocal(orig, Const(orig, x))
      BY <1>2, <1>4
    <3> HIDE DEF n
    <3> QED BY <1>6, <3>1, <3>2 DEF Instruction
  <2> HIDE DEF n
  <2>7. Descr(c, c.fields[n]) = orig.pool[f.descr].val /\ Offset(c, n) = Offset(orig, n)
    <3>1. Descr(c, c.fields[n]) = Descr(orig, orig.fields[n])
      BY <2>3, SameDescr
    <3>2. FieldSizes(c, c.fields[n].static) = FieldSizes(orig, orig.fields[n].static)
      BY <2>2, SameDescr
    <3> QED BY <3>1, <3>2, OffsetIs DEF Descr, Const
  <2>8. r.val[1] = orig.pool[f.descr].val /\ r.val[2] = Offset(orig, n)
    BY <2>5, <2>7
  <2> DEFINE found == CHOOSE y \in DOMAIN orig.fields :
                        Offset(orig, y) = r.val[2] /\ orig.fields[y].static = (r.op = "static")
  <2>9. found = n
    <3>1. Offset(orig, n) = r.val[2] /\ orig.fields[n].static = (r.op = "static")
      BY <2>6, <2>8
    <3>2. \A y \in DOMAIN orig.fields :
            Offset(orig, y) = r.val[2] /\ orig.fields[y].static = (r.op = "static") => y = n
      BY <2>3, <3>1, OffsetsDiffer
    <3> QED BY <2>3, <3>1, <3>2
  <2>10. FoundLocal(orig, r) = <<orig.pool[orig.fields[found].name].val, r.val[1]>>
    BY <2>0 DEF FoundLocal
  <2> HIDE DEF found
  <2>11. r.op \in Accesses
    BY <1>6 DEF Accesses
  <2> QED BY <1>2, <1>4, <2>4, <2>8, <2>9, <2>10, <2>11 DEF Holds
<1> QED BY <1>5, <1>6 DEF Accesses

\* What an instruction names after the first pass.
LEMMA OptimizeNames ==
  ASSUME orig \in Classes, SamePool(orig, c.pool), SameTables(orig, c), ~LocalMissing,
         NEW i \in Range(InstrsOf(bbList)), Instr(i), NEW w, Instruction(orig, w),
         i.op = w.op, i.wide = w.wide, i.idx = w.idx,
         NEW f, NEW pool, Optimize(i).idx # 0 => pool[Optimize(i).idx].direct
  PROVE  Names(orig, f, 1, pool, w, Optimize(i))
<1>1. CASE Optimize(i) = i
  BY <1>1 DEF Names, At
<1>2. CASE i.op \in {"ldc", "ldc_w"} /\ Const(c, i.idx).type # "str_ref"
  <2> DEFINE raw == [i EXCEPT !.op = "push_raw", !.numBytes = 4, !.idx = 0, !.val = <<Const(c, i.idx).val>>]
  <2>1. Optimize(i) = raw
    BY <1>2 DEF Optimize, Accesses, Access
  <2>2. raw.op = "push_raw" /\ raw.idx = 0 /\ raw.val = <<Const(c, i.idx).val>>
    BY DEF Instr
  <2> HIDE DEF raw
  <2>3. w.idx \in DOMAIN orig.pool /\ orig.pool[w.idx].type \in {"int", "str_ref"}
    <3>1. Operands(w.op) = {"int", "str_ref"}
      BY <1>2 DEF Operands, Access
    <3> QED BY <1>2, <3>1 DEF Instruction, IsConst, Const
  <2>4. Const(c, w.idx).val = orig.pool[w.idx].val /\ orig.pool[w.idx].type = "int"
    BY <1>2, <2>3 DEF SamePool, Const
  <2>5. Meaning(orig, w.idx) = <<orig.pool[w.idx].val>>
    BY <2>4 DEF Meaning, OneRef, Members
  <2>6. Holds(orig, w, raw)
    BY <1>2, <2>2, <2>4, <2>5 DEF Holds
  <2> QED BY <2>1, <2>6 DEF Names
<1>3. CASE i.op \in Accesses /\ ~i.wide /\ HandleLocals(i) # <<>>
  <2> DEFINE r == [i EXCEPT !.wide = TRUE, !.numBytes = 3, !.idx = 0, !.val = HandleLocals(i)]
  <2>1. Optimize(i) = r
    BY <1>3 DEF Optimize, Accesses, Access
  <2>2. r.op = i.op /\ r.idx = 0 /\ r.val = HandleLocals(i)
    BY DEF Instr
  <2> HIDE DEF r
  <2>3. IsLocal(c, Const(c, i.idx))
    BY <1>3 DEF HandleLocals
  <2>4. Local(c, Const(c, i.idx), OfKind(c, i)) # 0
    BY <1>3, <2>3 DEF LocalMissing
  <2>5. Holds(orig, w, r)
    BY <1>3, <2>2, <2>4, LocalHeld
  <2> QED BY <2>1, <2>5 DEF Names
<1>4. CASE \/ i.op \in {"ldc", "ldc_w"} /\ Const(c, i.idx).type = "str_ref"
           \/ i.op \in Accesses /\ ~i.wide /\ HandleLocals(i) = <<>>
           \/ ~(i.op \in {"ldc", "ldc_w"}) /\ ~(i.op \in Accesses /\ ~i.wide)
  <2>1. Optimize(i) = i
    BY <1>4 DEF Optimize, Accesses, Access
  <2> QED BY <1>1, <2>1
<1> QED BY <1>2, <1>3, <1>4

\* The second pass keeps what an instruction names: an ldc still has room for it.
LEMMA FixConstantsNames ==
  ASSUME orig \in Classes, SamePool(orig, c.pool), fmap = FMap(c.pool),
         NEW i, Instr(i), NEW w, Instruction(orig, w), Names(orig, fmap, 1, c.pool, w, i)
  PROVE  Names(orig, fmap, 2, c.pool, w, FixConstants(i))
<1>1. CASE i.idx = 0
  <2>1. FixConstants(i) = i
    BY <1>1 DEF FixConstants
  <2>2. fmap[0] = 0
    BY DEF FMap
  <2> QED BY <1>1, <2>1, <2>2 DEF Names, At
<1>2. CASE i.idx # 0
  <2>1. i.op = w.op /\ i.idx = w.idx /\ c.pool[w.idx].direct
    BY <1>2 DEF Names, At, Holds
  <2> DEFINE l == Len(orig.pool)
             x == w.idx
             new == IF i.op = "ldc" THEN fmap[x] % Byte ELSE fmap[x]
             r == [i EXCEPT !.idx = new]
  <2>2. FixConstants(i) = r
    BY <1>2, <2>1 DEF FixConstants
  <2>3. r.op = i.op /\ r.idx = new
    BY DEF Instr
  <2>4. x \in 1..l /\ l \in Nat /\ DOMAIN c.pool = 1..l
    BY <1>2, <2>1, OrigPool DEF Instruction, IsConst, SamePool
  <2>5. fmap[x] = NewIndex(c.pool, x)
    BY <2>4 DEF FMap
  <2>6. fmap[x] \in 1..l /\ fmap[x] <= x
    BY <2>1, <2>4, <2>5, SamePoolMarks, NewIndexFacts
  <2>7. i.op = "ldc" => x < Byte
    BY <2>1 DEF Instruction
  <2>8. new = fmap[x]
    <3>1. fmap[x] \in Nat /\ x \in Nat
      BY <2>4, <2>6
    <3>2. \A a, b \in Nat : a < b => a % b = a
      OBVIOUS
    <3>3. i.op = "ldc" => fmap[x] < Byte
      BY <2>6, <2>7, <3>1, ByteAssumption
    <3> HIDE DEF x
    <3> QED BY <3>1, <3>2, <3>3, ByteAssumption
  <2> HIDE DEF r, new
  <2> QED BY <2>1, <2>2, <2>3, <2>8 DEF Names, At
<1> QED BY <1>1, <1>2

\* The words of an instruction are all that names.
LEMMA NamesWords ==
  ASSUME NEW o, NEW f, NEW pa, NEW pool, NEW w, NEW i, Names(o, f, pa, pool, w, i), NEW j, Words(j) = Words(i)
  PROVE  Names(o, f, pa, pool, w, j)
<1>1. j.op = i.op /\ j.idx = i.idx /\ j.val = i.val
  BY DEF Words
<1>2. FoundLocal(o, j) = FoundLocal(o, i)
  BY <1>1 DEF FoundLocal
<1> QED BY <1>1, <1>2 DEF Names, Holds
-----------------------------------------------------------------------------
(* A pass over a method and what is named. *)

\* A class of which the code of a method, its entries and the constants are replaced.
Put(cls, x, code, excs, pool) ==
  [cls EXCEPT !.methods[x].code = code, !.methods[x].excs = excs, !.pool = pool]

\* It keeps its tables.
LEMMA TablesKept ==
  ASSUME NEW o, NEW cls, SameTables(o, cls), NEW x \in DOMAIN cls.methods, NEW code, NEW excs, NEW pool
  PROVE  LET new == Put(cls, x, code, excs, pool) IN SameTables(o, new) /\ new.pool = pool
<1> DEFINE new == Put(cls, x, code, excs, pool)
           a == [cls EXCEPT !.methods[x].code = code]
           b == [a EXCEPT !.methods[x].excs = excs]
<1>1. ClassFields \subseteq DOMAIN cls
  BY DEF SameTables
<1>2. /\ DOMAIN a = DOMAIN cls /\ a.methods = [cls.methods EXCEPT ![x].code = code]
      /\ a.this = cls.this /\ a.super = cls.super /\ a.ifaces = cls.ifaces /\ a.fields = cls.fields
  BY <1>1 DEF ClassFields
<1> HIDE DEF a
<1>3. /\ DOMAIN b = DOMAIN a /\ b.methods = [a.methods EXCEPT ![x].excs = excs]
      /\ b.this = a.this /\ b.super = a.super /\ b.ifaces = a.ifaces /\ b.fields = a.fields
  BY <1>1, <1>2 DEF ClassFields
<1> HIDE DEF b
<1>4. new = [b EXCEPT !.pool = pool]
  BY DEF a, b, Put
<1> HIDE DEF new
<1>5. /\ DOMAIN new = DOMAIN b /\ new.methods = b.methods /\ new.pool = pool
      /\ new.this = b.this /\ new.super = b.super /\ new.ifaces = b.ifaces /\ new.fields = b.fields
  BY <1>1, <1>2, <1>3, <1>4 DEF ClassFields
<1>6. ASSUME NEW n \in DOMAIN o.methods
      PROVE  /\ MemberFields \subseteq DOMAIN b.methods[n]
             /\ b.methods[n].name = cls.methods[n].name /\ b.methods[n].descr = cls.methods[n].descr
  <2>1. n \in DOMAIN cls.methods /\ MemberFields \subseteq DOMAIN cls.methods[n]
    BY DEF SameTables
  <2>2. a.methods[n] = IF n = x THEN [cls.methods[n] EXCEPT !.code = code] ELSE cls.methods[n]
    BY <1>2, <2>1
  <2>3. /\ DOMAIN a.methods[n] = DOMAIN cls.methods[n]
        /\ a.methods[n].name = cls.methods[n].name /\ a.methods[n].descr = cls.methods[n].descr
    BY <2>1, <2>2 DEF MemberFields
  <2>4. b.methods[n] = IF n = x THEN [a.methods[n] EXCEPT !.excs = excs] ELSE a.methods[n]
    BY <1>2, <1>3, <2>1
  <2> QED BY <2>1, <2>3, <2>4 DEF MemberFields
<1>7. DOMAIN b.methods = DOMAIN cls.methods
  BY <1>2, <1>3
<1> QED BY <1>1, <1>2, <1>3, <1>5, <1>6, <1>7 DEF SameTables, new

\* Marking keeps the constants.
LEMMA MarkedFacts ==
  ASSUME NEW o, NEW pool, SamePool(o, pool), NEW S
  PROVE  /\ SamePool(o, Marked(pool, S))
         /\ \A n \in DOMAIN pool : Marked(pool, S)[n].direct <=> (pool[n].direct \/ n \in S)
         /\ \A n \in DOMAIN pool : pool[n].used => Marked(pool, S)[n].used
<1> DEFINE new == Marked(pool, S)
<1>1. ASSUME NEW n \in DOMAIN pool
      PROVE  /\ DOMAIN new[n] = DOMAIN pool[n] /\ new[n].type = pool[n].type /\ new[n].refs = pool[n].refs
             /\ new[n].val = pool[n].val /\ new[n].size = pool[n].size
             /\ n \in S => new[n].used = TRUE /\ new[n].direct = TRUE
             /\ n \notin S => new[n] = pool[n]
  <2>1. ConstantFields \subseteq DOMAIN pool[n]
    BY DEF SamePool
  <2>2. new[n] = IF n \in S THEN [pool[n] EXCEPT !.used = TRUE, !.direct = TRUE] ELSE pool[n]
    BY DEF Marked
  <2> HIDE DEF new
  <2> QED BY <2>1, <2>2 DEF ConstantFields
<1>2. DOMAIN new = DOMAIN pool
  BY DEF Marked
<1> HIDE DEF new
<1>3. SamePool(o, new)
  <2> SUFFICES ASSUME NEW n \in DOMAIN new
               PROVE  /\ ConstantFields \subseteq DOMAIN new[n]
                      /\ new[n].type = o.pool[n].type /\ new[n].refs = o.pool[n].refs
                      /\ new[n].val = o.pool[n].val /\ new[n].size = o.pool[n].size
                      /\ new[n].used \in BOOLEAN /\ new[n].direct \in BOOLEAN
                      /\ new[n].direct => new[n].used
    BY <1>2 DEF SamePool
  <2>1. n \in DOMAIN pool
    BY <1>2
  <2>4. /\ ConstantFields \subseteq DOMAIN pool[n]
        /\ pool[n].type = o.pool[n].type /\ pool[n].refs = o.pool[n].refs
        /\ pool[n].val = o.pool[n].val /\ pool[n].size = o.pool[n].size
        /\ pool[n].used \in BOOLEAN /\ pool[n].direct \in BOOLEAN
        /\ pool[n].direct => pool[n].used
    BY <2>1 DEF SamePool
  <2>2. CASE n \in S
    BY <1>1, <2>1, <2>2, <2>4
  <2>3. CASE n \notin S
    BY <1>1, <2>1, <2>3, <2>4
  <2> QED BY <2>2, <2>3
<1>4. ASSUME NEW n \in DOMAIN pool
      PROVE  (new[n].direct <=> (pool[n].direct \/ n \in S)) /\ (pool[n].used => new[n].used)
  BY <1>1, <1>4
<1> QED BY <1>3, <1>4 DEF new

\* The types of entries after the pass, and the constants.
NewTypes(excs) == [e \in DOMAIN excs |-> IF pass = 1 THEN excs[e].type ELSE fmap[excs[e].type]]
NewPool(excs) == IF pass = 1 THEN Marked(c.pool, MarkConstants(InstrsOf(Passed), excs)) ELSE c.pool

\* What Rewrite does when it does not end the converter.
LEMMA RewriteFacts ==
  ASSUME GoingInv, Rewrite, exit' = "no"
  PROVE  LET md == c.methods[m]
             new == bbExport(Passed)
             ys == ReadBack(Passed, md.excs, NewTypes(md.excs))
         IN  /\ phase = "rewrite" /\ exit = "no" /\ UNCHANGED <<orig, pass, fmap>>
             /\ pass = 1 => ~LocalMissing
             /\ c' = Put(c, m, new, ys, NewPool(md.excs))
             /\ NextMethod /\ m \in DOMAIN c.methods /\ m \in DOMAIN orig.methods
             /\ gCode = md.code /\ md.code # NoCode /\ {"code", "excs"} \subseteq DOMAIN md
             /\ \A j \in 1..Count(md.code) : PassedOn(md.code, bbList, Passed, new, j)
<1> DEFINE md == c.methods[m]
           excs == md.excs
           n == Len(excs)
           types == [e \in DOMAIN excs |-> IF pass = 1 THEN excs[e].type ELSE fmap[excs[e].type]]
           blocks == bbPass([i \in Range(InstrsOf(bbList)) |->
                              IF pass = 1 THEN Optimize(i) ELSE FixConstants(i)])
           newExcs == [e \in DOMAIN excs |->
                         [start |-> bbGetExc(blocks, e).start, end |-> bbGetExc(blocks, e).end,
                          handler |-> bbGetExc(blocks, e).handler,
                          type |-> IF pass = 1 THEN excs[e].type ELSE fmap[excs[e].type]]]
           pool == IF pass = 1 THEN Marked(c.pool, MarkConstants(InstrsOf(blocks), excs)) ELSE c.pool
<1>1. /\ exit = "no" /\ phase = "rewrite" /\ UNCHANGED <<orig, pass, fmap>>
  BY DEF Rewrite, Going
<1>2. IF pass = 1 /\ LocalMissing
      THEN exit' = "local" /\ UNCHANGED <<c, phase, m, bbList, excList>>
      ELSE IF OutOfReach(blocks)
      THEN exit' = "offset" /\ UNCHANGED <<c, phase, m, bbList, excList>>
      ELSE /\ c' = [c EXCEPT !.methods[m].code = bbExport(blocks), !.methods[m].excs = newExcs,
                             !.pool = pool]
           /\ NextMethod /\ UNCHANGED exit
  BY Zenon DEF Rewrite
<1>3. blocks = Passed
  BY DEF Passed, Pass
<1>4. newExcs = ReadBack(blocks, excs, types)
  BY DEF ReadBack
<1>5. m \in DOMAIN c.methods /\ Rewriting(md, gCode, bbList, excList)
  BY <1>1 DEF GoingInv
<1>6. /\ WellFormed(md.code) /\ n \in Nat /\ DOMAIN excs = 1..n
      /\ \A e \in DOMAIN excs : Entry(md.code, excs[e])
      /\ m \in DOMAIN orig.methods /\ {"code", "excs"} \subseteq DOMAIN md
      /\ gCode = md.code /\ md.code # NoCode
  BY <1>5, WorkFacts DEF Rewriting
<1> HIDE DEF blocks, newExcs, types
<1>7. /\ ~(pass = 1 /\ LocalMissing)
      /\ c' = [c EXCEPT !.methods[m].code = bbExport(blocks), !.methods[m].excs = newExcs, !.pool = pool]
      /\ NextMethod
  BY <1>2
<1>8. \A j \in 1..Count(gCode) : PassedOn(gCode, bbList, Passed, bbExport(Passed), j)
  <2>1. Resolved(gCode, bbList, excList, excs)
    BY <1>5 DEF Rewriting
  <2> HIDE DEF excs, n
  <2> QED BY <1>6, <2>1, RewriteStep
<1>9. types = NewTypes(md.excs)
  BY DEF types, NewTypes
<1>10. pool = NewPool(md.excs)
  BY <1>3 DEF NewPool
<1> HIDE DEF pool
<1>11. c' = Put(c, m, bbExport(Passed), ReadBack(Passed, md.excs, NewTypes(md.excs)), NewPool(md.excs))
  BY <1>3, <1>4, <1>7, <1>9, <1>10 DEF Put
<1> QED BY <1>1, <1>5, <1>6, <1>7, <1>8, <1>11
\* An instruction keeps its operand or loses it.
LEMMA OptimizeIdx ==
  ASSUME NEW i, Instr(i), Optimize(i).idx # 0
  PROVE  Optimize(i).idx = i.idx
<1>1. CASE i.op \in {"ldc", "ldc_w"} /\ Const(c, i.idx).type # "str_ref"
  <2> DEFINE raw == [i EXCEPT !.op = "push_raw", !.numBytes = 4, !.idx = 0, !.val = <<Const(c, i.idx).val>>]
  <2>1. Optimize(i) = raw
    BY <1>1 DEF Optimize, Accesses, Access
  <2>2. raw.idx = 0
    BY DEF Instr
  <2> QED BY <2>1, <2>2
<1>2. CASE i.op \in Accesses /\ ~i.wide /\ HandleLocals(i) # <<>>
  <2> DEFINE r == [i EXCEPT !.wide = TRUE, !.numBytes = 3, !.idx = 0, !.val = HandleLocals(i)]
  <2>1. Optimize(i) = r
    BY <1>2 DEF Optimize, Accesses, Access
  <2>2. r.idx = 0
    BY DEF Instr
  <2> QED BY <2>1, <2>2
<1>3. CASE \/ i.op \in {"ldc", "ldc_w"} /\ Const(c, i.idx).type = "str_ref"
           \/ i.op \in Accesses /\ ~i.wide /\ HandleLocals(i) = <<>>
           \/ ~(i.op \in {"ldc", "ldc_w"}) /\ ~(i.op \in Accesses /\ ~i.wide)
  BY <1>3 DEF Optimize, Accesses, Access
<1> QED BY <1>1, <1>2, <1>3

\* The first pass and what an instruction names.
LEMMA FirstPassNames ==
  ASSUME orig \in Classes, SamePool(orig, c.pool), SameTables(orig, c), pass = 1, ~LocalMissing,
         NEW code, NEW new, NEW j, PassedOn(code, bbList, Passed, new, j),
         Instruction(orig, code.at[Address(code, j)]), NEW excs, NEW f
  PROVE  Names(orig, f, 1, Marked(c.pool, MarkConstants(InstrsOf(Passed), excs)),
               code.at[Address(code, j)], new.at[Address(new, j)])
<1> DEFINE w == code.at[Address(code, j)]
           S == MarkConstants(InstrsOf(Passed), excs)
           pool == Marked(c.pool, S)
<1>1. PICK i \in Range(InstrsOf(bbList)) :
        /\ Words(i) = Words(Decoded(code, j)) /\ Instr(i)
        /\ Pass(i) \in Range(InstrsOf(Passed)) /\ Words(new.at[Address(new, j)]) = Words(Pass(i))
  BY DEF PassedOn
<1>2. i.op = w.op /\ i.wide = w.wide /\ i.idx = w.idx
  BY <1>1 DEF Words, Decoded, Parsed
<1>3. Pass(i) = Optimize(i)
  BY DEF Pass
<1> HIDE DEF w
<1>4. ASSUME Optimize(i).idx # 0 PROVE pool[Optimize(i).idx].direct
  <2> DEFINE x == Optimize(i).idx
  <2>1. x = w.idx
    BY <1>1, <1>2, <1>4, OptimizeIdx
  <2>2. Instruction(orig, w)
    BY DEF w
  <2>3. x \in DOMAIN c.pool
    BY <1>4, <2>1, <2>2 DEF Instruction, IsConst, SamePool
  <2>4. x \in S
    BY <1>1, <1>3, <1>4 DEF MarkConstants
  <2> HIDE DEF x, S
  <2>5. pool[x].direct
    BY <2>3, <2>4, MarkedFacts
  <2> QED BY <2>5 DEF x
<1>5. Instruction(orig, w)
  BY DEF w
<1> HIDE DEF pool
<1>6. Names(orig, f, 1, pool, w, Optimize(i))
  BY <1>1, <1>2, <1>4, <1>5, OptimizeNames
<1>7. Names(orig, f, 1, pool, w, new.at[Address(new, j)])
  BY <1>1, <1>3, <1>6, NamesWords
<1> QED BY <1>7 DEF pool, w

\* The second pass and what an instruction names.
LEMMA SecondPassNames ==
  ASSUME orig \in Classes, SamePool(orig, c.pool), fmap = FMap(c.pool), pass = 2,
         NEW code, NEW new, NEW j, PassedOn(code, bbList, Passed, new, j),
         NEW w, Instruction(orig, w), Names(orig, fmap, 1, c.pool, w, code.at[Address(code, j)])
  PROVE  Names(orig, fmap, 2, c.pool, w, new.at[Address(new, j)])
<1>1. PICK i \in Range(InstrsOf(bbList)) :
        /\ Words(i) = Words(Decoded(code, j)) /\ Instr(i)
        /\ Words(new.at[Address(new, j)]) = Words(Pass(i))
  BY DEF PassedOn
<1>2. Words(i) = Words(code.at[Address(code, j)])
  BY <1>1 DEF Words, Decoded, Parsed
<1>3. Names(orig, fmap, 1, c.pool, w, i)
  BY <1>2, NamesWords
<1>4. Names(orig, fmap, 2, c.pool, w, FixConstants(i))
  BY <1>1, <1>3, FixConstantsNames
<1> QED BY <1>1, <1>4, NamesWords DEF Pass

\* The type of an entry that is read back.
LEMMA ReadTypes ==
  ASSUME NEW blocks, NEW excs, NEW types, NEW e \in DOMAIN excs
  PROVE  ReadBack(blocks, excs, types)[e].type = types[e]
BY DEF ReadBack

\* A pass over a method keeps what its instructions and its entries name.
LEMMA RewrittenNames ==
  ASSUME GoingInv, Unmoved(orig, fmap, phase, pass, m, c), phase = "rewrite", m \in DOMAIN orig.methods,
         c.methods[m].code # NoCode, pass = 1 => ~LocalMissing, NEW new,
         \A j \in 1..Count(c.methods[m].code) : PassedOn(c.methods[m].code, bbList, Passed, new, j),
         NEW md, md.code = new,
         md.excs = ReadBack(Passed, c.methods[m].excs, NewTypes(c.methods[m].excs))
  PROVE  MethodNames(orig, fmap, pass, NewPool(c.methods[m].excs), orig.methods[m], md)
<1> DEFINE old == orig.methods[m]
           was == c.methods[m]
           w(j) == old.code.at[Address(old.code, j)]
           types == NewTypes(was.excs)
           pool == NewPool(was.excs)
<1>1. orig \in Classes /\ SamePool(orig, c.pool) /\ SameTables(orig, c) /\ pass \in {1, 2}
  BY DEF GoingInv, Unmoved
<1>2. /\ \A j \in 1..Count(old.code) : Instruction(orig, w(j))
      /\ \A e \in DOMAIN old.excs : old.excs[e].type = 0 \/ old.excs[e].type \in DOMAIN c.pool
  BY <1>1, CodeFacts, OrigPool DEF IsA, SamePool
<1>3. IF pass = 2 THEN Moved(old, was) ELSE Same(old, was)
  <2>1. IF Touched(phase, pass, m, m) THEN Moved(old, was) ELSE Same(old, was)
    BY DEF GoingInv, ClassOk
  <2>2. Touched(phase, pass, m, m) <=> pass = 2
    BY DEF Touched, GoingInv
  <2> QED BY <2>1, <2>2
<1>4. \A e \in DOMAIN was.excs : md.excs[e].type = types[e]
  <2> HIDE DEF was
  <2>1. md.excs = ReadBack(Passed, was.excs, types)
    BY DEF was
  <2> HIDE DEF types
  <2> QED BY <2>1, ReadTypes
<1> HIDE DEF old, was, types, pool
<1>5. CASE pass = 1
  <2>1. was.code = old.code /\ was.excs = old.excs
    BY <1>3, <1>5 DEF Same
  <2>2. ASSUME NEW j \in 1..Count(old.code)
        PROVE  Names(orig, fmap, 1, pool, w(j), new.at[Address(new, j)])
    <3>1. PassedOn(old.code, bbList, Passed, new, j) /\ Instruction(orig, w(j))
      BY <1>2, <2>1 DEF was
    <3>2. pool = Marked(c.pool, MarkConstants(InstrsOf(Passed), old.excs))
      BY <1>5, <2>1 DEF was, pool, NewPool
    <3> QED BY <1>1, <1>5, <3>1, <3>2, FirstPassNames
  <2>3. ASSUME NEW e \in DOMAIN old.excs
        PROVE  md.excs[e].type = old.excs[e].type /\ (old.excs[e].type # 0 => pool[old.excs[e].type].direct)
    <3> DEFINE x == old.excs[e].type
               S == MarkConstants(InstrsOf(Passed), old.excs)
    <3>1. md.excs[e].type = x
      BY <1>4, <1>5, <2>1 DEF types, NewTypes
    <3>2. ASSUME x # 0 PROVE pool[x].direct
      <4>1. x \in DOMAIN c.pool
        BY <1>2, <3>2
      <4>2. x \in S
        BY <3>2 DEF MarkConstants, Range
      <4>3. pool = Marked(c.pool, S)
        BY <1>5, <2>1 DEF pool, NewPool
      <4> HIDE DEF x, S
      <4> QED BY <1>1, <4>1, <4>2, <4>3, MarkedFacts
    <3> QED BY <3>1, <3>2
  <2>4. MethodNames(orig, fmap, pass, pool, old, md)
    BY <1>5, <2>2, <2>3 DEF MethodNames, At
  <2> QED BY <2>4 DEF old, pool, was
<1>6. CASE pass = 2
  <2>1. fmap = FMap(c.pool) /\ pool = c.pool
    BY <1>6 DEF Unmoved, pool, NewPool
  <2>2. MethodNames(orig, fmap, 1, c.pool, old, was)
    <3>1. Passes(phase, pass, m, m) = 1
      BY <1>6 DEF Passes, GoingInv
    <3>2. AllNames(orig, fmap, phase, pass, m, c)
      BY DEF Unmoved
    <3> QED BY <3>1, <3>2 DEF AllNames, old, was
  <2>3. Count(was.code) = Count(old.code) /\ DOMAIN was.excs = DOMAIN old.excs
    <3>1. was.code # NoCode
      BY DEF was
    <3> QED BY <1>3, <1>6, <3>1 DEF Moved, Carried, SameTargets
  <2>4. ASSUME NEW j \in 1..Count(old.code)
        PROVE  Names(orig, fmap, 2, c.pool, w(j), new.at[Address(new, j)])
    <3>1. PassedOn(was.code, bbList, Passed, new, j) /\ Instruction(orig, w(j))
      BY <1>2, <2>3 DEF was
    <3>2. Names(orig, fmap, 1, c.pool, w(j), was.code.at[Address(was.code, j)])
      BY <2>2 DEF MethodNames
    <3> HIDE DEF w
    <3> QED BY <1>1, <1>6, <2>1, <3>1, <3>2, SecondPassNames
  <2>5. ASSUME NEW e \in DOMAIN old.excs
        PROVE  /\ md.excs[e].type = fmap[old.excs[e].type]
               /\ old.excs[e].type # 0 => c.pool[old.excs[e].type].direct
    <3>1. was.excs[e].type = old.excs[e].type /\ (old.excs[e].type # 0 => c.pool[old.excs[e].type].direct)
      BY <2>2 DEF MethodNames, At
    <3>2. md.excs[e].type = types[e] /\ e \in DOMAIN was.excs
      BY <1>4, <2>3
    <3>3. types[e] = fmap[was.excs[e].type]
      <4>1. types[e] = IF pass = 1 THEN was.excs[e].type ELSE fmap[was.excs[e].type]
        BY <3>2 DEF types, NewTypes
      <4> QED BY <1>6, <4>1
    <3> QED BY <3>1, <3>2, <3>3
  <2>6. MethodNames(orig, fmap, pass, pool, old, md)
    BY <1>6, <2>1, <2>4, <2>5 DEF MethodNames, At
  <2> QED BY <2>6 DEF old, pool, was
<1> QED BY <1>1, <1>5, <1>6

\* The names after a method has been written.
LEMMA RewriteNames ==
  ASSUME GoingInv, exit = "no", NamesInv, Rewrite
  PROVE  NamesInv'
<1> SUFFICES ASSUME exit' = "no" PROVE NamesInv'
  BY DEF NamesInv
<1> DEFINE was == c.methods[m]
           new == bbExport(Passed)
           ys == ReadBack(Passed, was.excs, NewTypes(was.excs))
           pool == NewPool(was.excs)
           cls == c'
           l == Len(orig.methods)
<1>1. /\ phase = "rewrite" /\ UNCHANGED <<orig, pass, fmap>>
      /\ pass = 1 => ~LocalMissing
      /\ cls = Put(c, m, new, ys, pool)
      /\ NextMethod /\ m \in DOMAIN c.methods /\ m \in DOMAIN orig.methods
      /\ was.code # NoCode /\ {"code", "excs"} \subseteq DOMAIN was
      /\ \A j \in 1..Count(was.code) : PassedOn(was.code, bbList, Passed, new, j)
  BY RewriteFacts
<1>2. Unmoved(orig, fmap, phase, pass, m, c)
  BY <1>1 DEF NamesInv
<1>3. /\ orig \in Classes /\ m \in Nat /\ SameShape(orig, c) /\ pass \in {1, 2}
      /\ SamePool(orig, c.pool) /\ SameTables(orig, c) /\ AllNames(orig, fmap, phase, pass, m, c)
      /\ pass = 2 => Complete(orig, c.pool) /\ fmap = FMap(c.pool)
  BY <1>2 DEF GoingInv, ClassOk, Unmoved
<1>4. l \in Nat /\ DOMAIN orig.methods = 1..l /\ DOMAIN c.methods = 1..l /\ {"methods", "pool"} \subseteq DOMAIN c
  BY <1>3, OrigFacts DEF SameShape
<1> HIDE DEF cls, l
<1>5. ASSUME NEW md, md.code = new, md.excs = ys
      PROVE  MethodNames(orig, fmap, pass, pool, orig.methods[m], md)
  BY <1>1, <1>2, <1>5, RewrittenNames
<1>6. pass = 2 => pool = c.pool
  BY DEF NewPool
<1>7. SamePool(orig, pool) /\ \A n \in DOMAIN orig.pool : c.pool[n].direct => pool[n].direct
  <2>1. DOMAIN c.pool = DOMAIN orig.pool
    BY <1>3 DEF SamePool
  <2> QED BY <1>3, <2>1, MarkedFacts DEF NewPool
<1> HIDE DEF new, ys, pool
<1>8. Replaced(c, cls, l, m, new, ys)
  <2> HIDE DEF was
  <2>1. {"code", "excs"} \subseteq DOMAIN c.methods[m]
    BY <1>1 DEF was
  <2> QED BY <1>1, <1>4, <2>1, MethodReplaced DEF Put
<1>9. SameTables(orig, cls) /\ cls.pool = pool
  BY <1>1, <1>3, TablesKept
<1>10. ASSUME NEW n \in DOMAIN orig.methods
       PROVE  LET times == IF n < m \/ n = m THEN pass ELSE pass - 1
              IN  times # 0 => MethodNames(orig, fmap, times, cls.pool, orig.methods[n], cls.methods[n])
  <2>1. CASE n = m
    BY <1>5, <1>8, <1>9, <2>1 DEF Replaced
  <2>2. CASE n # m
    <3>1. cls.methods[n] = c.methods[n]
      BY <1>4, <1>8, <2>2 DEF Replaced
    <3> DEFINE times == IF n < m \/ n = m THEN pass ELSE pass - 1
    <3>2. Passes(phase, pass, m, n) = times
      BY <1>1, <2>2 DEF Passes
    <3>3. times # 0 => MethodNames(orig, fmap, times, c.pool, orig.methods[n], c.methods[n])
      BY <1>3, <3>2 DEF AllNames
    <3> HIDE DEF times
    <3>4. times # 0 => MethodNames(orig, fmap, times, pool, orig.methods[n], c.methods[n])
      BY <1>3, <1>7, <3>3, NamesGrow
    <3> QED BY <1>9, <3>1, <3>4 DEF times
  <2> QED BY <2>1, <2>2
<1>11. /\ AllNames(orig, fmap, phase', pass, m', cls)
       /\ phase' = "load" \/ (m' = 1 /\ phase' = IF pass = 1 THEN "mark" ELSE "fix")
  BY <1>1, <1>3, <1>10, NamesAdvance
<1>12. Unmoved(orig, fmap, phase', pass, m', cls)
  BY <1>3, <1>6, <1>7, <1>9, <1>11, PassOver
<1>13. phase' # "done" /\ phase' # "export"
  BY <1>11
<1> QED BY <1>1, <1>12, <1>13 DEF NamesInv, cls
-----------------------------------------------------------------------------
(* The order of the constants and what is named. *)

\* Marking more constants does not change what a constant needs.
LEMMA NeedsFacts ==
  ASSUME orig \in Classes, NEW pool, SamePool(orig, pool), NEW n \in DOMAIN orig.pool
  PROVE  /\ Needs(pool, pool[n]) = Needs(orig.pool, orig.pool[n])
         /\ Needs(orig.pool, orig.pool[n]) \subseteq DOMAIN orig.pool
<1> DEFINE l == Len(orig.pool)
           was == orig.pool[n]
           is(x, r, type) == orig.pool[x].refs[r] \in 1..l /\ orig.pool[orig.pool[x].refs[r]].type = type
<1>1. DOMAIN orig.pool = 1..l /\ DOMAIN pool = 1..l
  BY OrigPool DEF SamePool
<1>2. \A x \in 1..l : /\ orig.pool[x].type \in OneRef => DOMAIN orig.pool[x].refs = {1} /\ is(x, 1, "string")
                      /\ orig.pool[x].type \in Members =>
                           DOMAIN orig.pool[x].refs = {1, 2} /\ is(x, 1, "class") /\ is(x, 2, "nti")
                      /\ orig.pool[x].type = "nti" =>
                           DOMAIN orig.pool[x].refs = {1, 2} /\ is(x, 1, "string") /\ is(x, 2, "string")
  BY RefersWell
<1>3. \A x \in 1..l : pool[x].type = orig.pool[x].type /\ pool[x].refs = orig.pool[x].refs
  BY <1>1 DEF SamePool
<1> HIDE DEF l
<1>4. CASE was.type \in OneRef
  <2>1. Needs(orig.pool, was) = {was.refs[1]} /\ Needs(pool, pool[n]) = {was.refs[1]}
    BY <1>1, <1>3, <1>4 DEF Needs, OneRef, Members
  <2> QED BY <1>1, <1>2, <1>4, <2>1
<1>5. CASE was.type \in Members
  <2> DEFINE cls == was.refs[1]
             nt == was.refs[2]
  <2>1. /\ cls \in 1..l /\ nt \in 1..l /\ orig.pool[cls].type = "class" /\ orig.pool[nt].type = "nti"
    BY <1>1, <1>2, <1>5
  <2>2. was.type \notin OneRef
    BY <1>5 DEF Members, OneRef
  <2>3. pool[n].type = was.type /\ pool[n].refs = was.refs
    BY <1>1, <1>3
  <2>4. /\ Needs(orig.pool, was) = {orig.pool[cls].refs[1]} \cup Range(orig.pool[nt].refs)
        /\ Needs(pool, pool[n]) = {pool[cls].refs[1]} \cup Range(pool[nt].refs)
    BY <1>5, <2>2, <2>3 DEF Needs
  <2>5. "class" \in OneRef
    BY DEF OneRef
  <2> HIDE DEF cls, nt
  <2>6. orig.pool[cls].refs[1] \in 1..l /\ Range(orig.pool[nt].refs) \subseteq 1..l
    <3>1. orig.pool[cls].refs[1] \in 1..l
      BY <1>2, <2>1, <2>5
    <3>2. DOMAIN orig.pool[nt].refs = {1, 2} /\ orig.pool[nt].refs[1] \in 1..l /\ orig.pool[nt].refs[2] \in 1..l
      BY <1>2, <2>1
    <3> QED BY <3>1, <3>2 DEF Range
  <2> QED BY <1>1, <1>3, <2>1, <2>4, <2>6
<1>6. CASE was.type \notin OneRef \cup Members
  BY <1>1, <1>3, <1>6 DEF Needs
<1> QED BY <1>4, <1>5, <1>6

\* What the class file names, the class names.
LEMMA NamedSame ==
  ASSUME orig \in Classes, SamePool(orig, c.pool), SameTables(orig, c), NEW x \in Named(orig)
  PROVE  x \in Named(c) /\ x \in DOMAIN orig.pool
<1> DEFINE l == Len(orig.pool)
<1>1. DOMAIN orig.pool = 1..l
  BY OrigPool
<1>2. /\ orig.this \in 1..l /\ orig.pool[orig.this].refs[1] \in 1..l
      /\ orig.super # 0 => orig.super \in 1..l /\ orig.pool[orig.super].refs[1] \in 1..l
  <2>1. IsA(orig.this, {"class"}) /\ (orig.super = 0 \/ IsA(orig.super, {"class"}))
    BY TableFacts
  <2>2. \A n \in 1..l : orig.pool[n].type = "class" => orig.pool[n].refs[1] \in 1..l
    BY RefersWell DEF OneRef
  <2> QED BY <2>1, <2>2 DEF IsA
<1>3. c.this = orig.this /\ c.super = orig.super /\ c.ifaces = orig.ifaces /\ c.fields = orig.fields
  BY DEF SameTables
<1>4. \A n \in 1..l : Const(c, n).refs = Const(orig, n).refs
  BY <1>1 DEF SamePool, Const
<1> HIDE DEF l
<1>5. CASE x = Const(orig, orig.this).refs[1]
  BY <1>1, <1>2, <1>3, <1>4, <1>5 DEF Named, Const
<1>6. CASE orig.super # 0 /\ x = Const(orig, orig.super).refs[1]
  BY <1>1, <1>2, <1>3, <1>4, <1>6 DEF Named, Const
<1>7. CASE x \in Range(orig.ifaces)
  <2>1. PICK n \in DOMAIN orig.ifaces : x = orig.ifaces[n]
    BY <1>7 DEF Range
  <2>2. x \in 1..l
    BY <2>1, TableFacts DEF IsA, l
  <2> QED BY <1>1, <1>3, <1>7, <2>2 DEF Named
<1>8. ASSUME NEW f \in Range(orig.fields) \cup Range(orig.methods), x \in {f.name, f.descr}
      PROVE  x \in Named(c) /\ x \in DOMAIN orig.pool
  <2>1. CASE f \in Range(orig.fields)
    <3>1. PICK n \in DOMAIN orig.fields : f = orig.fields[n]
      BY <2>1 DEF Range
    <3>2. x \in 1..l
      BY <1>8, <3>1, TableFacts DEF IsA, l
    <3>3. f \in Range(c.fields) \cup Range(c.methods)
      BY <1>3, <2>1
    <3> QED BY <1>1, <1>8, <3>2, <3>3 DEF Named
  <2>2. CASE f \in Range(orig.methods)
    <3>1. PICK n \in DOMAIN orig.methods : f = orig.methods[n]
      BY <2>2 DEF Range
    <3>2. x \in 1..l
      BY <1>8, <3>1, TableFacts DEF IsA, l
    <3> DEFINE g == c.methods[n]
    <3>3. g \in Range(c.fields) \cup Range(c.methods) /\ x \in {g.name, g.descr}
      BY <1>8, <3>1 DEF SameTables, Range
    <3> HIDE DEF g
    <3> QED BY <1>1, <3>2, <3>3 DEF Named
  <2> QED BY <2>1, <2>2
<1>9. \/ x = Const(orig, orig.this).refs[1]
      \/ orig.super # 0 /\ x = Const(orig, orig.super).refs[1]
      \/ x \in Range(orig.ifaces)
      \/ \E f \in Range(orig.fields) \cup Range(orig.methods) : x \in {f.name, f.descr}
  BY DEF Named
<1> QED BY <1>5, <1>6, <1>7, <1>8, <1>9

\* What the addressed constants need, and the constants when that has been marked.
NeededIn(pool) == UNION {Needs(pool, con) : con \in {d \in Range(pool) : d.direct}}
Placing(pool, S) ==
  [n \in DOMAIN pool |-> IF n \in S THEN [pool[n] EXCEPT !.used = TRUE] ELSE pool[n]]

\* After MarkOthers all that has to be marked is.
LEMMA MarksComplete ==
  ASSUME orig \in Classes, SamePool(orig, c.pool), SameTables(orig, c)
  PROVE  LET marked == Marked(c.pool, Named(c))
             pool == Placing(marked, NeededIn(marked))
         IN  /\ SamePool(orig, pool) /\ Complete(orig, pool)
             /\ \A n \in DOMAIN orig.pool : c.pool[n].direct => pool[n].direct
<1> DEFINE marked == Marked(c.pool, Named(c))
           needed == NeededIn(marked)
           pool == Placing(marked, needed)
<1>1. /\ SamePool(orig, marked)
      /\ \A n \in DOMAIN c.pool : marked[n].direct <=> (c.pool[n].direct \/ n \in Named(c))
  BY MarkedFacts
<1>2. DOMAIN c.pool = DOMAIN orig.pool /\ DOMAIN marked = DOMAIN orig.pool /\ DOMAIN pool = DOMAIN orig.pool
  BY <1>1 DEF SamePool, Placing
<1>3. \A n \in DOMAIN orig.pool :
        pool[n] = IF n \in needed THEN [marked[n] EXCEPT !.used = TRUE] ELSE marked[n]
  BY <1>2 DEF Placing
<1>4. needed = UNION {Needs(marked, con) : con \in {d \in Range(marked) : d.direct}}
  BY DEF NeededIn
<1> HIDE DEF marked, needed, pool
<1>5. ASSUME NEW n \in DOMAIN orig.pool
      PROVE  /\ DOMAIN pool[n] = DOMAIN marked[n] /\ pool[n].type = marked[n].type /\ pool[n].refs = marked[n].refs
             /\ pool[n].val = marked[n].val /\ pool[n].size = marked[n].size /\ pool[n].direct = marked[n].direct
             /\ pool[n].used = IF n \in needed THEN TRUE ELSE marked[n].used
  <2>1. ConstantFields \subseteq DOMAIN marked[n]
    BY <1>1, <1>2 DEF SamePool
  <2>2. CASE n \in needed
    BY <1>3, <2>1, <2>2 DEF ConstantFields
  <2>3. CASE n \notin needed
    BY <1>3, <2>1, <2>3
  <2> QED BY <2>2, <2>3
<1>6. SamePool(orig, pool)
  <2> SUFFICES ASSUME NEW n \in DOMAIN orig.pool
               PROVE  /\ ConstantFields \subseteq DOMAIN pool[n]
                      /\ pool[n].type = orig.pool[n].type /\ pool[n].refs = orig.pool[n].refs
                      /\ pool[n].val = orig.pool[n].val /\ pool[n].size = orig.pool[n].size
                      /\ pool[n].used \in BOOLEAN /\ pool[n].direct \in BOOLEAN
                      /\ pool[n].direct => pool[n].used
    BY <1>2 DEF SamePool
  <2>1. /\ ConstantFields \subseteq DOMAIN marked[n]
        /\ marked[n].type = orig.pool[n].type /\ marked[n].refs = orig.pool[n].refs
        /\ marked[n].val = orig.pool[n].val /\ marked[n].size = orig.pool[n].size
        /\ marked[n].used \in BOOLEAN /\ marked[n].direct \in BOOLEAN
        /\ marked[n].direct => marked[n].used
    BY <1>1, <1>2 DEF SamePool
  <2>2. CASE n \in needed
    BY <1>5, <2>1, <2>2
  <2>3. CASE n \notin needed
    BY <1>5, <2>1, <2>3
  <2> QED BY <2>2, <2>3
<1>7. ASSUME NEW n \in Named(orig)
      PROVE  pool[n].direct
  BY <1>1, <1>2, <1>5, NamedSame
<1>8. ASSUME NEW n \in DOMAIN orig.pool, pool[n].direct, NEW x \in Needs(orig.pool, orig.pool[n])
      PROVE  pool[x].used
  <2>1. Needs(marked, marked[n]) = Needs(orig.pool, orig.pool[n]) /\ x \in DOMAIN orig.pool
    BY <1>1, NeedsFacts
  <2>2. marked[n] \in {d \in Range(marked) : d.direct}
    BY <1>2, <1>5, <1>8 DEF Range
  <2>3. x \in needed
    BY <1>4, <2>1, <2>2
  <2> QED BY <1>5, <2>1, <2>3
<1>9. Complete(orig, pool)
  BY <1>2, <1>7, <1>8 DEF Complete
<1>10. ASSUME NEW n \in DOMAIN orig.pool, c.pool[n].direct
      PROVE  pool[n].direct
  BY <1>1, <1>2, <1>5, <1>10
<1> QED BY <1>6, <1>9, <1>10 DEF marked, needed, pool

\* The rest of the constants is marked.
LEMMA MarkOthersNames ==
  ASSUME GoingInv, exit = "no", NamesInv, MarkOthers
  PROVE  NamesInv'
<1> DEFINE marked == Marked(c.pool, Named(c))
           pool == Placing(marked, NeededIn(marked))
           cls == c'
<1>1. /\ phase = "mark" /\ phase' = "reorder" /\ UNCHANGED <<orig, m, pass, fmap, exit>>
      /\ cls = [c EXCEPT !.pool = pool]
  BY DEF MarkOthers, bbVars, Placing, NeededIn
<1>2. /\ orig \in Classes /\ SamePool(orig, c.pool) /\ SameTables(orig, c) /\ AllNames(orig, fmap, phase, pass, m, c)
      /\ pass = 1 /\ m = 1
  BY <1>1 DEF NamesInv, Unmoved, GoingInv
<1>3. /\ SamePool(orig, pool) /\ Complete(orig, pool)
      /\ \A n \in DOMAIN orig.pool : c.pool[n].direct => pool[n].direct
  BY <1>2, MarksComplete
<1> HIDE DEF pool, cls
<1>4. /\ cls.pool = pool /\ cls.methods = c.methods /\ cls.fields = c.fields /\ cls.this = c.this
      /\ cls.super = c.super /\ cls.ifaces = c.ifaces /\ DOMAIN cls = DOMAIN c
  <2>1. ClassFields \subseteq DOMAIN c
    BY <1>2 DEF SameTables
  <2> QED BY <1>1, <2>1 DEF ClassFields
<1>5. SameTables(orig, cls)
  BY <1>2, <1>4 DEF SameTables
<1>6. AllNames(orig, fmap, "reorder", 1, 1, cls)
  <2> SUFFICES ASSUME NEW n \in DOMAIN orig.methods
               PROVE  MethodNames(orig, fmap, 1, cls.pool, orig.methods[n], cls.methods[n])
    BY DEF AllNames, Passes
  <2>1. MethodNames(orig, fmap, 1, c.pool, orig.methods[n], c.methods[n])
    BY <1>1, <1>2 DEF AllNames, Passes
  <2>2. MethodNames(orig, fmap, 1, pool, orig.methods[n], c.methods[n])
    BY <1>2, <1>3, <2>1, NamesGrow
  <2> QED BY <1>4, <2>2
<1>7. Unmoved(orig, fmap, "reorder", 1, 1, cls)
  BY <1>3, <1>4, <1>5, <1>6 DEF Unmoved
<1> QED BY <1>1, <1>2, <1>7 DEF NamesInv, cls

\* The new indices are there; in the code are the old ones.
LEMMA ReorderNames ==
  ASSUME GoingInv, exit = "no", NamesInv, Reorder
  PROVE  NamesInv'
<1>1. /\ phase = "reorder" /\ phase' = "load" /\ pass' = 2 /\ UNCHANGED <<c, orig, m, exit>>
      /\ fmap' = FMap(c.pool)
  BY DEF Reorder, bbVars, FMap
<1>2. /\ orig \in Classes /\ SamePool(orig, c.pool) /\ SameTables(orig, c) /\ AllNames(orig, fmap, phase, pass, m, c)
      /\ pass = 1 /\ m = 1 /\ Complete(orig, c.pool)
  BY <1>1 DEF NamesInv, Unmoved, GoingInv
<1>3. AllNames(orig, fmap', "load", 2, 1, c)
  <2> SUFFICES ASSUME NEW n \in DOMAIN orig.methods
               PROVE  MethodNames(orig, fmap', 1, c.pool, orig.methods[n], c.methods[n])
    <3>1. \A n \in DOMAIN orig.methods : Passes("load", 2, 1, n) = 1
      BY <1>2, OrigFacts DEF Passes
    <3> QED BY <3>1 DEF AllNames
  <2>1. MethodNames(orig, fmap, 1, c.pool, orig.methods[n], c.methods[n])
    BY <1>1, <1>2 DEF AllNames, Passes
  <2> QED BY <2>1, NamesFirst
<1>4. Unmoved(orig, fmap', "load", 2, 1, c)
  BY <1>1, <1>2, <1>3 DEF Unmoved
<1> QED BY <1>1, <1>2, <1>4 DEF NamesInv

\* What FixOthers does to the class.
LEMMA FixedTables ==
  ASSUME FixOthers, orig \in Classes, SamePool(orig, c.pool), SameTables(orig, c)
  PROVE  Rearranged(orig, fmap, c.pool, c')
<1> DEFINE renamed(ms) ==
             [n \in DOMAIN ms |-> [ms[n] EXCEPT !.name = fmap[@], !.descr = fmap[@]]]
           moved(con) == [con EXCEPT !.refs = [r \in DOMAIN con.refs |-> fmap[con.refs[r]]]]
           string(idx) == IF idx = 0 THEN 0 ELSE fmap[Const(c, idx).refs[1]]
           this == string(c.this)
           super == string(c.super)
           ifaces == [n \in DOMAIN c.ifaces |-> fmap[c.ifaces[n]]]
           attrs == [n \in DOMAIN c.attrs |-> fmap[c.attrs[n]]]
           fields == renamed(c.fields)
           ms == renamed(c.methods)
           addressable == Cardinality({n \in DOMAIN c.pool : c.pool[n].direct}) + 1
           placed == Cardinality({n \in DOMAIN c.pool : c.pool[n].used}) + 1
           constantRMap(p) == CHOOSE n \in DOMAIN c.pool : fmap[n] = p
           pool == [p \in DOMAIN c.pool |-> moved(c.pool[constantRMap(p)])]
           cls == c'
<1>1. cls = [c EXCEPT !.this = this, !.super = super, !.ifaces = ifaces, !.attrs = attrs,
                      !.fields = fields, !.methods = ms, !.addressable = addressable,
                      !.placed = placed, !.pool = pool]
  BY Zenon DEF FixOthers
<1> HIDE DEF this, super, ifaces, attrs, fields, ms, addressable, placed, pool, cls
<1>2. /\ cls.this = this /\ cls.super = super /\ cls.ifaces = ifaces /\ cls.fields = fields /\ cls.methods = ms
      /\ cls.addressable = addressable /\ cls.placed = placed /\ cls.pool = pool
  <2>1. ClassFields \subseteq DOMAIN c
    BY DEF SameTables
  <2> QED BY <1>1, <2>1 DEF ClassFields
<1>3. /\ c.this = orig.this /\ c.super = orig.super /\ c.ifaces = orig.ifaces /\ c.fields = orig.fields
      /\ DOMAIN c.methods = DOMAIN orig.methods
  BY DEF SameTables
<1>4. \A n \in DOMAIN orig.pool : Const(c, n).refs = orig.pool[n].refs
  BY DEF SamePool, Const
<1>5. /\ orig.this \in 1..Len(orig.pool) /\ (orig.super = 0 \/ orig.super \in 1..Len(orig.pool))
      /\ DOMAIN orig.pool = 1..Len(orig.pool)
  BY TableFacts, OrigPool DEF IsA
<1>6. this = fmap[orig.pool[orig.this].refs[1]]
  <2>1. orig.this # 0
    BY <1>5
  <2> QED BY <1>3, <1>4, <1>5, <2>1 DEF this
<1>7. super = IF orig.super = 0 THEN 0 ELSE fmap[orig.pool[orig.super].refs[1]]
  BY <1>3, <1>4, <1>5 DEF super
<1>8. ifaces = [n \in DOMAIN orig.ifaces |-> fmap[orig.ifaces[n]]]
  BY <1>3 DEF ifaces
<1>9. /\ addressable = Cardinality({n \in DOMAIN c.pool : c.pool[n].direct}) + 1
      /\ placed = Cardinality({n \in DOMAIN c.pool : c.pool[n].used}) + 1
  BY DEF addressable, placed
<1>10. pool = [p \in DOMAIN c.pool |-> Renumbered(fmap, c.pool[CHOOSE n \in DOMAIN c.pool : fmap[n] = p])]
  BY Zenon DEF pool, Renumbered
<1>11. ASSUME NEW n \in DOMAIN orig.fields
       PROVE  /\ n \in DOMAIN fields
              /\ fields[n].name = fmap[orig.fields[n].name] /\ fields[n].descr = fmap[orig.fields[n].descr]
  <2>1. orig.fields[n] \in Range(orig.fields) \cup Range(orig.methods)
    BY DEF Range
  <2>2. {"name", "descr"} \subseteq DOMAIN orig.fields[n]
    BY <2>1, ClassesAssumption
  <2>3. fields[n] = [orig.fields[n] EXCEPT !.name = fmap[@], !.descr = fmap[@]] /\ n \in DOMAIN fields
    BY <1>3 DEF fields
  <2> QED BY <2>2, <2>3
<1>12. ASSUME NEW n \in DOMAIN orig.methods
       PROVE  /\ n \in DOMAIN ms
              /\ ms[n].name = fmap[orig.methods[n].name] /\ ms[n].descr = fmap[orig.methods[n].descr]
  <2>1. /\ MemberFields \subseteq DOMAIN c.methods[n]
        /\ c.methods[n].name = orig.methods[n].name /\ c.methods[n].descr = orig.methods[n].descr
    BY DEF SameTables
  <2>2. ms[n] = [c.methods[n] EXCEPT !.name = fmap[@], !.descr = fmap[@]] /\ n \in DOMAIN ms
    BY <1>3 DEF ms
  <2> QED BY <2>1, <2>2 DEF MemberFields
<1>13. DOMAIN fields = DOMAIN orig.fields /\ DOMAIN ms = DOMAIN orig.methods
  BY <1>3 DEF fields, ms
<1>14. Rearranged(orig, fmap, c.pool, cls)
  BY <1>2, <1>6, <1>7, <1>8, <1>9, <1>10, <1>11, <1>12, <1>13 DEF Rearranged
<1> QED BY <1>14 DEF cls

\* The constants are in their new places, and everything names these.
LEMMA FixOthersNames ==
  ASSUME GoingInv, exit = "no", NamesInv, FixOthers
  PROVE  NamesInv'
<1>1. /\ phase = "fix" /\ phase' = "export" /\ UNCHANGED <<orig, m, pass, fmap, exit>>
  BY DEF FixOthers, bbVars
<1>2. /\ orig \in Classes /\ SamePool(orig, c.pool) /\ SameTables(orig, c) /\ AllNames(orig, fmap, phase, pass, m, c)
      /\ pass = 2 /\ Complete(orig, c.pool) /\ fmap = FMap(c.pool)
  BY <1>1 DEF NamesInv, Unmoved, GoingInv
<1> DEFINE l == Len(orig.methods)
           cls == c'
<1>3. SameShape(orig, c) /\ \A n \in DOMAIN orig.methods : Moved(orig.methods[n], c.methods[n])
  BY <1>1 DEF GoingInv, ClassOk, Touched
<1>4. /\ l \in Nat /\ DOMAIN orig.methods = 1..l
      /\ {"methods", "pool"} \subseteq DOMAIN c /\ DOMAIN c.methods = 1..l
  BY <1>2, <1>3, OrigFacts DEF SameShape
<1>5. \A n \in 1..l : {"code", "excs"} \subseteq DOMAIN c.methods[n]
  BY <1>3, <1>4 DEF Moved, Method
<1> HIDE DEF l
<1>6. \A n \in 1..l : cls.methods[n].code = c.methods[n].code /\ cls.methods[n].excs = c.methods[n].excs
  BY <1>4, <1>5, FixedMethods
<1>7. Rearranged(orig, fmap, c.pool, cls)
  BY <1>2, FixedTables
<1> HIDE DEF cls
<1>8. ASSUME NEW n \in DOMAIN orig.methods
      PROVE  MethodNames(orig, fmap, 2, c.pool, orig.methods[n], cls.methods[n])
  <2>1. MethodNames(orig, fmap, 2, c.pool, orig.methods[n], c.methods[n])
    BY <1>1, <1>2 DEF AllNames, Passes
  <2> QED BY <1>4, <1>6, <2>1 DEF MethodNames
<1>9. MovedFrom(orig, fmap, c.pool, cls)
  BY <1>2, <1>7, <1>8 DEF MovedFrom
<1>10. \E pool : MovedFrom(orig, fmap, pool, cls)
  BY <1>9
<1> QED BY <1>1, <1>10 DEF NamesInv, Ready, cls

\* What holds of a file holds as long as the class stays.
LEMMA KeptStays ==
  ASSUME NEW u, KeptIn(u), file' = u, UNCHANGED <<c, orig>>
  PROVE  KeptIn(file)'
<1> DEFINE kept == \A n \in DOMAIN c.methods :
             LET old == orig.methods[n]
                 new == c.methods[n]
             IN  /\ \A j \in 1..Cardinality(DOMAIN old.code.at) :
                      SameReference(file, old.code.at[Address(old.code, j)], new.code.at[Address(new.code, j)])
                 /\ \A e \in DOMAIN old.excs :
                      IF old.excs[e].type = 0 THEN new.excs[e].type = 0
                      ELSE Found(file, new.excs[e].type) = Meaning(orig, old.excs[e].type)
                 /\ Read(file, file.methodList[n].name) = Meaning(orig, old.name)
                 /\ Read(file, file.methodList[n].descr) = Meaning(orig, old.descr)
<1>1. ASSUME NEW a, NEW b, SameReference(u, a, b)
      PROVE  SameReference(file, a, b)'
  BY <1>1 DEF SameReference
<1>2. Interfaces' = Interfaces
  BY DEF Interfaces
<1>3. kept'
  BY <1>1 DEF KeptIn
<1> QED BY <1>2, <1>3 DEF KeptIn

\* The file is written from constants in their new places.
LEMMA ExportNames ==
  ASSUME GoingInv, exit = "no", NamesInv, classExport
  PROVE  NamesInv'
<1>1. /\ phase = "export" /\ phase' = "done" /\ file' = UJC /\ UNCHANGED <<c, orig>>
  BY DEF classExport
<1>2. orig \in Classes /\ \E pool : Ready(pool)
  BY <1>1 DEF NamesInv, GoingInv
<1>3. KeptIn(UJC)
  BY <1>2, ExportKeeps
<1>4. KeptIn(file)'
  BY <1>1, <1>3, KeptStays
<1> QED BY <1>1, <1>4 DEF NamesInv

\* Every step keeps the names.
LEMMA NamesNext ==
  ASSUME Inv, NamesInv, [Next]_vars
  PROVE  NamesInv'
<1>1. CASE UNCHANGED vars
  <2>1. UNCHANGED <<c, orig, phase, m, pass, fmap, file, exit>>
    BY <1>1 DEF vars, bbVars
  <2>2. KeptIn(file) => KeptIn(file)'
    BY <2>1, KeptStays
  <2>3. (\E pool : Ready(pool)) => (\E pool : Ready(pool))'
    BY <2>1 DEF Ready
  <2> QED BY <2>1, <2>2, <2>3 DEF NamesInv
<1>2. CASE Next
  <2>1. exit = "no"
    BY <1>2 DEF Next, LoadCode, SkipMethod, Disassemble, bbPrvRun, AddException, FinishLoading, Rewrite,
                MarkOthers, Reorder, FixOthers, classExport, Going
  <2>2. GoingInv
    BY <2>1 DEF Inv
  <2>3. ASSUME phase \in Loop, phase' \in Loop, UNCHANGED <<c, orig, fmap, pass, m>>
        PROVE  NamesInv'
    <3>1. Unmoved(orig, fmap, phase, pass, m, c)
      BY <2>1, <2>3 DEF NamesInv, Loop
    <3> QED BY <2>3, <3>1, SameNames
  <2>4. CASE LoadCode
    BY <2>3, <2>4 DEF LoadCode, Loop
  <2>5. CASE SkipMethod
    BY <2>1, <2>2, <2>5, SkipMethodNames
  <2>6. CASE Disassemble
    <3>1. phase = "exc"
      BY <2>2, <2>6 DEF Disassemble, bbPrvRun, GoingInv
    <3> QED BY <2>3, <2>6, <3>1 DEF Disassemble, Loop
  <2>7. CASE AddException
    BY <2>3, <2>7 DEF AddException, Loop
  <2>8. CASE FinishLoading
    BY <2>3, <2>8 DEF FinishLoading, Loop
  <2>9. CASE Rewrite
    BY <2>1, <2>2, <2>9, RewriteNames
  <2>10. CASE MarkOthers
    BY <2>1, <2>2, <2>10, MarkOthersNames
  <2>11. CASE Reorder
    BY <2>1, <2>2, <2>11, ReorderNames
  <2>12. CASE FixOthers
    BY <2>1, <2>2, <2>12, FixOthersNames
  <2>13. CASE classExport
    BY <2>1, <2>2, <2>13, ExportNames
  <2> QED BY <1>2, <2>4, <2>5, <2>6, <2>7, <2>8, <2>9, <2>10, <2>11, <2>12, <2>13 DEF Next
<1> QED BY <1>1, <1>2

\* For every class that a compiler has made, whatever its constants are and in whatever
\* order they come: each reference of the class file, looked up in the UJC file through
\* the table of references and the addresses there, means what it meant (classOptimize
\* and classExport), and the sections are where the header says.  Addresses are numbers
\* without a bound.
THEOREM AlwaysReferencesKept == Spec => []ReferencesKept
<1>1. Init => Inv /\ NamesInv
  BY InitInv, InitNames
<1>2. Inv /\ NamesInv /\ [Next]_vars => (Inv /\ NamesInv)'
  BY NextInv, NamesNext
<1>3. Inv /\ NamesInv => ReferencesKept
  BY DEF Inv, NamesInv, ReferencesKept
<1> QED BY <1>1, <1>2, <1>3, PTL DEF Spec
=============================================================================
