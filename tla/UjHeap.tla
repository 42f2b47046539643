------------------------------- MODULE UjHeap -------------------------------
(***************************************************************************)
(* The handle heap of the uJ virtual machine (uJ/ujHeap.c): one array cut  *)
(* into chunks, each a header followed by its data, and a table that maps  *)
(* a handle to the address of its chunk, so that chunks can be moved.      *)
(*                                                                         *)
(* An allocation that finds no room runs the collector and the compactor   *)
(* before it is tried once more.  pc follows that slow path, one step per  *)
(* handle swept and per chunk moved; "idle" is the virtual machine running *)
(* between two calls of the heap.  What ujGC marks is left open here: any  *)
(* set of handles.                                                         *)
(***************************************************************************)
EXTENDS Integers

CONSTANTS
  FIRST,     \* address of the first chunk: the handle table lies before it
  END,       \* UJ_HEAP_SZ, the first address behind the heap
  HDR,       \* CHUNK_HDR_SZ
  ALIGN,     \* HEAP_ALIGN
  SIZES,     \* 2^16: sizes are passed as uint16_t
  NH,        \* numHandles
  Requests   \* the sizes the virtual machine asks for

ASSUME HeapAssumption ==
  /\ FIRST \in Nat \ {0}
  /\ HDR \in Nat \ {0}
  /\ ALIGN \in Nat \ {0}
  /\ SIZES \in Nat \ {0}
  /\ NH \in Nat \ {0}
  /\ END \in Nat
  /\ END >= FIRST + HDR
  /\ Requests \subseteq Nat

VARIABLES
  chunk,     \* address of a header -> the header and what its data holds
  table,     \* handle -> address of its chunk, 0 when the slot is unused
  pc,        \* where ujHeapHandleNew is
  sz,        \* its argument
  fixed,     \* TRUE when it was called by ujHeapAllocNonmovable
  idx,       \* loop variable of ujHeapFreeUnmarked
  rooted     \* the handles ujGC marked in the collection under way

vars == <<chunk, table, pc, sz, fixed, idx, rooted>>

Handle == 1..NH
Address == FIRST..END

Header == [size : Nat, free : BOOLEAN, lock : BOOLEAN, mark : BOOLEAN,
           wsze : Nat, data : 0..NH]

FreeHeader(s) == [size |-> s, free |-> TRUE, lock |-> FALSE, mark |-> FALSE,
                  wsze |-> 0, data |-> 0]

-----------------------------------------------------------------------------
(* The chunk list. *)

\* A chunk map c has no list pointers: the next header is where data ends.
NextAddr(c, a) == a + HDR + c[a].size

HasPrev(c, a) == \E p \in DOMAIN c : NextAddr(c, p) = a

PrevAddr(c, a) == CHOOSE p \in DOMAIN c : NextAddr(c, p) = a

FreeAt(c, a) == a \in DOMAIN c /\ c[a].free
InUse(c, a) == a \in DOMAIN c /\ ~c[a].free

\* ujHeapPrvFreeChunk: the freed span grows over a free neighbour on either
\* side, or over the space the chunk before it had wasted.
FreeStart(c, a) ==
  IF ~HasPrev(c, a) THEN a
  ELSE LET p == PrevAddr(c, a)
       IN  IF c[p].free THEN p ELSE a - c[p].wsze

FreeEnd(c, a) ==
  LET n == NextAddr(c, a) IN IF FreeAt(c, n) THEN NextAddr(c, n) ELSE n

\* (Mutant: the size is cut, the wsze field is not reset.)
GiveUpWaste_KeepsField(hd) == [hd EXCEPT !.size = @ - hd.wsze]

GiveUpWaste(hd) == [hd EXCEPT !.size = @ - hd.wsze, !.wsze = 0]

FreeChunk(c, a) ==
  LET from == FreeStart(c, a)
      to   == FreeEnd(c, a)
      kept == {x \in DOMAIN c : x < from \/ x >= to}
  IN  [x \in kept \cup {from} |->
         IF x = from THEN FreeHeader(to - from - HDR)
         ELSE IF NextAddr(c, x) = a THEN GiveUpWaste(c[x])
         ELSE c[x]]

-----------------------------------------------------------------------------
(* Allocation of a chunk. *)

\* Rounding up in sixteen bits.
Round(s) == (((s + ALIGN - 1) \div ALIGN) * ALIGN) % SIZES

\* (Mutant: any free chunk will do.)
Fits_AnySize(c, s) == {a \in DOMAIN c : c[a].free}

Fits(c, s) == {a \in DOMAIN c : c[a].free /\ c[a].size >= s}

\* The smallest chunk that fits, and the last one of those.
BestFit(c, s, a) ==
  /\ a \in Fits(c, s)
  /\ \A b \in Fits(c, s) :
       c[a].size < c[b].size \/ (c[a].size = c[b].size /\ b <= a)

Splits(c, s, a) == c[a].size - s > HDR

AllocAddr(c, s, a) == IF Splits(c, s, a) THEN a + c[a].size - s ELSE a

\* ujHeapPrvAllocChunk: the end of the chunk is cut off, or all of it is used
\* and the rest is noted as wasted.  The mark bits are not initialised (m).
AllocChunk(c, s, a, m) ==
  LET used(size, waste) == [size |-> size, free |-> FALSE, lock |-> FALSE,
                            mark |-> m, wsze |-> waste, data |-> 0]
      b == AllocAddr(c, s, a)
  IN  IF Splits(c, s, a)
      THEN [x \in DOMAIN c \cup {b} |->
              IF x = b THEN used(s, 0)
              ELSE IF x = a THEN FreeHeader(c[a].size - s - HDR)
              ELSE c[x]]
      ELSE [c EXCEPT ![a] = used(c[a].size, c[a].size - s)]

-----------------------------------------------------------------------------
(* Compaction. *)

\* A chunk the compactor may move: in use and unlocked, before a free one and
\* behind one that is not locked.  The scan stores the chunk before it, so a
\* chunk with none before it is never taken.
\* (Mutants: the lock bit is not looked at; a chunk behind a free one stays.)
Movable_IgnoresLock(c) ==
  {p \in DOMAIN c : ~c[p].free /\ FreeAt(c, NextAddr(c, p)) /\ HasPrev(c, p)}

Movable_NotBehindFree(c) ==
  {p \in DOMAIN c :
     /\ ~c[p].free /\ ~c[p].lock
     /\ FreeAt(c, NextAddr(c, p))
     /\ HasPrev(c, p)
     /\ ~c[PrevAddr(c, p)].lock /\ ~c[PrevAddr(c, p)].free}

Movable(c) ==
  {p \in DOMAIN c :
     /\ ~c[p].free /\ ~c[p].lock
     /\ FreeAt(c, NextAddr(c, p))
     /\ HasPrev(c, p)
     /\ ~c[PrevAddr(c, p)].lock}

\* (Mutant: the header of the free chunk is forgotten.)
MovedTo_NoHeader(c, p) == p + c[NextAddr(c, p)].size + c[p].wsze

MovedTo(c, p) == p + HDR + c[NextAddr(c, p)].size + c[p].wsze

\* One iteration of ujHeapPrvCompact: chunk p is copied to the end of the free
\* chunk behind it, header and all, and what is left in front of it is freed.
\* The copied header loses wsze from its size and keeps the wsze field.
Swap(c, p) ==
  LET f == MovedTo(c, p)
  IN  [x \in (DOMAIN c \ {NextAddr(c, p)}) \cup {f} |->
         IF x = f THEN [c[p] EXCEPT !.size = @ - c[p].wsze]
         ELSE IF x = p THEN [FreeHeader(f - p - HDR) EXCEPT !.free = FALSE]
         ELSE c[x]]

Move(c, p) == FreeChunk(Swap(c, p), p)

-----------------------------------------------------------------------------
(* Operations. *)

Init ==
  /\ chunk = [a \in {FIRST} |-> FreeHeader(END - FIRST - HDR)]
  /\ table = [h \in Handle |-> 0]
  /\ pc = "idle" /\ sz = 0 /\ fixed = FALSE /\ idx = 1 /\ rooted = {}

Unused(h) == table[h] = 0

FirstUnused(h) == Unused(h) /\ \A g \in 1..(h - 1) : ~Unused(g)

\* The end of a successful allocation: the handle gets the chunk; for a
\* nonmovable one the handle is given back at once and the chunk is locked.
Give(c, b, h, nonmovable) ==
  IF nonmovable
  THEN chunk' = [c EXCEPT ![b].lock = TRUE] /\ UNCHANGED table
  ELSE /\ chunk' = [c EXCEPT ![b].data = h]
       /\ table' = [table EXCEPT ![h] = b]

Allocate(s, nonmovable) ==
  \E h \in Handle, a \in DOMAIN chunk, m \in BOOLEAN :
    /\ FirstUnused(h)
    /\ BestFit(chunk, Round(s), a)
    /\ Give(AllocChunk(chunk, Round(s), a, m),
            AllocAddr(chunk, Round(s), a), h, nonmovable)

CannotAllocate(s) ==
  (\A h \in Handle : ~Unused(h)) \/ Fits(chunk, Round(s)) = {}

\* ujHeapHandleNew and ujHeapAllocNonmovable when a slot and a chunk are at hand.
HandleNew(s, nonmovable) ==
  /\ pc = "idle"
  /\ Allocate(s, nonmovable)
  /\ UNCHANGED <<pc, sz, fixed, idx, rooted>>

\* ... and when not.
HandleNewSlow(s, nonmovable) ==
  /\ pc = "idle"
  /\ CannotAllocate(s)
  /\ pc' = "gc" /\ sz' = s /\ fixed' = nonmovable
  /\ UNCHANGED <<chunk, table, idx, rooted>>

\* (Mutant: ujHeapUnmarkAll is not called.)
Collect_NoUnmark(M) ==
  /\ pc = "gc"
  /\ M \subseteq {h \in Handle : ~Unused(h)}
  /\ chunk' = [a \in DOMAIN chunk |->
                 [chunk[a] EXCEPT !.mark = @ \/ \E h \in M : table[h] = a]]
  /\ rooted' = M
  /\ pc' = "sweep" /\ idx' = 1
  /\ UNCHANGED <<table, sz, fixed>>

\* ujHeapUnmarkAll, then ujGC marks the handles in M through ujHeapMark.
Collect(M) ==
  /\ pc = "gc"
  /\ M \subseteq {h \in Handle : ~Unused(h)}
  /\ chunk' = [a \in DOMAIN chunk |->
                 [chunk[a] EXCEPT !.mark = \E h \in M : table[h] = a]]
  /\ rooted' = M
  /\ pc' = "sweep" /\ idx' = 1
  /\ UNCHANGED <<table, sz, fixed>>

FreeHandle(h) ==
  /\ chunk' = FreeChunk(chunk, table[h])
  /\ table' = [table EXCEPT ![h] = 0]

\* (Mutant: locked objects are swept, too.)
Garbage_IgnoresLock(h) == ~Unused(h) /\ ~chunk[table[h]].mark

Garbage(h) ==
  ~Unused(h) /\ ~chunk[table[h]].mark /\ ~chunk[table[h]].lock

\* (Mutant: the loop variable does not advance past a survivor.)
Sweep_Stuck ==
  /\ pc = "sweep"
  /\ idx \in Handle
  /\ IF Garbage(idx) THEN FreeHandle(idx) ELSE UNCHANGED <<chunk, table>>
  /\ idx' = IF Unused(idx) THEN idx + 1 ELSE idx
  /\ UNCHANGED <<pc, sz, fixed, rooted>>

\* One iteration of ujHeapFreeUnmarked.
Sweep ==
  /\ pc = "sweep"
  /\ idx \in Handle
  /\ IF Garbage(idx) THEN FreeHandle(idx) ELSE UNCHANGED <<chunk, table>>
  /\ idx' = idx + 1
  /\ UNCHANGED <<pc, sz, fixed, rooted>>

SweepDone ==
  /\ pc = "sweep"
  /\ idx \notin Handle
  /\ pc' = "compact"
  /\ UNCHANGED <<chunk, table, sz, fixed, idx, rooted>>

\* (Mutant: the handle table is not updated.)
Repoint_Forgotten(p, f) == table

Repoint(p, f) == [h \in Handle |-> IF table[h] = p THEN f ELSE table[h]]

\* One iteration of ujHeapPrvCompact: the last movable chunk.
Compact ==
  /\ pc = "compact"
  /\ \E p \in Movable(chunk) :
       /\ \A q \in Movable(chunk) : q <= p
       /\ chunk' = Move(chunk, p)
       /\ table' = Repoint(p, MovedTo(chunk, p))
  /\ UNCHANGED <<pc, sz, fixed, idx, rooted>>

CompactDone ==
  /\ pc = "compact"
  /\ Movable(chunk) = {}
  /\ pc' = "retry"
  /\ UNCHANGED <<chunk, table, sz, fixed, idx, rooted>>

\* Back in the caller, where the variables of the slow path mean nothing.
Return == pc' = "idle" /\ sz' = 0 /\ fixed' = FALSE /\ idx' = 1 /\ rooted' = {}

\* The second attempt.
Retry ==
  /\ pc = "retry"
  /\ Allocate(sz, fixed)
  /\ Return

\* Out of memory: the caller gets handle 0.
OutOfMemory ==
  /\ pc = "retry"
  /\ Fits(chunk, Round(sz)) = {}
  /\ Return
  /\ UNCHANGED <<chunk, table>>

\* Out of handles: the chunk that was just allocated is freed again.
OutOfHandles ==
  /\ pc = "retry"
  /\ \A h \in Handle : ~Unused(h)
  /\ \E a \in DOMAIN chunk, m \in BOOLEAN :
       /\ BestFit(chunk, Round(sz), a)
       /\ chunk' = FreeChunk(AllocChunk(chunk, Round(sz), a, m),
                             AllocAddr(chunk, Round(sz), a))
  /\ Return
  /\ UNCHANGED table

\* ujHeapHandleFree, called on a handle whose chunk the caller has released.
HandleFree(h) ==
  /\ pc = "idle"
  /\ ~Unused(h) /\ ~chunk[table[h]].lock
  /\ FreeHandle(h)
  /\ UNCHANGED <<pc, sz, fixed, idx, rooted>>

\* ujHeapHandleLock of an unlocked chunk, ujHeapHandleRelease of a locked one.
SetLock(h, l) ==
  /\ pc = "idle"
  /\ ~Unused(h) /\ chunk[table[h]].lock # l
  /\ chunk' = [chunk EXCEPT ![table[h]].lock = l]
  /\ UNCHANGED <<table, pc, sz, fixed, idx, rooted>>

HandleLock(h) == SetLock(h, TRUE)
HandleRelease(h) == SetLock(h, FALSE)

SlowPath ==
  \/ \E M \in SUBSET Handle : Collect(M)
  \/ Sweep \/ SweepDone
  \/ Compact \/ CompactDone
  \/ Retry \/ OutOfMemory \/ OutOfHandles

Next ==
  \/ \E s \in Requests, n \in BOOLEAN : HandleNew(s, n) \/ HandleNewSlow(s, n)
  \/ \E h \in Handle : HandleFree(h) \/ HandleLock(h) \/ HandleRelease(h)
  \/ SlowPath

Spec == Init /\ [][Next]_vars

\* The slow path is straight-line code: once entered it runs.
FairSpec == Spec /\ WF_vars(SlowPath)

-----------------------------------------------------------------------------
(* Properties. *)

TypeOK ==
  /\ DOMAIN chunk \subseteq Address
  /\ chunk \in [DOMAIN chunk -> Header]
  /\ table \in [Handle -> {0} \cup Address]
  /\ pc \in {"idle", "gc", "sweep", "compact", "retry"}
  /\ IF pc = "idle" THEN sz = 0 ELSE sz \in Requests
  /\ fixed \in BOOLEAN
  /\ idx \in Nat \ {0}
  /\ rooted \subseteq Handle

\* The chunks cover the heap from FIRST to END without a gap or an overlap:
\* walking the list by sizes, as every loop of ujHeap.c does, meets exactly the
\* headers that were written, after any sequence of splits, merges and moves.
TiledBy(c) ==
  /\ FIRST \in DOMAIN c
  /\ \A a \in DOMAIN c : NextAddr(c, a) = END \/ NextAddr(c, a) \in DOMAIN c
  /\ \A a, b \in DOMAIN c : a < b => NextAddr(c, a) <= b

Tiled == TiledBy(chunk)

\* Two free chunks never touch, and a chunk in front of a free one has no wasted
\* space.  ujHeapPrvCompact depends on the second part: it leaves wsze in the
\* header it copies, which is harmless only because wsze is then 0.
Coalesced(c) ==
  \A a \in DOMAIN c :
    /\ c[a].wsze <= c[a].size
    /\ c[a].free => c[a].wsze = 0 /\ ~c[a].lock
    /\ FreeAt(c, NextAddr(c, a)) => ~c[a].free /\ c[a].wsze = 0

NoSlack == Coalesced(chunk)

\* A handle in use names a chunk in use that holds that handle's data, so no two
\* handles share a chunk; a chunk in use without a handle is a nonmovable one,
\* and locked.
NameOwnChunk(c, t) ==
  /\ \A h \in Handle : t[h] # 0 => InUse(c, t[h]) /\ c[t[h]].data = h
  /\ \A a \in DOMAIN c :
       ~c[a].free => c[a].lock \/ \E h \in Handle : t[h] = a

HandlesNameOwnChunk == NameOwnChunk(chunk, table)

\* The collector frees exactly the objects that were neither marked nor locked:
\* marks of an earlier collection or left over in reused memory do not count.
\* (Clients free handles only when no collection runs.)
SweepExact ==
  pc = "compact" =>
    /\ \A h \in rooted : ~Unused(h)
    /\ \A h \in Handle : ~Unused(h) => h \in rooted \/ chunk[table[h]].lock

\* Compaction gets rid of fragmentation when nothing is pinned: the second
\* attempt then sees all free space as one chunk, so it fails only if the
\* request is larger than all of it.
NothingPinned == \A a \in DOMAIN chunk : ~chunk[a].lock

CompactionCoalesces ==
  pc = "retry" /\ NothingPinned =>
    \A a, b \in DOMAIN chunk : chunk[a].free /\ chunk[b].free => a = b

\* A locked chunk stays where it is, in use and with its data, for as long as it
\* is locked; nothing but ujHeapHandleRelease unlocks it.  Pointers into the
\* heap that the interpreter holds across an allocation depend on it.
Room(c, a) == c[a].size - c[a].wsze

Pinned ==
  [][\A a \in DOMAIN chunk : chunk[a].lock =>
       /\ a \in DOMAIN chunk'
       /\ ~chunk'[a].free
       /\ Room(chunk', a) = Room(chunk, a)
       /\ chunk'[a].data = chunk[a].data
       /\ chunk'[a].lock \/ \E h \in Handle : HandleRelease(h)]_vars

\* Every allocation returns: the collector and the compactor terminate.
AllocationReturns == pc # "idle" ~> pc = "idle"

\* Behind the handles the heap is a store of objects that keep contents and room
\* from allocation to release (HeapStore), whatever moves or merges meanwhile.
ObjectAt(c, a) == [room |-> Room(c, a), lock |-> c[a].lock, data |-> c[a].data]

StoreView ==
  [h \in Handle |->
     IF Unused(h) THEN [room |-> 0, lock |-> FALSE, data |-> 0]
     ELSE ObjectAt(chunk, table[h])]

Store == INSTANCE HeapStore
           WITH store <- StoreView, Rooms <- {Round(s) : s \in Requests}

StoreSpec == Store!StoreSpec

=============================================================================
