------------------------------ MODULE UjGC_proofs ------------------------------
(***************************************************************************)
(* Proofs about UjGC, for any number of objects and threads and whatever   *)
(* the program does: the marking is exact, it follows references only      *)
(* where there are some, what is in use is never freed, of all that        *)
(* allocate only multianewarray and RT.threadCreate can lose an object,    *)
(* and no stack or array passes its bounds.                                *)
(***************************************************************************)
EXTENDS UjGC, Recursion, TLAPS

\* What may be referred to: not a String that ujThreadPrvNewConstString is still
\* making, which only its C variable names.
Referable == {h \in Handle : /\ kind[h] \in HasClassPointer
                             /\ ~(op.name = "chars" /\ h = op.held)}
Raws == {h \in Handle : kind[h] = "raw"}

\* Frames that refer to G only.
FrameOver(G) == [this : G \cup {0}, slots : Seq(G \cup {0, Number})]

OpNames == {"none", "inst", "str", "arr", "bytes", "ldc", "chars", "init", "multi", "sub", "thread"}

Types ==
  /\ kind \in [Handle -> Kind]
  /\ refs \in [Handle -> Seq(Ref)]
  /\ mark \in [Handle -> 0..2]
  /\ op \in [name : OpNames, thread : Ref, held : Ref, at : Nat, of : Nat]
  /\ pc \in {"run", "alloc", "trace", "sweep", "retry", "halted"}

\* Threads, and only they, have frames; these and the class variables refer to what
\* may be referred to, and so do objects.
FramesRight ==
  /\ frames \in [Handle -> Seq(FrameOver(Referable))]
  /\ \A h \in Handle : frames[h] # <<>> <=> kind[h] = "thread"
  /\ static \in Referable \cup {0}

RefsRight ==
  \A h \in Handle :
    /\ kind[h] \in {"inst", "arr", "bytes"} => refs[h] \in Seq(Referable \cup {0})
    /\ kind[h] = "str" => refs[h] \in Seq(Raws \cup {0})
    /\ kind[h] \in {"none", "raw", "thread"} => refs[h] = <<>>

\* What an operation can rely on while it allocates.
OpNeeds ==
  \/ op.name \in {"inst", "str", "arr", "bytes", "ldc", "multi"} /\ op.held = 0
  \/ /\ op.name = "chars" /\ op.held \in Handle /\ kind[op.held] = "str"
     /\ Handles(refs[op.held]) = {}
  \/ op.name = "init" /\ op.held \in Roots /\ kind[op.held] = "str"
  \/ op.name = "sub" /\ op.held \in Handle /\ kind[op.held] = "arr"
  \/ op.name = "thread" /\ op.held \in Handle /\ kind[op.held] = "inst"

OpRight ==
  /\ lock = IF op.name \in {"chars", "thread"} THEN {op.held} ELSE {}
  /\ IF pc \in {"run", "halted"} THEN op = NoOp
     ELSE op.thread \in Thread /\ OpNeeds

\* The marking: nothing is marked that is not in use, and what an object that has
\* been followed refers to is marked.
MarksRight ==
  pc \in {"trace", "sweep"} =>
    /\ \A h \in Roots : mark[h] # 0
    /\ \A h \in Thread : mark[h] = 2
    /\ \A h \in Handle : mark[h] # 0 => h \in Reach(Roots) \cup Thread
    /\ \A h \in Handle : mark[h] = 1 => kind[h] \in HasClassPointer
    /\ \A h \in Handle : mark[h] = 2 => \A g \in Handles(refs[h]) : mark[g] # 0
    /\ pc = "sweep" => \A h \in Handle : mark[h] # 1

Sound == Types /\ FramesRight /\ RefsRight /\ OpRight /\ MarksRight

IInv == IF lost = {} THEN Sound ELSE pc = "retry" /\ op.name \in {"sub", "thread"}


-----------------------------------------------------------------------------
(* Sequences. *)

\* Whatever refers to G only refers to any set that contains G.
LEMMA SeqGrows ==
  ASSUME NEW S, NEW T, S \subseteq T, NEW s \in Seq(S)
  PROVE  s \in Seq(T)
OBVIOUS

\* Frames that refer to G only refer to all that is larger only.
LEMMA FrameGrows ==
  ASSUME NEW G, NEW H, G \subseteq H, NEW s \in Seq(FrameOver(G))
  PROVE  s \in Seq(FrameOver(H))
<1>1. FrameOver(G) \subseteq FrameOver(H)
  <2> SUFFICES ASSUME NEW f \in FrameOver(G) PROVE f \in FrameOver(H)
    OBVIOUS
  <2>1. /\ f.this \in G \cup {0} /\ f.slots \in Seq(G \cup {0, Number})
        /\ f = [this |-> f.this, slots |-> f.slots]
    BY DEF FrameOver
  <2>2. f.slots \in Seq(H \cup {0, Number})
    <3>1. G \cup {0, Number} \subseteq H \cup {0, Number}
      OBVIOUS
    <3> QED BY <2>1, <3>1, SeqGrows
  <2> QED BY <2>1, <2>2 DEF FrameOver
<1> QED BY <1>1, SeqGrows

\* A sequence refers to what its elements are.
LEMMA SeqNarrows ==
  ASSUME NEW S, NEW T, NEW s \in Seq(S), \A i \in 1..Len(s) : s[i] \in T
  PROVE  s \in Seq(T)
OBVIOUS

\* The ends of a sequence that has elements.
LEMMA FrontLast ==
  ASSUME NEW S, NEW s \in Seq(S), s # <<>>
  PROVE  Front(s) \in Seq(S) /\ Last(s) \in S
<1>1. Len(s) \in Nat /\ Len(s) > 0
  OBVIOUS
<1>2. \A i \in 1..(Len(s) - 1) : s[i] \in S
  BY <1>1
<1> QED BY <1>1, <1>2 DEF Front, Last

\* A sequence with one element replaced, or none when the index is outside.
LEMMA SeqSet ==
  ASSUME NEW S, NEW s \in Seq(S), NEW i, NEW v \in S
  PROVE  [s EXCEPT ![i] = v] \in Seq(S)
<1>1. PICK n \in Nat : s \in [1..n -> S]
  OBVIOUS
<1>2. [s EXCEPT ![i] = v] \in [1..n -> S]
  BY <1>1
<1> QED BY <1>1, <1>2

\* A sequence without its last elements.
LEMMA SeqDrop ==
  ASSUME NEW S, NEW s \in Seq(S), NEW n \in Nat
  PROVE  SubSeq(s, 1, Len(s) - n) \in Seq(S)
<1>1. \A i \in 1..(Len(s) - n) : s[i] \in S
  OBVIOUS
<1> QED BY <1>1

\* Handles of what refers to G only are in G.
LEMMA HandlesIn ==
  ASSUME NEW G, NEW s \in Seq(G \cup {0, Number})
  PROVE  Handles(s) \subseteq G
<1>1. 0 \notin Handle /\ Number \notin Handle
  BY DEF Handle, Number
<1> QED BY <1>1 DEF Handles

\* The handle in a single reference, if it is one.
LEMMA HandlesOf ==
  ASSUME NEW v
  PROVE  Handles(<<v>>) = {v} \cap Handle
BY DEF Handles

-----------------------------------------------------------------------------
(* Reachability. *)

\* Roots are reached.
LEMMA ReachBase ==
  ASSUME NEW R, NEW h \in R, h \in Handle
  PROVE  h \in Reach(R)
BY DEF Reach

\* What an object that is reached refers to is reached.
LEMMA ReachFollows ==
  ASSUME NEW R, NEW h \in Reach(R), NEW g \in Handles(refs[h])
  PROVE  g \in Reach(R)
<1>1. g \in Handle
  BY DEF Handles
<1> QED BY <1>1 DEF Reach, Closed

\* Nothing else is reached: a set closed under references holds it all.
LEMMA ReachLeast ==
  ASSUME NEW R, NEW S \in SUBSET Handle, R \subseteq S, Closed(S)
  PROVE  Reach(R) \subseteq S
BY DEF Reach

\* What is reached from what is reached is reached.
LEMMA ReachThrough ==
  ASSUME NEW R, NEW Q, R \subseteq Reach(Q)
  PROVE  Reach(R) \subseteq Reach(Q)
<1>1. Reach(Q) \in SUBSET Handle
  BY DEF Reach
<1>2. Closed(Reach(Q))
  BY ReachFollows DEF Closed
<1> QED BY <1>1, <1>2, ReachLeast

-----------------------------------------------------------------------------
(* Frames. *)

\* What a thread's frame is made of.
LEMMA TopOK ==
  ASSUME NEW G, frames \in [Handle -> Seq(FrameOver(G))], NEW t \in Handle, frames[t] # <<>>
  PROVE  /\ frames[t] \in Seq(FrameOver(G)) /\ Len(frames[t]) \in Nat
         /\ Front(frames[t]) \in Seq(FrameOver(G))
         /\ Top(t) \in FrameOver(G)
         /\ Top(t).this \in G \cup {0}
         /\ Slots(t) \in Seq(G \cup {0, Number})
<1>1. frames[t] \in Seq(FrameOver(G))
  OBVIOUS
<1>2. Front(frames[t]) \in Seq(FrameOver(G)) /\ Top(t) \in FrameOver(G)
  BY <1>1, FrontLast DEF Top
<1>3. Len(frames[t]) \in Nat
  BY <1>1
<1> QED BY <1>1, <1>2, <1>3 DEF Slots, FrameOver

\* Giving the running method other operands.
LEMMA WithSlotsOK ==
  ASSUME NEW G, frames \in [Handle -> Seq(FrameOver(G))], NEW t \in Handle, frames[t] # <<>>,
         NEW s \in Seq(G \cup {0, Number})
  PROVE  /\ WithSlots(t, s) \in [Handle -> Seq(FrameOver(G))]
         /\ \A h \in Handle : WithSlots(t, s)[h] # <<>> <=> frames[h] # <<>>
<1> DEFINE f == Append(Front(frames[t]), Frame(Top(t).this, s))
<1>1. Front(frames[t]) \in Seq(FrameOver(G)) /\ Top(t).this \in G \cup {0}
  BY TopOK
<1>2. Frame(Top(t).this, s) \in FrameOver(G)
  BY <1>1 DEF Frame, FrameOver
<1>3. f \in Seq(FrameOver(G)) /\ f # <<>>
  <2> DEFINE a == Front(frames[t])
             b == Frame(Top(t).this, s)
             F == FrameOver(G)
  <2>1. a \in Seq(F) /\ b \in F
    BY <1>1, <1>2
  <2> HIDE DEF a, b, F
  <2>2. Append(a, b) \in Seq(F) /\ Len(Append(a, b)) = Len(a) + 1 /\ Len(a) \in Nat
    BY <2>1
  <2>3. ASSUME Append(a, b) = <<>> PROVE FALSE
    <3>1. Len(Append(a, b)) = Len(<<>>)
      BY <2>3
    <3> QED BY <2>2, <3>1
  <2> QED BY <2>2, <2>3 DEF a, b, F
<1>4. WithSlots(t, s) = [frames EXCEPT ![t] = f]
  BY DEF WithSlots
<1> HIDE DEF f
<1> QED BY <1>3, <1>4

\* What is pushed can be referred to.
LEMMA PushFrames ==
  ASSUME NEW G, frames \in [Handle -> Seq(FrameOver(G))], NEW t \in Handle, frames[t] # <<>>,
         NEW v \in G \cup {0, Number}
  PROVE  /\ Push(t, v) \in [Handle -> Seq(FrameOver(G))]
         /\ \A h \in Handle : Push(t, v)[h] # <<>> <=> frames[h] # <<>>
<1>1. Slots(t) \in Seq(G \cup {0, Number})
  BY TopOK
<1>2. Append(Slots(t), v) \in Seq(G \cup {0, Number})
  BY <1>1
<1> QED BY <1>2, WithSlotsOK DEF Push

\* Operands that are dropped.
LEMMA DropFrames ==
  ASSUME NEW G, frames \in [Handle -> Seq(FrameOver(G))], NEW t \in Handle, frames[t] # <<>>,
         NEW n \in Nat
  PROVE  /\ Drop(t, n) \in Seq(G \cup {0, Number})
         /\ WithSlots(t, Drop(t, n)) \in [Handle -> Seq(FrameOver(G))]
         /\ \A h \in Handle : WithSlots(t, Drop(t, n))[h] # <<>> <=> frames[h] # <<>>
<1>1. Slots(t) \in Seq(G \cup {0, Number})
  BY TopOK
<1>2. Drop(t, n) \in Seq(G \cup {0, Number})
  BY <1>1, SeqDrop DEF Drop
<1> QED BY <1>2, WithSlotsOK

\* Operands that are dropped, and the result that is pushed.
LEMMA ResultFrames ==
  ASSUME NEW G, frames \in [Handle -> Seq(FrameOver(G))], NEW t \in Handle, frames[t] # <<>>,
         NEW n \in Nat, NEW v \in G \cup {0, Number}
  PROVE  /\ WithSlots(t, Append(Drop(t, n), v)) \in [Handle -> Seq(FrameOver(G))]
         /\ \A h \in Handle :
              WithSlots(t, Append(Drop(t, n), v))[h] # <<>> <=> frames[h] # <<>>
<1>1. Drop(t, n) \in Seq(G \cup {0, Number})
  BY DropFrames
<1>2. Append(Drop(t, n), v) \in Seq(G \cup {0, Number})
  BY <1>1
<1> QED BY <1>2, WithSlotsOK

\* An operand that is there.
LEMMA PeekOK ==
  ASSUME NEW G, frames \in [Handle -> Seq(FrameOver(G))], NEW t \in Handle, frames[t] # <<>>,
         NEW n \in Nat, Depth(t, n + 1)
  PROVE  Peek(t, n) \in G \cup {0, Number}
<1>1. Slots(t) \in Seq(G \cup {0, Number})
  BY TopOK
<1>2. Len(Slots(t)) - n \in 1..Len(Slots(t))
  BY <1>1 DEF Depth
<1> QED BY <1>1, <1>2 DEF Peek

-----------------------------------------------------------------------------
(* Instructions that move references. *)

\* A thread that runs has a frame.
LEMMA RunningOK ==
  ASSUME Sound, NEW t \in Thread
  PROVE  t \in Handle /\ frames[t] # <<>> /\ frames \in [Handle -> Seq(FrameOver(Referable))]
BY DEF Sound, FramesRight, Thread

\* An object that may be referred to is in use and follows its kind.
LEMMA ReferableOK ==
  ASSUME NEW h \in Referable
  PROVE  h \in Handle /\ kind[h] \in HasClassPointer
BY DEF Referable

\* Instructions that change frames only.
LEMMA FramesStep ==
  ASSUME IInv, lost = {}, pc = "run", OnlyFrames,
         frames' \in [Handle -> Seq(FrameOver(Referable))],
         \A h \in Handle : frames'[h] # <<>> <=> frames[h] # <<>>
  PROVE  IInv'
<1>1. Sound
  BY DEF IInv
<1>2. /\ kind' = kind /\ refs' = refs /\ lock' = lock /\ mark' = mark /\ static' = static
      /\ pc' = pc /\ op' = op /\ lost' = lost
  BY DEF OnlyFrames, objects
<1>3. Referable' = Referable /\ Raws' = Raws
  BY <1>2 DEF Referable, Raws
<1>4. Types'
  BY <1>1, <1>2 DEF Sound, Types
<1>5. FramesRight'
  BY <1>1, <1>2, <1>3 DEF Sound, FramesRight
<1>6. RefsRight'
  BY <1>1, <1>2, <1>3 DEF Sound, RefsRight
<1>7. OpRight'
  BY <1>1, <1>2 DEF Sound, OpRight
<1>8. MarksRight'
  BY <1>2 DEF MarksRight
<1> QED BY <1>2, <1>4, <1>5, <1>6, <1>7, <1>8 DEF IInv, Sound

\* Instructions that write objects or class variables.
LEMMA WriteStep ==
  ASSUME IInv, lost = {}, pc = "run",
         kind' = kind, lock' = lock, mark' = mark, pc' = pc, op' = op, lost' = lost,
         frames' \in [Handle -> Seq(FrameOver(Referable))],
         \A h \in Handle : frames'[h] # <<>> <=> frames[h] # <<>>,
         static' \in Referable \cup {0},
         refs' \in [Handle -> Seq(Ref)],
         \A h \in Handle : \/ refs'[h] = refs[h]
                           \/ kind[h] \in {"inst", "arr"} /\ refs'[h] \in Seq(Referable \cup {0})
  PROVE  IInv'
<1>1. Sound
  BY DEF IInv
<1>2. Referable' = Referable /\ Raws' = Raws
  BY DEF Referable, Raws
<1>3. Types'
  BY <1>1 DEF Sound, Types
<1>4. FramesRight'
  BY <1>1, <1>2 DEF Sound, FramesRight
<1>5. RefsRight'
  BY <1>1, <1>2 DEF Sound, RefsRight
<1>6. OpRight'
  BY <1>1 DEF Sound, OpRight
<1>7. MarksRight'
  BY DEF MarksRight
<1> QED BY <1>3, <1>4, <1>5, <1>6, <1>7 DEF IInv, Sound

\* A number or null is pushed.
LEMMA PushValueInv == ASSUME IInv, NEW t \in Handle, NEW v, PushValue(t, v) PROVE IInv'
<1> DEFINE G == Referable
<1>1. /\ Sound /\ lost = {} /\ pc = "run" /\ t \in Thread /\ v \in {Number, 0} \cup Range(Slots(t))
      /\ frames' = Push(t, v) /\ OnlyFrames
  BY DEF IInv, PushValue, Running
<1>2. t \in Handle /\ frames[t] # <<>> /\ frames \in [Handle -> Seq(FrameOver(G))]
  BY <1>1, RunningOK
<1> HIDE DEF G
<1>3. Slots(t) \in Seq(G \cup {0, Number})
  BY <1>2, TopOK
<1>4. v \in G \cup {0, Number}
  BY <1>1, <1>3 DEF Range
<1>5. /\ Push(t, v) \in [Handle -> Seq(FrameOver(G))]
      /\ \A h \in Handle : Push(t, v)[h] # <<>> <=> frames[h] # <<>>
  BY <1>2, <1>4, PushFrames
<1> QED BY <1>1, <1>5, FramesStep DEF G

\* An operand is popped.
LEMMA PopInv == ASSUME IInv, NEW t \in Handle, Pop(t) PROVE IInv'
<1>1. /\ Sound /\ lost = {} /\ pc = "run" /\ t \in Thread
      /\ frames' = WithSlots(t, Drop(t, 1)) /\ OnlyFrames
  BY DEF IInv, Pop, Running
<1> QED BY <1>1, RunningOK, DropFrames, FramesStep

\* A reference moves from the top of the stack to a local.
LEMMA StoreLocalInv == ASSUME IInv, NEW t \in Handle, NEW i, StoreLocal(t, i) PROVE IInv'
<1> DEFINE G == Referable
           s == [Drop(t, 1) EXCEPT ![i] = Peek(t, 0)]
<1>1. /\ Sound /\ lost = {} /\ pc = "run" /\ t \in Thread /\ i \in 1..(Len(Slots(t)) - 1)
      /\ frames' = WithSlots(t, s) /\ OnlyFrames
  BY DEF IInv, StoreLocal, Running
<1>2. t \in Handle /\ frames[t] # <<>> /\ frames \in [Handle -> Seq(FrameOver(G))]
  BY <1>1, RunningOK
<1> HIDE DEF G
<1>3. Slots(t) \in Seq(G \cup {0, Number})
  BY <1>2, TopOK
<1>4. Depth(t, 0 + 1)
  BY <1>1, <1>3 DEF Depth
<1>5. Peek(t, 0) \in G \cup {0, Number}
  BY <1>2, <1>4, PeekOK
<1>6. s \in Seq(G \cup {0, Number})
  BY <1>2, <1>5, DropFrames, SeqSet
<1> HIDE DEF s
<1>7. /\ WithSlots(t, s) \in [Handle -> Seq(FrameOver(G))]
      /\ \A h \in Handle : WithSlots(t, s)[h] # <<>> <=> frames[h] # <<>>
  BY <1>2, <1>6, WithSlotsOK
<1> QED BY <1>1, <1>7, FramesStep DEF G

\* A field or an element replaces its object on the stack.
LEMMA GetFieldInv == ASSUME IInv, NEW t \in Handle, NEW i, GetField(t, i) PROVE IInv'
<1> DEFINE G == Referable
           o == Peek(t, 0)
<1>1. /\ Sound /\ lost = {} /\ pc = "run" /\ t \in Thread
      /\ o \in Handle /\ kind[o] \in {"inst", "arr"} /\ i \in DOMAIN refs[o]
      /\ frames' = WithSlots(t, Append(Drop(t, 1), refs[o][i])) /\ OnlyFrames
  BY DEF IInv, GetField, Running
<1>2. t \in Handle /\ frames[t] # <<>> /\ frames \in [Handle -> Seq(FrameOver(G))]
  BY <1>1, RunningOK
<1>3. refs[o] \in Seq(G \cup {0})
  BY <1>1 DEF Sound, RefsRight
<1> HIDE DEF G, o
<1>4. refs[o][i] \in G \cup {0, Number}
  BY <1>1, <1>3
<1> DEFINE v == refs[o][i]
           f == WithSlots(t, Append(Drop(t, 1), v))
<1> HIDE DEF v
<1>5. f \in [Handle -> Seq(FrameOver(G))] /\ \A h \in Handle : f[h] # <<>> <=> frames[h] # <<>>
  <2>1. v \in G \cup {0, Number}
    BY <1>4 DEF v
  <2> QED BY <1>2, <2>1, ResultFrames
<1>6. frames' = f
  BY <1>1 DEF v
<1> QED BY <1>1, <1>5, <1>6, FramesStep DEF G

\* A reference on the stack goes into a field or an element.
LEMMA PutFieldInv == ASSUME IInv, NEW t \in Handle, NEW i, PutField(t, i) PROVE IInv'
<1> DEFINE G == Referable
           v == Peek(t, 0)
           o == Peek(t, 1)
<1>1. /\ Sound /\ lost = {} /\ pc = "run" /\ t \in Thread /\ Depth(t, 2) /\ v # Number
      /\ o \in Handle /\ kind[o] \in {"inst", "arr"} /\ i \in DOMAIN refs[o]
      /\ refs' = [refs EXCEPT ![o][i] = v]
      /\ frames' = WithSlots(t, Drop(t, 2))
      /\ kind' = kind /\ lock' = lock /\ mark' = mark /\ static' = static /\ pc' = pc
      /\ op' = op /\ lost' = lost
  BY DEF IInv, PutField, Running
<1>2. t \in Handle /\ frames[t] # <<>> /\ frames \in [Handle -> Seq(FrameOver(G))]
  BY <1>1, RunningOK
<1>3. refs[o] \in Seq(G \cup {0}) /\ refs[o] \in Seq(Ref) /\ refs \in [Handle -> Seq(Ref)]
      /\ static \in G \cup {0}
  BY <1>1 DEF Sound, RefsRight, Types, FramesRight
<1>4. G \subseteq Ref
  BY GCAssumption DEF Referable, Ref, Handle
<1>5. v \in G \cup {0} /\ v \in Ref
  <2>1. Slots(t) \in Seq(G \cup {0, Number})
    BY <1>2, TopOK
  <2>2. Depth(t, 0 + 1)
    BY <1>1, <2>1 DEF Depth
  <2> HIDE DEF G
  <2>3. v \in G \cup {0, Number}
    BY <1>2, <2>2, PeekOK
  <2> QED BY <1>1, <1>4, <2>3, GCAssumption DEF Ref
<1>6. /\ WithSlots(t, Drop(t, 2)) \in [Handle -> Seq(FrameOver(G))]
      /\ \A h \in Handle : WithSlots(t, Drop(t, 2))[h] # <<>> <=> frames[h] # <<>>
  BY <1>2, DropFrames
<1> HIDE DEF G, v, o
<1>7. [refs[o] EXCEPT ![i] = v] \in Seq(G \cup {0}) /\ [refs[o] EXCEPT ![i] = v] \in Seq(Ref)
  BY <1>3, <1>5, SeqSet
<1>8. refs' = [refs EXCEPT ![o] = [refs[o] EXCEPT ![i] = v]]
  BY <1>1
<1>9. refs' \in [Handle -> Seq(Ref)]
      /\ \A h \in Handle : refs'[h] = IF h = o THEN [refs[o] EXCEPT ![i] = v] ELSE refs[h]
  BY <1>1, <1>3, <1>7, <1>8
<1> QED BY <1>1, <1>3, <1>6, <1>7, <1>9, WriteStep DEF G

\* The class variable is pushed.
LEMMA GetStaticInv == ASSUME IInv, NEW t \in Handle, GetStatic(t) PROVE IInv'
<1> DEFINE G == Referable
<1>1. /\ Sound /\ lost = {} /\ pc = "run" /\ t \in Thread /\ static \in G \cup {0}
      /\ frames' = Push(t, static) /\ OnlyFrames
  BY DEF IInv, Sound, FramesRight, GetStatic, Running
<1>2. t \in Handle /\ frames[t] # <<>> /\ frames \in [Handle -> Seq(FrameOver(G))]
  BY <1>1, RunningOK
<1> HIDE DEF G
<1>3. /\ Push(t, static) \in [Handle -> Seq(FrameOver(G))]
      /\ \A h \in Handle : Push(t, static)[h] # <<>> <=> frames[h] # <<>>
  BY <1>1, <1>2, PushFrames
<1> QED BY <1>1, <1>3, FramesStep DEF G

\* A reference on the stack goes into the class variable.
LEMMA PutStaticInv == ASSUME IInv, NEW t \in Handle, PutStatic(t) PROVE IInv'
<1> DEFINE G == Referable
<1>1. /\ Sound /\ lost = {} /\ pc = "run" /\ t \in Thread /\ Depth(t, 0 + 1) /\ Peek(t, 0) # Number
      /\ static' = Peek(t, 0) /\ frames' = WithSlots(t, Drop(t, 1))
      /\ kind' = kind /\ refs' = refs /\ lock' = lock /\ mark' = mark /\ pc' = pc
      /\ op' = op /\ lost' = lost /\ refs \in [Handle -> Seq(Ref)]
  BY DEF IInv, PutStatic, Running, objects, Sound, Types
<1>2. t \in Handle /\ frames[t] # <<>> /\ frames \in [Handle -> Seq(FrameOver(G))]
  BY <1>1, RunningOK
<1> HIDE DEF G
<1>3. Peek(t, 0) \in G \cup {0, Number}
  BY <1>1, <1>2, PeekOK
<1>4. static' \in G \cup {0}
  BY <1>1, <1>3
<1>5. /\ WithSlots(t, Drop(t, 1)) \in [Handle -> Seq(FrameOver(G))]
      /\ \A h \in Handle : WithSlots(t, Drop(t, 1))[h] # <<>> <=> frames[h] # <<>>
  BY <1>2, DropFrames
<1> QED BY <1>1, <1>4, <1>5, WriteStep DEF G

\* The object a method is called on becomes the this of the new frame.
LEMMA InvokeInv == ASSUME IInv, NEW t \in Handle, Invoke(t) PROVE IInv'
<1> DEFINE G == Referable
           o == Peek(t, 0)
           f == WithSlots(t, Drop(t, 1))
           n == Frame(o, <<o>>)
<1>1. /\ Sound /\ lost = {} /\ pc = "run" /\ t \in Thread /\ Depth(t, 0 + 1) /\ o \in Handle
      /\ frames' = [f EXCEPT ![t] = Append(@, n)] /\ OnlyFrames
  BY DEF IInv, Invoke, Running
<1>2. t \in Handle /\ frames[t] # <<>> /\ frames \in [Handle -> Seq(FrameOver(G))]
  BY <1>1, RunningOK
<1> HIDE DEF G
<1>3. o \in G
  <2>1. o \in G \cup {0, Number}
    BY <1>1, <1>2, PeekOK
  <2> QED BY <1>1, <2>1 DEF Handle, Number
<1>4. n \in FrameOver(G)
  BY <1>3 DEF Frame, FrameOver
<1>5. /\ f \in [Handle -> Seq(FrameOver(G))]
      /\ \A h \in Handle : f[h] # <<>> <=> frames[h] # <<>>
  BY <1>2, DropFrames
<1> HIDE DEF f, n, o
<1>6. Append(f[t], n) \in Seq(FrameOver(G)) /\ Append(f[t], n) # <<>>
  <2> DEFINE F == FrameOver(G)
             a == f[t]
  <2>1. a \in Seq(F) /\ n \in F
    BY <1>2, <1>4, <1>5
  <2> HIDE DEF F, a
  <2>2. Append(a, n) \in Seq(F) /\ Len(Append(a, n)) = Len(a) + 1 /\ Len(a) \in Nat
    BY <2>1
  <2>3. ASSUME Append(a, n) = <<>> PROVE FALSE
    <3>1. Len(Append(a, n)) = Len(<<>>)
      BY <2>3
    <3> QED BY <2>2, <3>1
  <2> QED BY <2>2, <2>3 DEF F, a
<1>7. /\ frames' \in [Handle -> Seq(FrameOver(G))]
      /\ \A h \in Handle : frames'[h] = IF h = t THEN Append(f[t], n) ELSE f[h]
  BY <1>1, <1>5, <1>6
<1>8. \A h \in Handle : frames'[h] # <<>> <=> frames[h] # <<>>
  BY <1>2, <1>5, <1>6, <1>7
<1> QED BY <1>1, <1>7, <1>8, FramesStep DEF G

\* A frame goes that is not the last one.
LEMMA ReturnInv == ASSUME IInv, NEW t \in Handle, Return(t) PROVE IInv'
<1> DEFINE F == FrameOver(Referable)
           f == frames[t]
<1>1. /\ Sound /\ lost = {} /\ pc = "run" /\ t \in Thread /\ Len(f) > 1
      /\ frames' = [frames EXCEPT ![t] = Front(f)] /\ OnlyFrames
  BY DEF IInv, Return, Running
<1>2. t \in Handle /\ f # <<>> /\ frames \in [Handle -> Seq(F)] /\ f \in Seq(F)
  BY <1>1, RunningOK
<1> HIDE DEF F
<1>3. Front(f) \in Seq(F) /\ Front(f) # <<>>
  <2> HIDE DEF f
  <2>1. Front(f) \in Seq(F)
    BY <1>2, FrontLast
  <2>2. Len(Front(f)) \in Nat \ {0}
    BY <1>1, <1>2 DEF Front
  <2>3. ASSUME Front(f) = <<>> PROVE FALSE
    <3>1. Len(Front(f)) = Len(<<>>)
      BY <2>3
    <3> QED BY <2>2, <3>1
  <2> QED BY <2>1, <2>3
<1>4. /\ frames' \in [Handle -> Seq(F)]
      /\ \A h \in Handle : frames'[h] # <<>> <=> frames[h] # <<>>
  <2> DEFINE g == Front(f)
  <2> HIDE DEF g
  <2>1. frames' = [frames EXCEPT ![t] = g] /\ g \in Seq(F) /\ g # <<>>
    BY <1>1, <1>3 DEF g
  <2> QED BY <1>2, <2>1
<1> QED BY <1>1, <1>4, FramesStep DEF F

\* A thread that ends leaves nothing behind that could refer to anything.
LEMMA ThreadEndsInv == ASSUME IInv, NEW t \in Handle, ThreadEnds(t) PROVE IInv'
<1>1. /\ Sound /\ lost = {} /\ pc = "run" /\ t \in Thread /\ kind[t] = "thread"
      /\ frames' = [frames EXCEPT ![t] = <<>>] /\ kind' = [kind EXCEPT ![t] = "none"]
      /\ refs' = refs /\ lock' = lock /\ mark' = mark /\ static' = static /\ pc' = pc
      /\ op' = op /\ lost' = lost
  BY DEF IInv, ThreadEnds, Running, Thread
<1>2. /\ kind' \in [Handle -> Kind]
      /\ \A h \in Handle : kind'[h] = IF h = t THEN "none" ELSE kind[h]
  BY <1>1 DEF Sound, Types, Kind
<1>3. Referable' = Referable /\ Raws' = Raws
  BY <1>1, <1>2 DEF Referable, Raws, HasClassPointer
<1>4. Types'
  BY <1>1, <1>2 DEF Sound, Types
<1>5. FramesRight'
  <2> DEFINE F == FrameOver(Referable)
  <2>1. F' = F
    BY <1>3 DEF FrameOver
  <2>2. frames \in [Handle -> Seq(F)] /\ <<>> \in Seq(F)
    BY <1>1 DEF Sound, FramesRight
  <2>3. static' \in Referable' \cup {0}
    BY <1>1, <1>3 DEF Sound, FramesRight
  <2> HIDE DEF F
  <2>4. frames' \in [Handle -> Seq(F)]
        /\ \A h \in Handle : frames'[h] = IF h = t THEN <<>> ELSE frames[h]
    BY <1>1, <2>2
  <2>5. \A h \in Handle : frames'[h] # <<>> <=> kind'[h] = "thread"
    BY <1>1, <1>2, <2>4 DEF Sound, FramesRight
  <2>6. frames' \in [Handle -> Seq(F')]
    BY <2>1, <2>4
  <2> QED BY <2>3, <2>5, <2>6 DEF F, FramesRight
<1>6. RefsRight'
  BY <1>1, <1>2, <1>3 DEF Sound, RefsRight
<1>7. OpRight'
  BY <1>1 DEF Sound, OpRight
<1>8. MarksRight'
  BY <1>1 DEF MarksRight
<1> QED BY <1>1, <1>4, <1>5, <1>6, <1>7, <1>8 DEF IInv, Sound

-----------------------------------------------------------------------------
(* The collector. *)

\* Threads refer to what may be referred to.
LEMMA RootsReferable ==
  ASSUME FramesRight
  PROVE  Roots \subseteq Referable
<1>1. ASSUME NEW t \in Thread PROVE ThreadRoots(t) \subseteq Referable
  <2>1. t \in Handle /\ frames[t] \in Seq(FrameOver(Referable))
    BY DEF FramesRight, Thread
  <2>2. ASSUME NEW i \in DOMAIN frames[t]
        PROVE  /\ Handles(frames[t][i].slots) \subseteq Referable
               /\ Handles(<<frames[t][i].this>>) \subseteq Referable
    <3>1. frames[t][i] \in FrameOver(Referable)
      BY <2>1, <2>2
    <3>2. /\ frames[t][i].this \in Referable \cup {0}
          /\ frames[t][i].slots \in Seq(Referable \cup {0, Number})
      BY <3>1 DEF FrameOver
    <3>3. Handles(<<frames[t][i].this>>) \subseteq Referable
      BY <3>2, HandlesOf DEF Handle
    <3> QED BY <3>2, <3>3, HandlesIn
  <2> QED BY <2>2 DEF ThreadRoots
<1>2. Handles(<<static>>) \subseteq Referable
  BY HandlesOf DEF FramesRight, Handle
<1> QED BY <1>1, <1>2 DEF Roots

\* The roots are what they were as long as no thread is touched.
LEMMA RootsKept ==
  ASSUME Thread' = Thread, frames' = frames, static' = static
  PROVE  Roots' = Roots
<1>1. \A t \in Thread : ThreadRoots(t)' = ThreadRoots(t)
  BY DEF ThreadRoots, Handles, Handle
<1>2. Handles(<<static>>)' = Handles(<<static>>)
  BY DEF Handles, Handle
<1> QED BY <1>1, <1>2 DEF Roots

\* A step of the marking.
LEMMA MarkStep ==
  ASSUME IInv, lost = {}, pc \in {"alloc", "trace"}, pc' \in {"trace", "sweep"},
         UNCHANGED <<kind, refs, lock, frames, static, op, lost>>,
         mark' \in [Handle -> 0..2], MarksRight'
  PROVE  IInv'
<1>1. Sound
  BY DEF IInv
<1>2. Referable' = Referable /\ Raws' = Raws /\ Thread' = Thread
  BY DEF Referable, Raws, Thread
<1>3. Roots' = Roots
  BY <1>2, RootsKept
<1>4. Types'
  BY <1>1 DEF Sound, Types
<1>5. FramesRight'
  BY <1>1, <1>2 DEF Sound, FramesRight
<1>6. RefsRight'
  BY <1>1, <1>2 DEF Sound, RefsRight
<1>7. OpRight'
  <2>1. op.thread \in Thread /\ OpNeeds
    BY <1>1 DEF Sound, OpRight
  <2>2. OpNeeds'
    BY <1>3, <2>1 DEF OpNeeds, Handles
  <2> QED BY <1>1, <1>2, <2>1, <2>2 DEF Sound, OpRight
<1> QED BY <1>4, <1>5, <1>6, <1>7 DEF IInv, Sound

\* Marking begins with the threads and what they refer to.
LEMMA CollectInv == ASSUME IInv, Collect PROVE IInv'
<1>1. /\ Sound /\ lost = {} /\ pc = "alloc" /\ pc' = "trace"
      /\ UNCHANGED <<kind, refs, lock, frames, static, op, lost>>
      /\ mark' = [h \in Handle |-> IF h \in Thread THEN 2 ELSE IF h \in Roots THEN 1 ELSE 0]
  BY DEF IInv, Collect
<1>2. Thread' = Thread
  BY <1>1 DEF Thread
<1>3. Roots' = Roots
  BY <1>1, <1>2, RootsKept
<1>4. Reach(Roots)' = Reach(Roots)
  BY <1>1, <1>3 DEF Reach, Closed, Handles
<1>5. mark' \in [Handle -> 0..2]
  BY <1>1
<1>6. MarksRight'
  <2>1. Roots \subseteq Handle
    BY <1>1, RootsReferable, ReferableOK DEF Sound
  <2>2. \A h \in Roots' : mark'[h] # 0
    BY <1>1, <1>3, <2>1
  <2>3. \A h \in Thread' : mark'[h] = 2
    BY <1>1, <1>2 DEF Thread
  <2>4. \A h \in Handle : mark'[h] # 0 => h \in Reach(Roots)' \cup Thread'
    BY <1>1, <1>2, <1>4, ReachBase
  <2>5. \A h \in Handle : mark'[h] = 1 => kind'[h] \in HasClassPointer
    BY <1>1, RootsReferable, ReferableOK DEF Sound
  <2>6. \A h \in Handle : mark'[h] = 2 => \A g \in Handles(refs'[h]) : mark'[g] # 0
    <3>1. \A h \in Thread : refs[h] = <<>>
      BY <1>1 DEF Sound, RefsRight, Thread
    <3>2. Handles(<<>>) = {}
      BY DEF Handles
    <3> QED BY <1>1, <3>1, <3>2
  <2>7. pc' # "sweep"
    BY <1>1
  <2> QED BY <2>2, <2>3, <2>4, <2>5, <2>6, <2>7 DEF MarksRight
<1> QED BY <1>1, <1>5, <1>6, MarkStep

\* An object that is followed raises the marks of what it refers to, and no other.
LEMMA TraceInv == ASSUME IInv, Trace PROVE IInv'
<1>1. PICK h \in Handle :
        /\ FirstMarked(h) /\ mark' = [g \in Handle |-> IF g = h THEN 2 ELSE ChildMark(h, g)]
  BY DEF Trace
<1>2. /\ Sound /\ lost = {} /\ pc = "trace" /\ pc' = "trace"
      /\ UNCHANGED <<kind, refs, lock, frames, static, op, lost>>
  BY DEF IInv, Trace
<1>3. /\ mark \in [Handle -> 0..2] /\ mark[h] = 1 /\ kind[h] \in HasClassPointer
      /\ h \in Reach(Roots)
  <2>1. mark \in [Handle -> 0..2] /\ mark[h] = 1
    BY <1>1, <1>2 DEF Sound, Types, FirstMarked
  <2>2. kind[h] \in HasClassPointer /\ h \in Reach(Roots) \cup Thread
    BY <1>2, <2>1 DEF Sound, MarksRight
  <2> QED BY <2>1, <2>2 DEF Thread, HasClassPointer
<1> DEFINE m == IF kind[h] = "str" THEN 2 ELSE 1
           C == Handles(refs[h])
<1>4. \A g \in Handle :
        mark'[g] = IF g = h THEN 2
                   ELSE IF g \notin C THEN mark[g]
                   ELSE IF mark[g] < m THEN m ELSE mark[g]
  BY <1>1 DEF ChildMark, Raise
<1>5. mark' \in [Handle -> 0..2]
  BY <1>1, <1>3 DEF ChildMark, Raise
<1>6. \A g \in Handle : mark[g] # 0 => mark'[g] # 0
  BY <1>3, <1>4
<1>7. \A g \in C : g \in Handle /\ mark'[g] # 0 /\ g \in Reach(Roots)
  <2>1. \A g \in C : g \in Handle
    BY DEF Handles
  <2>2. \A g \in C : g \in Reach(Roots)
    BY <1>3, ReachFollows
  <2> QED BY <1>3, <1>4, <2>1, <2>2
<1>8. Thread' = Thread
  BY <1>2 DEF Thread
<1>9. Roots' = Roots
  BY <1>2, <1>8, RootsKept
<1>10. Reach(Roots)' = Reach(Roots)
  BY <1>2, <1>9 DEF Reach, Closed, Handles
<1>11. \A g \in C : IF kind[h] = "str" THEN kind[g] = "raw" ELSE kind[g] \in HasClassPointer
  <2>1. CASE kind[h] = "str"
    <3>1. refs[h] \in Seq(Raws \cup {0})
      BY <1>2, <2>1 DEF Sound, RefsRight
    <3>2. C \subseteq Raws
      BY <3>1, SeqGrows, HandlesIn
    <3> QED BY <2>1, <3>2 DEF Raws
  <2>2. CASE kind[h] # "str"
    <3>1. refs[h] \in Seq(Referable \cup {0})
      BY <1>2, <1>3, <2>2 DEF Sound, RefsRight, HasClassPointer
    <3>2. C \subseteq Referable
      BY <3>1, SeqGrows, HandlesIn
    <3> QED BY <2>2, <3>2, ReferableOK
  <2> QED BY <2>1, <2>2
<1> HIDE DEF C
<1>12. MarksRight'
  <2>1. \A g \in Roots' : mark'[g] # 0
    BY <1>2, <1>6, <1>9, RootsReferable, ReferableOK DEF Sound, MarksRight
  <2>2. \A g \in Thread' : mark'[g] = 2
    <3>1. \A g \in Thread : g \in Handle /\ mark[g] = 2
      BY <1>2 DEF Sound, MarksRight, Thread
    <3> QED BY <1>4, <1>8, <3>1
  <2>3. \A g \in Handle : mark'[g] # 0 => g \in Reach(Roots)' \cup Thread'
    <3>1. \A g \in Handle : mark[g] # 0 => g \in Reach(Roots) \cup Thread
      BY <1>2 DEF Sound, MarksRight
    <3> QED BY <1>3, <1>4, <1>7, <1>8, <1>10, <3>1
  <2>4. \A g \in Handle : mark'[g] = 1 => kind'[g] \in HasClassPointer
    <3> SUFFICES ASSUME NEW g \in Handle, mark'[g] = 1 PROVE kind[g] \in HasClassPointer
      BY <1>2
    <3>1. CASE mark[g] = 1
      BY <1>2, <3>1 DEF Sound, MarksRight
    <3>2. CASE mark[g] # 1
      <4>1. g \in C /\ kind[h] # "str"
        BY <1>3, <1>4, <3>2
      <4> QED BY <1>11, <4>1
    <3> QED BY <3>1, <3>2
  <2>5. \A g \in Handle : mark'[g] = 2 => \A x \in Handles(refs'[g]) : mark'[x] # 0
    <3> SUFFICES ASSUME NEW g \in Handle, mark'[g] = 2, NEW x \in Handles(refs[g])
                 PROVE  mark'[x] # 0
      BY <1>2
    <3>1. x \in Handle
      BY DEF Handles
    <3>2. CASE g = h
      BY <1>7, <3>2 DEF C
    <3>3. CASE g # h /\ mark[g] = 2
      BY <1>2, <1>6, <3>1, <3>3 DEF Sound, MarksRight
    <3>4. CASE g # h /\ mark[g] # 2
      <4>1. g \in C /\ kind[h] = "str"
        BY <1>3, <1>4, <3>4
      <4>2. kind[g] = "raw"
        BY <1>11, <4>1
      <4>3. refs[g] = <<>>
        BY <1>2, <4>2 DEF Sound, RefsRight
      <4> QED BY <4>3 DEF Handles
    <3> QED BY <3>2, <3>3, <3>4
  <2>6. pc' # "sweep"
    BY <1>2
  <2> QED BY <2>1, <2>2, <2>3, <2>4, <2>5, <2>6 DEF MarksRight
<1> QED BY <1>2, <1>5, <1>12, MarkStep

\* When a pass finds nothing to follow, no object is marked 1.
LEMMA TraceDoneInv == ASSUME IInv, TraceDone PROVE IInv'
<1>1. /\ Sound /\ lost = {} /\ pc = "trace" /\ pc' = "sweep" /\ mark' = mark
      /\ UNCHANGED <<kind, refs, lock, frames, static, op, lost>>
      /\ \A h \in Handle : mark[h] # 1
  BY DEF IInv, TraceDone
<1>2. Thread' = Thread
  BY <1>1 DEF Thread
<1>3. Roots' = Roots
  BY <1>1, <1>2, RootsKept
<1>4. Reach(Roots)' = Reach(Roots)
  BY <1>1, <1>3 DEF Reach, Closed, Handles
<1>5. MarksRight'
  <2>1. \A h \in Handle : Handles(refs'[h]) = Handles(refs[h])
    BY <1>1
  <2> QED BY <1>1, <1>2, <1>3, <1>4, <2>1 DEF Sound, MarksRight
<1>6. mark' \in [Handle -> 0..2]
  BY <1>1 DEF Sound, Types
<1> QED BY <1>1, <1>5, <1>6, MarkStep

\* At the end of the marking, what is marked is closed and so has all that is reached.
LEMMA MarkedAll ==
  ASSUME Sound, pc = "sweep", NEW h \in Handle
  PROVE  mark[h] = IF h \in Reach(Roots) \cup Thread THEN 2 ELSE 0
<1> DEFINE M == {g \in Handle : mark[g] = 2}
<1>1. /\ mark \in [Handle -> 0..2] /\ \A g \in Handle : mark[g] # 1
      /\ \A g \in Roots : mark[g] # 0
      /\ \A g \in Thread : mark[g] = 2
      /\ \A g \in Handle : mark[g] # 0 => g \in Reach(Roots) \cup Thread
      /\ \A g \in Handle : mark[g] = 2 => \A x \in Handles(refs[g]) : mark[x] # 0
  BY DEF Sound, Types, MarksRight
<1>2. \A g \in Handle : mark[g] # 0 => mark[g] = 2
  BY <1>1
<1>3. Roots \subseteq M
  BY <1>1, <1>2, RootsReferable, ReferableOK DEF Sound
<1>4. Closed(M)
  <2> SUFFICES ASSUME NEW g \in M, NEW x \in Handles(refs[g]) PROVE x \in M
    BY DEF Closed
  <2>1. x \in Handle
    BY DEF Handles
  <2> QED BY <1>1, <1>2, <2>1
<1>5. Reach(Roots) \subseteq M
  BY <1>3, <1>4, ReachLeast
<1> QED BY <1>1, <1>2, <1>5

\* What the collection frees is nothing that anything in use refers to.  Only an
\* operation that holds an object in a C variable can lose it.
LEMMA SweepInv == ASSUME IInv, Sweep PROVE IInv'
<1> DEFINE D == {h \in Live : mark[h] = 0 /\ h \notin lock}
           held == op.held
           Q == Reach(Handles(<<held>>))
<1>1. /\ Sound /\ lost = {} /\ pc = "sweep" /\ pc' = "retry"
      /\ kind' = [h \in Handle |-> IF h \in D THEN "none" ELSE kind[h]]
      /\ refs' = [h \in Handle |-> IF h \in D THEN <<>> ELSE refs[h]]
      /\ lost' = D \cap Q
      /\ mark' = [h \in Handle |-> 0]
      /\ UNCHANGED <<lock, frames, static, op>>
  BY DEF IInv, Sweep
<1>2. /\ kind \in [Handle -> Kind] /\ refs \in [Handle -> Seq(Ref)]
      /\ op.held \in Ref /\ op.thread \in Thread /\ OpNeeds
      /\ lock = IF op.name \in {"chars", "thread"} THEN {held} ELSE {}
  BY <1>1 DEF Sound, Types, OpRight
<1>3. \A h \in D : h \in Handle /\ mark[h] = 0 /\ h \notin lock
  BY DEF Live
<1>4. \A h \in Handle : h \in Reach(Roots) \cup Thread => h \notin D
  BY <1>1, <1>3, MarkedAll
<1>5. held \in Handle => held \in Q
  BY HandlesOf, ReachBase
<1>6. \A h \in Handle : h \notin D => kind[h] = "none" \/ mark[h] # 0 \/ h \in lock
  BY DEF Live
<1> HIDE DEF D
<1>7. CASE lost' # {}
  <2>1. CASE op.name \in {"inst", "str", "arr", "bytes", "ldc", "multi"} /\ held = 0
    <3>1. Handles(<<held>>) = {}
      BY <2>1, HandlesOf DEF Handle
    <3>2. Closed({}) /\ {} \in SUBSET Handle
      BY DEF Closed
    <3>3. Q \subseteq {}
      BY <3>1, <3>2, ReachLeast
    <3> QED BY <1>1, <1>7, <3>3
  <2>2. CASE op.name = "chars" /\ held \in Handle /\ Handles(refs[held]) = {}
    <3>1. Closed({held}) /\ {held} \in SUBSET Handle /\ Handles(<<held>>) = {held}
      BY <2>2, HandlesOf DEF Closed
    <3>2. Q \subseteq {held}
      BY <3>1, ReachLeast
    <3>3. held \notin D
      BY <1>2, <1>3, <2>2
    <3> QED BY <1>1, <1>7, <3>2, <3>3
  <2>3. CASE op.name = "init" /\ held \in Roots
    <3>1. held \in Reach(Roots)
      BY <1>1, <2>3, ReachBase, RootsReferable, ReferableOK DEF Sound
    <3>2. Handles(<<held>>) \subseteq Reach(Roots)
      BY <3>1, HandlesOf
    <3>3. Q \subseteq Reach(Roots)
      BY <3>2, ReachThrough
    <3>4. \A h \in Q : h \in Handle
      BY DEF Reach
    <3> QED BY <1>1, <1>4, <1>7, <3>3, <3>4
  <2>4. CASE op.name \in {"sub", "thread"}
    BY <1>1, <1>7, <2>4 DEF IInv
  <2> QED BY <1>2, <2>1, <2>2, <2>3, <2>4 DEF OpNeeds
<1>8. CASE lost' = {}
  <2>1. \A h \in Q : h \notin D
    BY <1>1, <1>8
  <2>2. \A h \in Handle : /\ h \notin D => kind'[h] = kind[h] /\ refs'[h] = refs[h]
                          /\ h \in D => kind'[h] = "none" /\ refs'[h] = <<>>
    BY <1>1
  <2>3. Thread' = Thread
    BY <1>4, <2>2 DEF Thread
  <2>4. Roots' = Roots
    BY <1>1, <2>3, RootsKept
  <2>5. Referable' = Referable \ D /\ Raws' = Raws \ D
    BY <1>1, <2>2 DEF Referable, Raws, HasClassPointer
  <2>6. ASSUME NEW v \in Roots PROVE v \notin D
    <3>1. v \in Handle
      BY <1>1, RootsReferable, ReferableOK DEF Sound
    <3> QED BY <1>4, <3>1, ReachBase
  <2>7. ASSUME NEW h \in Handle, h \notin D, kind[h] # "none", NEW v \in Handles(refs[h])
        PROVE  v \notin D
    <3>1. v \in Handle
      BY DEF Handles
    <3>2. CASE h \in lock
      <4>1. h = held /\ h \in Q
        BY <1>2, <1>5, <3>2
      <4>2. v \in Q
        BY <4>1, ReachFollows
      <4> QED BY <2>1, <4>2
    <3>3. CASE mark[h] # 0
      <4>1. h \in Reach(Roots) \cup Thread
        BY <1>1, <3>3, MarkedAll
      <4>2. h \notin Thread
        <5>1. ASSUME kind[h] = "thread" PROVE FALSE
          <6>1. refs[h] = <<>>
            BY <1>1, <5>1 DEF Sound, RefsRight
          <6> QED BY <6>1 DEF Handles
        <5> QED BY <5>1 DEF Thread
      <4>3. v \in Reach(Roots)
        BY <4>1, <4>2, ReachFollows
      <4> QED BY <1>4, <3>1, <4>3
    <3> QED BY <1>6, <2>7, <3>2, <3>3
  <2>8. Types'
    <3>1. kind' \in [Handle -> Kind]
      BY <1>1, <1>2 DEF Kind
    <3>2. refs' \in [Handle -> Seq(Ref)]
      <4>1. <<>> \in Seq(Ref)
        OBVIOUS
      <4> QED BY <1>1, <1>2, <4>1
    <3>3. mark' \in [Handle -> 0..2]
      BY <1>1
    <3>4. op' \in [name : OpNames, thread : Ref, held : Ref, at : Nat, of : Nat]
      BY <1>1 DEF Sound, Types
    <3> QED BY <1>1, <3>1, <3>2, <3>3, <3>4 DEF Types
  <2>9. FramesRight'
    <3> DEFINE G == Referable
               N == Referable \ D
    <3>1. frames \in [Handle -> Seq(FrameOver(G))] /\ static \in G \cup {0}
          /\ \A h \in Handle : frames[h] # <<>> <=> kind[h] = "thread"
      BY <1>1 DEF Sound, FramesRight
    <3>2. ASSUME NEW t \in Handle PROVE frames[t] \in Seq(FrameOver(N))
      <4>1. frames[t] \in Seq(FrameOver(G))
        BY <3>1
      <4>2. ASSUME NEW i \in 1..Len(frames[t]) PROVE frames[t][i] \in FrameOver(N)
        <5> DEFINE f == frames[t][i]
        <5>1. i \in DOMAIN frames[t] /\ f \in FrameOver(G)
          BY <4>1, <4>2
        <5>2. /\ f.this \in G \cup {0} /\ f.slots \in Seq(G \cup {0, Number})
              /\ f = [this |-> f.this, slots |-> f.slots]
          BY <5>1 DEF FrameOver
        <5>3. t \in Thread
          <6>1. frames[t] # <<>>
            BY <5>1
          <6> QED BY <3>1, <6>1 DEF Thread
        <5>4. ThreadRoots(t) \subseteq Roots
          BY <5>3 DEF Roots
        <5>5. Handles(f.slots) \subseteq Roots /\ Handles(<<f.this>>) \subseteq Roots
          BY <5>1, <5>4 DEF ThreadRoots
        <5> HIDE DEF f
        <5>6. f.this \in N \cup {0}
          BY <2>6, <5>2, <5>5, HandlesOf, ReferableOK
        <5>7. f.slots \in Seq(N \cup {0, Number})
          <6>1. ASSUME NEW j \in 1..Len(f.slots) PROVE f.slots[j] \in N \cup {0, Number}
            <7>1. f.slots[j] \in G \cup {0, Number} /\ j \in DOMAIN f.slots
              BY <5>2, <6>1
            <7>2. f.slots[j] \in Handle => f.slots[j] \in Handles(f.slots)
              BY <7>1 DEF Handles
            <7> QED BY <2>6, <5>5, <7>1, <7>2, ReferableOK
          <6> HIDE DEF N
          <6> QED BY <5>2, <6>1, SeqNarrows
        <5>8. f \in FrameOver(N)
          <6> HIDE DEF N
          <6> QED BY <5>2, <5>6, <5>7 DEF FrameOver
        <5> QED BY <5>8 DEF f
      <4> HIDE DEF N, G
      <4> QED BY <4>1, <4>2, SeqNarrows
    <3>3. static \in N \cup {0}
      <4>1. static \in Handle => static \in Roots
        BY HandlesOf DEF Roots
      <4> QED BY <2>6, <3>1, <4>1, ReferableOK
    <3>4. FrameOver(Referable)' = FrameOver(N)
      BY <2>5 DEF FrameOver
    <3>5. frames' \in [Handle -> Seq(FrameOver(N))]
      <4> DEFINE F == FrameOver(N)
      <4> HIDE DEF F, N, G
      <4>1. \A t \in Handle : frames[t] \in Seq(F)
        BY <3>2 DEF F
      <4>2. frames = [t \in Handle |-> frames[t]]
        BY <3>1
      <4>3. frames \in [Handle -> Seq(F)]
        BY <4>1, <4>2
      <4> QED BY <1>1, <4>3 DEF F
    <3>6. \A h \in Handle : frames'[h] # <<>> <=> kind'[h] = "thread"
      BY <1>1, <1>4, <2>2, <3>1 DEF Thread
    <3>7. static' \in Referable' \cup {0}
      BY <1>1, <2>5, <3>3
    <3> QED BY <3>4, <3>5, <3>6, <3>7 DEF FramesRight
  <2>10. RefsRight'
    <3> SUFFICES ASSUME NEW h \in Handle
                 PROVE  /\ kind'[h] \in {"inst", "arr", "bytes"}
                              => refs'[h] \in Seq(Referable' \cup {0})
                        /\ kind'[h] = "str" => refs'[h] \in Seq(Raws' \cup {0})
                        /\ kind'[h] \in {"none", "raw", "thread"} => refs'[h] = <<>>
      BY DEF RefsRight
    <3>1. CASE h \in D
      BY <2>2, <3>1
    <3>2. CASE h \notin D
      <4>1. /\ kind[h] \in {"inst", "arr", "bytes"} => refs[h] \in Seq(Referable \cup {0})
            /\ kind[h] = "str" => refs[h] \in Seq(Raws \cup {0})
            /\ kind[h] \in {"none", "raw", "thread"} => refs[h] = <<>>
        BY <1>1 DEF Sound, RefsRight
      <4>2. kind'[h] = kind[h] /\ refs'[h] = refs[h]
        BY <2>2, <3>2
      <4>3. ASSUME NEW G, G \subseteq Handle, refs[h] \in Seq(G \cup {0}), kind[h] # "none"
            PROVE  refs[h] \in Seq((G \ D) \cup {0})
        <5>1. ASSUME NEW j \in 1..Len(refs[h]) PROVE refs[h][j] \in (G \ D) \cup {0}
          <6>1. refs[h][j] \in G \cup {0} /\ j \in DOMAIN refs[h]
            BY <4>3, <5>1
          <6>2. refs[h][j] \in Handle => refs[h][j] \in Handles(refs[h])
            BY <6>1 DEF Handles
          <6> QED BY <2>7, <3>2, <4>3, <6>1, <6>2
        <5> DEFINE N == (G \ D) \cup {0}
        <5> HIDE DEF N
        <5>2. \A j \in 1..Len(refs[h]) : refs[h][j] \in N
          BY <5>1 DEF N
        <5>3. refs[h] \in Seq(N)
          BY <4>3, <5>2, SeqNarrows
        <5> QED BY <5>3 DEF N
      <4>4. Referable \subseteq Handle /\ Raws \subseteq Handle
        BY DEF Referable, Raws
      <4>5. kind[h] \in {"inst", "arr", "bytes"} => refs[h] \in Seq((Referable \ D) \cup {0})
        BY <4>1, <4>3, <4>4
      <4>6. kind[h] = "str" => refs[h] \in Seq((Raws \ D) \cup {0})
        BY <4>1, <4>3, <4>4
      <4> QED BY <2>5, <4>1, <4>2, <4>5, <4>6
    <3> QED BY <3>1, <3>2
  <2>11. OpRight'
    <3>1. held \in Handle => kind'[held] = kind[held] /\ refs'[held] = refs[held]
      BY <1>5, <2>1, <2>2
    <3>2. held \in Roots => held \in Handle
      BY <1>1, RootsReferable, ReferableOK DEF Sound
    <3>3. OpNeeds'
      BY <1>1, <1>2, <2>4, <3>1, <3>2 DEF OpNeeds, Handles
    <3> QED BY <1>1, <1>2, <2>3, <3>3 DEF OpRight
  <2>12. MarksRight'
    BY <1>1 DEF MarksRight
  <2> QED BY <1>8, <2>8, <2>9, <2>10, <2>11, <2>12 DEF IInv, Sound
<1> QED BY <1>7, <1>8

-----------------------------------------------------------------------------
(* Allocations. *)

OpType == [name : OpNames, thread : Ref, held : Ref, at : Nat, of : Nat]

\* RefsRight for one object.
RefRight(h) ==
  /\ kind[h] \in {"inst", "arr", "bytes"} => refs[h] \in Seq(Referable \cup {0})
  /\ kind[h] = "str" => refs[h] \in Seq(Raws \cup {0})
  /\ kind[h] \in {"none", "raw", "thread"} => refs[h] = <<>>

\* An instruction that begins an allocation.
LEMMA RequestStep ==
  ASSUME IInv, lost = {}, pc = "run", NEW o \in OpType, Request(o), o.thread \in Thread,
         o.name \notin {"none", "chars"},
         frames' \in [Handle -> Seq(FrameOver(Referable))],
         \A h \in Handle : frames'[h] # <<>> <=> frames[h] # <<>>,
         lock' = IF o.name \in {"chars", "thread"} THEN {o.held} ELSE {},
         OpNeeds'
  PROVE  IInv'
<1>1. /\ Sound /\ kind' = kind /\ refs' = refs /\ mark' = mark /\ static' = static
      /\ lost' = lost /\ op' = o /\ pc' = "alloc"
  BY DEF IInv, Request
<1>2. op.name = "none"
  BY <1>1 DEF Sound, OpRight, NoOp, Op
<1>3. Referable' = Referable /\ Raws' = Raws /\ Thread' = Thread
  BY <1>1, <1>2 DEF Referable, Raws, Thread
<1>4. Types'
  BY <1>1 DEF Sound, Types, OpType
<1>5. FramesRight'
  BY <1>1, <1>3 DEF Sound, FramesRight
<1>6. RefsRight'
  BY <1>1, <1>3 DEF Sound, RefsRight
<1>7. OpRight'
  BY <1>1, <1>3 DEF OpRight
<1>8. MarksRight'
  BY <1>1 DEF MarksRight
<1> QED BY <1>1, <1>4, <1>5, <1>6, <1>7, <1>8 DEF IInv, Sound

\* An operation that does not hold anything.
LEMMA PlainRequest ==
  ASSUME IInv, lost = {}, pc = "run", NEW t \in Thread,
         NEW n \in {"inst", "str", "arr", "bytes", "ldc", "multi"}, NEW l \in Nat,
         Request(Op(n, t, 0, 0, l)),
         frames' \in [Handle -> Seq(FrameOver(Referable))],
         \A h \in Handle : frames'[h] # <<>> <=> frames[h] # <<>>,
         lock' = lock
  PROVE  IInv'
<1> DEFINE o == Op(n, t, 0, 0, l)
<1>1. /\ o.name = n /\ o.thread = t /\ o.held = 0
      /\ o = [name |-> n, thread |-> t, held |-> 0, at |-> 0, of |-> l]
  BY DEF Op
<1>2. o \in OpType
  <2>1. t \in Ref /\ 0 \in Ref /\ n \in OpNames /\ 0 \in Nat
    BY GCAssumption DEF OpNames, Ref, Thread, Handle
  <2> HIDE DEF o
  <2> QED BY <1>1, <2>1 DEF OpType
<1>3. op' = o
  BY DEF Request
<1>4. lock' = {}
  BY DEF IInv, Sound, OpRight, NoOp, Op
<1> HIDE DEF o
<1>5. OpNeeds'
  BY <1>1, <1>3 DEF OpNeeds
<1>6. Request(o)
  BY DEF o
<1> QED BY <1>1, <1>2, <1>4, <1>5, <1>6, RequestStep

\* new asks for a handle with nothing in its variables.
LEMMA NewInv == ASSUME IInv, NEW t \in Handle, NEW n, New(t, n) PROVE IInv'
<1>1. /\ Sound /\ lost = {} /\ pc = "run" /\ t \in Thread /\ n \in {"inst", "str"}
      /\ Request(Op(n, t, 0, 0, 0)) /\ lock' = lock /\ frames' = frames
  BY DEF IInv, New, Running
<1>2. frames \in [Handle -> Seq(FrameOver(Referable))]
  BY <1>1, RunningOK
<1> QED BY <1>1, <1>2, PlainRequest

\* newarray and anewarray: neither.
LEMMA NewArrayInv ==
  ASSUME IInv, NEW t \in Handle, NEW n, NEW l \in 0..MaxLength, NewArray(t, n, l)
  PROVE  IInv'
<1>1. /\ Sound /\ lost = {} /\ pc = "run" /\ t \in Thread /\ n \in {"arr", "bytes"}
      /\ Request(Op(n, t, 0, 0, l)) /\ lock' = lock /\ frames' = WithSlots(t, Drop(t, 1))
  BY DEF IInv, NewArray, Running
<1>2. frames[t] # <<>> /\ frames \in [Handle -> Seq(FrameOver(Referable))]
  BY <1>1, RunningOK
<1>3. /\ WithSlots(t, Drop(t, 1)) \in [Handle -> Seq(FrameOver(Referable))]
      /\ \A h \in Handle : WithSlots(t, Drop(t, 1))[h] # <<>> <=> frames[h] # <<>>
  BY <1>2, DropFrames
<1>4. l \in Nat
  BY GCAssumption
<1> QED BY <1>1, <1>3, <1>4, PlainRequest

\* ldc of a String: neither.
LEMMA LoadStringInv == ASSUME IInv, NEW t \in Handle, LoadString(t) PROVE IInv'
<1>1. /\ Sound /\ lost = {} /\ pc = "run" /\ t \in Thread
      /\ Request(Op("ldc", t, 0, 0, 0)) /\ lock' = lock /\ frames' = frames
  BY DEF IInv, LoadString, Running
<1>2. frames \in [Handle -> Seq(FrameOver(Referable))]
  BY <1>1, RunningOK
<1> QED BY <1>1, <1>2, PlainRequest

\* multianewarray: neither, until its outer array is made.
LEMMA MultiNewArrayInv ==
  ASSUME IInv, NEW t \in Handle, NEW l \in 0..MaxLength, MultiNewArray(t, l)
  PROVE  IInv'
<1>1. /\ Sound /\ lost = {} /\ pc = "run" /\ t \in Thread
      /\ Request(Op("multi", t, 0, 0, l)) /\ lock' = lock /\ frames' = frames
  BY DEF IInv, MultiNewArray, Running
<1>2. frames \in [Handle -> Seq(FrameOver(Referable))]
  BY <1>1, RunningOK
<1>3. l \in Nat
  BY GCAssumption
<1> QED BY <1>1, <1>2, <1>3, PlainRequest

\* The String that gets its characters is an operand until it has them.
LEMMA StringInitInv == ASSUME IInv, NEW t \in Handle, StringInit(t) PROVE IInv'
<1> DEFINE g == Peek(t, 1)
           o == Op("init", t, g, 0, 0)
<1>1. /\ Sound /\ lost = {} /\ pc = "run" /\ t \in Thread /\ Depth(t, 2)
      /\ g \in Handle /\ kind[g] = "str"
      /\ Request(o) /\ lock' = lock /\ frames' = frames
  BY DEF IInv, StringInit, Running
<1>2. frames[t] # <<>> /\ frames \in [Handle -> Seq(FrameOver(Referable))]
  BY <1>1, RunningOK
<1>3. g \in Roots
  <2>1. /\ frames[t] \in Seq(FrameOver(Referable))
        /\ Slots(t) \in Seq(Referable \cup {0, Number})
    BY <1>2, TopOK
  <2>2. g \in Handles(Slots(t))
    <3>1. Len(Slots(t)) - 1 \in DOMAIN Slots(t)
      BY <1>1, <2>1 DEF Depth
    <3>2. g = Slots(t)[Len(Slots(t)) - 1]
      BY DEF Peek
    <3> QED BY <1>1, <3>1, <3>2 DEF Handles
  <2>3. Len(frames[t]) \in DOMAIN frames[t] /\ Slots(t) = frames[t][Len(frames[t])].slots
    BY <1>2, <2>1 DEF Slots, Top, Last
  <2>4. g \in ThreadRoots(t)
    BY <2>2, <2>3 DEF ThreadRoots
  <2> QED BY <1>1, <2>4 DEF Roots
<1> HIDE DEF g
<1>4. /\ o.name = "init" /\ o.thread = t /\ o.held = g
      /\ o = [name |-> "init", thread |-> t, held |-> g, at |-> 0, of |-> 0]
  BY DEF Op
<1>5. o \in OpType
  BY <1>1, <1>4 DEF OpType, OpNames, Ref, Handle
<1>6. op' = o /\ kind' = kind /\ static' = static
  BY <1>1 DEF Request
<1>7. lock' = {}
  BY <1>1 DEF Sound, OpRight, NoOp, Op
<1> HIDE DEF o
<1>8. Roots' = Roots
  BY <1>1, <1>6, RootsKept DEF Thread
<1>9. OpNeeds'
  BY <1>1, <1>3, <1>4, <1>6, <1>8 DEF OpNeeds
<1> QED BY <1>1, <1>2, <1>4, <1>5, <1>7, <1>9, RequestStep

\* RT.threadCreate asks for a handle with the object in a variable, locked.
LEMMA ThreadCreateInv == ASSUME IInv, NEW t \in Handle, ThreadCreate(t) PROVE IInv'
<1> DEFINE g == Peek(t, 0)
           o == Op("thread", t, g, 0, 0)
<1>1. /\ Sound /\ lost = {} /\ pc = "run" /\ t \in Thread /\ g \in Handle /\ kind[g] = "inst"
      /\ Request(o) /\ lock' = lock \cup {g} /\ frames' = WithSlots(t, Drop(t, 1))
  BY DEF IInv, ThreadCreate, Running
<1>2. frames[t] # <<>> /\ frames \in [Handle -> Seq(FrameOver(Referable))]
  BY <1>1, RunningOK
<1>3. /\ WithSlots(t, Drop(t, 1)) \in [Handle -> Seq(FrameOver(Referable))]
      /\ \A h \in Handle : WithSlots(t, Drop(t, 1))[h] # <<>> <=> frames[h] # <<>>
  BY <1>2, DropFrames
<1> HIDE DEF g
<1>4. /\ o.name = "thread" /\ o.thread = t /\ o.held = g
      /\ o = [name |-> "thread", thread |-> t, held |-> g, at |-> 0, of |-> 0]
  BY DEF Op
<1>5. o \in OpType
  BY <1>1, <1>4 DEF OpType, OpNames, Ref, Handle
<1>6. op' = o /\ kind' = kind
  BY <1>1 DEF Request
<1>7. lock' = {g}
  BY <1>1 DEF Sound, OpRight, NoOp, Op
<1> HIDE DEF o
<1>8. OpNeeds'
  BY <1>1, <1>4, <1>6 DEF OpNeeds
<1> QED BY <1>1, <1>3, <1>4, <1>5, <1>7, <1>8, RequestStep

-----------------------------------------------------------------------------
(* What an allocation is granted. *)

\* A handle that was not in use is not referred to, and has no references.
LEMMA UnusedOK ==
  ASSUME Sound, NEW h \in Handle, kind[h] = "none"
  PROVE  h \notin Referable /\ h \notin Raws /\ refs[h] = <<>> /\ h \notin Thread
BY DEF Sound, RefsRight, Referable, HasClassPointer, Raws, Thread

\* An allocation that is granted: h is new, and g is what is changed beside it.
LEMMA GrantStep ==
  ASSUME Sound, lost = {}, NEW h \in Handle, kind[h] = "none",
         NEW k \in Kind \ {"none"}, kind' = [kind EXCEPT ![h] = k],
         mark' = mark, static' = static, lost' = lost,
         pc' \in {"run", "alloc", "halted"}, op' \in OpType,
         Referable \subseteq Referable', refs' \in [Handle -> Seq(Ref)],
         NEW g \in Handle, \A x \in Handle : x # h /\ x # g => refs'[x] = refs[x],
         RefRight(g)', RefRight(h)',
         frames' \in [Handle -> Seq(FrameOver(Referable'))],
         \A x \in Handle : frames'[x] # <<>> <=> kind'[x] = "thread",
         OpRight'
  PROVE  IInv'
<1>1. /\ kind' \in [Handle -> Kind] /\ mark \in [Handle -> 0..2]
      /\ \A x \in Handle : kind'[x] = IF x = h THEN k ELSE kind[x]
      /\ static \in Referable \cup {0}
  BY DEF Sound, Types, FramesRight
<1>2. Raws \subseteq Raws'
  BY <1>1, UnusedOK DEF Raws
<1>3. Types'
  BY <1>1 DEF Types, OpType
<1>4. FramesRight'
  <2>1. frames' \in [Handle -> Seq(FrameOver(Referable)')]
    BY DEF FrameOver
  <2> QED BY <1>1, <2>1 DEF FramesRight
<1>5. ASSUME NEW x \in Handle PROVE RefRight(x)'
  <2>1. CASE x # h /\ x # g
    <3>1. kind'[x] = kind[x] /\ refs'[x] = refs[x]
      BY <1>1, <2>1
    <3>2. /\ kind[x] \in {"inst", "arr", "bytes"} => refs[x] \in Seq(Referable \cup {0})
          /\ kind[x] = "str" => refs[x] \in Seq(Raws \cup {0})
          /\ kind[x] \in {"none", "raw", "thread"} => refs[x] = <<>>
      BY DEF Sound, RefsRight
    <3>3. Referable \cup {0} \subseteq Referable' \cup {0} /\ Raws \cup {0} \subseteq Raws' \cup {0}
      BY <1>2
    <3>4. kind[x] \in {"inst", "arr", "bytes"} => refs[x] \in Seq(Referable' \cup {0})
      BY <3>2, <3>3, SeqGrows
    <3>5. kind[x] = "str" => refs[x] \in Seq(Raws' \cup {0})
      BY <3>2, <3>3, SeqGrows
    <3> QED BY <3>1, <3>2, <3>4, <3>5 DEF RefRight
  <2>2. CASE x = h
    BY <2>2
  <2>3. CASE x = g
    BY <2>3
  <2> QED BY <2>1, <2>2, <2>3
<1>6. RefsRight'
  BY <1>5 DEF RefsRight, RefRight
<1>7. MarksRight'
  BY DEF MarksRight
<1> QED BY <1>3, <1>4, <1>6, <1>7 DEF IInv, Sound

\* Fields and elements start out as null.
LEMMA NullsOK ==
  ASSUME NEW n \in Nat, NEW S, 0 \in S
  PROVE  Nulls(n) \in Seq(S) /\ Handles(Nulls(n)) = {}
<1>1. Nulls(n) \in [1..n -> S]
  BY DEF Nulls
<1>2. DOMAIN Nulls(n) = 1..n /\ \A i \in 1..n : Nulls(n)[i] = 0
  BY DEF Nulls
<1> QED BY <1>1, <1>2 DEF Handles, Handle

\* What a grant finds.
LEMMA GrantFinds ==
  ASSUME IInv, lost = {}, pc \in {"alloc", "retry"}
  PROVE  /\ Sound /\ op \in OpType /\ OpNeeds /\ op.thread \in Thread /\ op.thread \in Handle
         /\ frames[op.thread] # <<>>
         /\ frames \in [Handle -> Seq(FrameOver(Referable))]
         /\ \A x \in Handle : frames[x] # <<>> <=> kind[x] = "thread"
         /\ refs \in [Handle -> Seq(Ref)] /\ kind \in [Handle -> Kind]
         /\ lock = IF op.name \in {"chars", "thread"} THEN {op.held} ELSE {}
         /\ op.held \in Roots => op.held \in Handle
<1>1. Sound
  BY DEF IInv
<1>2. /\ op \in OpType /\ refs \in [Handle -> Seq(Ref)] /\ kind \in [Handle -> Kind]
  BY <1>1 DEF Sound, Types, OpType
<1>3. /\ OpNeeds /\ op.thread \in Thread
      /\ lock = IF op.name \in {"chars", "thread"} THEN {op.held} ELSE {}
  BY <1>1 DEF Sound, OpRight
<1>4. /\ frames \in [Handle -> Seq(FrameOver(Referable))]
      /\ \A x \in Handle : frames[x] # <<>> <=> kind[x] = "thread"
  BY <1>1 DEF Sound, FramesRight
<1>5. op.thread \in Handle /\ frames[op.thread] # <<>>
  BY <1>3, <1>4 DEF Thread
<1>6. op.held \in Roots => op.held \in Handle
  BY <1>1, RootsReferable, ReferableOK DEF Sound
<1> QED BY <1>1, <1>2, <1>3, <1>4, <1>5, <1>6

\* Done leaves nothing held.
LEMMA DoneOK ==
  ASSUME Done, lock' = {}
  PROVE  OpRight' /\ op' \in OpType /\ pc' = "run" /\ op'.name = "none"
<1>1. op' = [name |-> "none", thread |-> 0, held |-> 0, at |-> 0, of |-> 0] /\ pc' = "run"
      /\ op' = NoOp
  BY DEF Done, NoOp, Op
<1>2. op' \in OpType /\ op'.name = "none"
  BY <1>1, GCAssumption DEF OpType, OpNames, Ref
<1> QED BY <1>1, <1>2 DEF OpRight, NoOp

\* Frames stay what they are when more can be referred to.
LEMMA FramesGrow ==
  ASSUME NEW G, NEW N, G \subseteq N, frames \in [Handle -> Seq(FrameOver(G))]
  PROVE  frames \in [Handle -> Seq(FrameOver(N))]
<1>1. \A t \in Handle : frames[t] \in Seq(FrameOver(N))
  BY FrameGrows
<1>2. frames = [t \in Handle |-> frames[t]]
  OBVIOUS
<1> DEFINE F == FrameOver(N)
<1> HIDE DEF F
<1> QED BY <1>1, <1>2 DEF F

\* new, newarray, anewarray: the object is pushed.
LEMMA GrantObject ==
  ASSUME IInv, lost = {}, pc \in {"alloc", "retry"}, NEW h \in Handle, kind[h] = "none",
         mark' = mark, static' = static, lost' = lost,
         op.name \in {"inst", "str", "arr", "bytes"}, NEW n \in Nat,
         Create(h, op.name, Nulls(n)), frames' = Push(op.thread, h), Done, lock' = lock
  PROVE  IInv'
<1> DEFINE t == op.thread
           k == op.name
           N == Referable'
<1>1. /\ Sound /\ t \in Handle /\ frames[t] # <<>>
      /\ frames \in [Handle -> Seq(FrameOver(Referable))]
      /\ \A x \in Handle : frames[x] # <<>> <=> kind[x] = "thread"
      /\ refs \in [Handle -> Seq(Ref)] /\ kind \in [Handle -> Kind] /\ lock = {}
  BY GrantFinds
<1>2. kind' = [kind EXCEPT ![h] = k] /\ refs' = [refs EXCEPT ![h] = Nulls(n)]
  BY DEF Create
<1>3. k \in Kind \ {"none"} /\ k # "thread"
  BY DEF Kind
<1>4. OpRight' /\ op' \in OpType /\ pc' = "run" /\ op'.name = "none"
  BY <1>1, DoneOK
<1>5. \A x \in Handle : kind'[x] = IF x = h THEN k ELSE kind[x]
  BY <1>1, <1>2
<1>6. Referable \subseteq N /\ h \in N
  BY <1>4, <1>5, UnusedOK, <1>1 DEF Referable, HasClassPointer
<1>7. Nulls(n) \in Seq(Ref) /\ Nulls(n) \in Seq(Referable' \cup {0})
      /\ Nulls(n) \in Seq(Raws' \cup {0})
  <2>1. 0 \in Ref
    BY GCAssumption DEF Ref
  <2> QED BY <2>1, NullsOK
<1>8. refs' \in [Handle -> Seq(Ref)] /\ refs'[h] = Nulls(n)
      /\ \A x \in Handle : x # h => refs'[x] = refs[x]
  BY <1>1, <1>2, <1>7
<1>9. RefRight(h)'
  BY <1>3, <1>5, <1>7, <1>8 DEF RefRight
<1> HIDE DEF N, t, k
<1>10. frames \in [Handle -> Seq(FrameOver(N))]
  BY <1>1, <1>6, FramesGrow
<1>11. /\ Push(t, h) \in [Handle -> Seq(FrameOver(N))]
       /\ \A x \in Handle : Push(t, h)[x] # <<>> <=> frames[x] # <<>>
  <2>1. h \in N \cup {0, Number} /\ t \in Handle /\ frames[t] # <<>>
    BY <1>1, <1>6
  <2> QED BY <1>10, <2>1, PushFrames
<1>12. /\ frames' \in [Handle -> Seq(FrameOver(N))]
       /\ \A x \in Handle : frames'[x] # <<>> <=> kind'[x] = "thread"
  BY <1>1, <1>3, <1>5, <1>11 DEF t
<1> QED BY <1>1, <1>2, <1>3, <1>4, <1>6, <1>8, <1>9, <1>12, GrantStep DEF N

\* ldc: the String is locked, and nothing refers to it yet.
LEMMA GrantConstString ==
  ASSUME IInv, lost = {}, pc \in {"alloc", "retry"}, NEW h \in Handle, kind[h] = "none",
         mark' = mark, static' = static, lost' = lost,
         op.name = "ldc", Create(h, "str", Nulls(1)), lock' = lock \cup {h},
         More(Op("chars", op.thread, h, 0, 0)), frames' = frames
  PROVE  IInv'
<1> DEFINE t == op.thread
           N == Referable'
<1>1. /\ Sound /\ t \in Handle /\ t \in Thread
      /\ frames \in [Handle -> Seq(FrameOver(Referable))]
      /\ \A x \in Handle : frames[x] # <<>> <=> kind[x] = "thread"
      /\ refs \in [Handle -> Seq(Ref)] /\ kind \in [Handle -> Kind] /\ lock = {}
  BY GrantFinds
<1>2. kind' = [kind EXCEPT ![h] = "str"] /\ refs' = [refs EXCEPT ![h] = Nulls(1)]
  BY DEF Create
<1>3. "str" \in Kind \ {"none"}
  BY DEF Kind
<1>4. /\ op' = [name |-> "chars", thread |-> t, held |-> h, at |-> 0, of |-> 0]
      /\ op'.name = "chars" /\ op'.held = h /\ op'.thread = t /\ pc' = "alloc"
  BY DEF More, Op
<1> HIDE DEF t
<1>5. op' \in OpType
  <2>1. t \in Ref /\ h \in Ref /\ "chars" \in OpNames /\ 0 \in Nat
    BY <1>1 DEF Ref, Handle, OpNames
  <2> QED BY <1>4, <2>1 DEF OpType
<1>6. \A x \in Handle : kind'[x] = IF x = h THEN "str" ELSE kind[x]
  BY <1>1, <1>2
<1>7. N = Referable
  BY <1>1, <1>4, <1>6, UnusedOK DEF Referable, HasClassPointer
<1>8. Nulls(1) \in Seq(Ref) /\ Nulls(1) \in Seq(Raws' \cup {0}) /\ Handles(Nulls(1)) = {}
  <2>1. 0 \in Ref /\ 1 \in Nat
    BY GCAssumption DEF Ref
  <2> QED BY <2>1, NullsOK
<1>9. refs' \in [Handle -> Seq(Ref)] /\ refs'[h] = Nulls(1)
      /\ \A x \in Handle : x # h => refs'[x] = refs[x]
  BY <1>1, <1>2, <1>8
<1>10. RefRight(h)'
  BY <1>6, <1>8, <1>9 DEF RefRight
<1>11. Thread' = Thread
  BY <1>1, <1>6, UnusedOK DEF Thread
<1>12. OpRight'
  BY <1>1, <1>4, <1>6, <1>8, <1>9, <1>11 DEF OpRight, OpNeeds
<1> HIDE DEF N
<1>13. \A x \in Handle : frames'[x] # <<>> <=> kind'[x] = "thread"
  BY <1>1, <1>6
<1>14. frames' \in [Handle -> Seq(FrameOver(N))] /\ Referable \subseteq N
  BY <1>1, <1>7
<1> QED BY <1>1, <1>2, <1>3, <1>4, <1>5, <1>9, <1>10, <1>12, <1>13, <1>14, GrantStep DEF N

\* ... then it has its characters and is pushed.
LEMMA GrantChars ==
  ASSUME NEW g \in Handle, g = op.held,
         IInv, lost = {}, pc \in {"alloc", "retry"}, NEW h \in Handle, kind[h] = "none",
         mark' = mark, static' = static, lost' = lost,
         op.name = "chars", kind' = [kind EXCEPT ![h] = "raw"],
         refs' = [refs EXCEPT ![op.held] = <<h>>], lock' = Release(op.held),
         frames' = Push(op.thread, op.held), Done
  PROVE  IInv'
<1> DEFINE t == op.thread
           N == Referable'
<1>1. /\ Sound /\ t \in Handle /\ frames[t] # <<>>
      /\ frames \in [Handle -> Seq(FrameOver(Referable))]
      /\ \A x \in Handle : frames[x] # <<>> <=> kind[x] = "thread"
      /\ refs \in [Handle -> Seq(Ref)] /\ kind \in [Handle -> Kind] /\ lock = {g}
      /\ kind[g] = "str" /\ g # h
  BY GrantFinds DEF OpNeeds
<1>2. "raw" \in Kind \ {"none"}
  BY DEF Kind
<1>3. OpRight' /\ op' \in OpType /\ pc' = "run" /\ op'.name = "none"
  BY <1>1, DoneOK DEF Release
<1>4. \A x \in Handle : kind'[x] = IF x = h THEN "raw" ELSE kind[x]
  BY <1>1
<1>5. Referable \subseteq N /\ g \in N /\ h \in Raws'
  BY <1>1, <1>3, <1>4, UnusedOK DEF Referable, HasClassPointer, Raws
<1>6. <<h>> \in Seq(Ref) /\ <<h>> \in Seq(Raws' \cup {0})
  BY <1>5 DEF Ref, Handle
<1> HIDE DEF N, t
<1>7. /\ refs' \in [Handle -> Seq(Ref)] /\ refs'[g] = <<h>> /\ refs'[h] = refs[h]
      /\ \A x \in Handle : x # g => refs'[x] = refs[x]
  BY <1>1, <1>6
<1>8. RefRight(g)'
  BY <1>1, <1>4, <1>6, <1>7 DEF RefRight
<1>9. RefRight(h)'
  BY <1>1, <1>4, <1>7, UnusedOK DEF RefRight
<1>10. frames \in [Handle -> Seq(FrameOver(N))]
  BY <1>1, <1>5, FramesGrow
<1>11. /\ Push(t, g) \in [Handle -> Seq(FrameOver(N))]
       /\ \A x \in Handle : Push(t, g)[x] # <<>> <=> frames[x] # <<>>
  <2>1. g \in N \cup {0, Number} /\ t \in Handle /\ frames[t] # <<>>
    BY <1>1, <1>5
  <2> QED BY <1>10, <2>1, PushFrames
<1>12. /\ frames' \in [Handle -> Seq(FrameOver(N))]
       /\ \A x \in Handle : frames'[x] # <<>> <=> kind'[x] = "thread"
  BY <1>1, <1>4, <1>11 DEF t
<1> QED BY <1>1, <1>2, <1>3, <1>5, <1>7, <1>8, <1>9, <1>12, GrantStep DEF N

\* MiniString.<init>: the String among the operands has its characters.
LEMMA GrantInit ==
  ASSUME NEW g \in Handle, g = op.held,
         IInv, lost = {}, pc \in {"alloc", "retry"}, NEW h \in Handle, kind[h] = "none",
         mark' = mark, static' = static, lost' = lost,
         op.name = "init", kind' = [kind EXCEPT ![h] = "raw"],
         refs' = [refs EXCEPT ![op.held] = <<h>>], lock' = lock,
         frames' = WithSlots(op.thread, Drop(op.thread, 2)), Done
  PROVE  IInv'
<1> DEFINE t == op.thread
           N == Referable'
           f == WithSlots(t, Drop(t, 2))
<1>1. /\ Sound /\ t \in Handle /\ frames[t] # <<>>
      /\ frames \in [Handle -> Seq(FrameOver(Referable))]
      /\ \A x \in Handle : frames[x] # <<>> <=> kind[x] = "thread"
      /\ refs \in [Handle -> Seq(Ref)] /\ kind \in [Handle -> Kind] /\ lock = {}
      /\ kind[g] = "str" /\ g # h
  BY GrantFinds DEF OpNeeds
<1>2. "raw" \in Kind \ {"none"}
  BY DEF Kind
<1>3. OpRight' /\ op' \in OpType /\ pc' = "run" /\ op'.name = "none"
  BY <1>1, DoneOK
<1>4. \A x \in Handle : kind'[x] = IF x = h THEN "raw" ELSE kind[x]
  BY <1>1
<1>5. Referable \subseteq N /\ h \in Raws'
  BY <1>1, <1>3, <1>4, UnusedOK DEF Referable, HasClassPointer, Raws
<1>6. <<h>> \in Seq(Ref) /\ <<h>> \in Seq(Raws' \cup {0})
  BY <1>5 DEF Ref, Handle
<1> HIDE DEF N, t
<1>7. /\ refs' \in [Handle -> Seq(Ref)] /\ refs'[g] = <<h>> /\ refs'[h] = refs[h]
      /\ \A x \in Handle : x # g => refs'[x] = refs[x]
  BY <1>1, <1>6
<1>8. RefRight(g)'
  BY <1>1, <1>4, <1>6, <1>7 DEF RefRight
<1>9. RefRight(h)'
  BY <1>1, <1>4, <1>7, UnusedOK DEF RefRight
<1>10. frames \in [Handle -> Seq(FrameOver(N))]
  BY <1>1, <1>5, FramesGrow
<1>11. f \in [Handle -> Seq(FrameOver(N))] /\ \A x \in Handle : f[x] # <<>> <=> frames[x] # <<>>
  BY <1>1, <1>10, DropFrames
<1>12. /\ frames' \in [Handle -> Seq(FrameOver(N))]
       /\ \A x \in Handle : frames'[x] # <<>> <=> kind'[x] = "thread"
  BY <1>1, <1>4, <1>11 DEF t
<1> QED BY <1>1, <1>2, <1>3, <1>5, <1>7, <1>8, <1>9, <1>12, GrantStep DEF N

\* multianewarray: the outer array, which is pushed if it is empty.
LEMMA GrantOuter ==
  ASSUME IInv, lost = {}, pc \in {"alloc", "retry"}, NEW h \in Handle, kind[h] = "none",
         mark' = mark, static' = static, lost' = lost,
         op.name = "multi", Create(h, "arr", Nulls(op.of)), lock' = lock,
         IF op.of = 0
         THEN frames' = WithSlots(op.thread, Append(Drop(op.thread, 2), h)) /\ Done
         ELSE More(Op("sub", op.thread, h, 1, op.of)) /\ frames' = frames
  PROVE  IInv'
<1> DEFINE t == op.thread
           l == op.of
           N == Referable'
           f == WithSlots(t, Append(Drop(t, 2), h))
<1>1. /\ Sound /\ t \in Handle /\ t \in Thread /\ frames[t] # <<>> /\ l \in Nat
      /\ frames \in [Handle -> Seq(FrameOver(Referable))]
      /\ \A x \in Handle : frames[x] # <<>> <=> kind[x] = "thread"
      /\ refs \in [Handle -> Seq(Ref)] /\ kind \in [Handle -> Kind] /\ lock = {}
  BY GrantFinds DEF OpType
<1>2. kind' = [kind EXCEPT ![h] = "arr"] /\ refs' = [refs EXCEPT ![h] = Nulls(l)]
  BY DEF Create
<1>3. "arr" \in Kind \ {"none"}
  BY DEF Kind
<1>4. \A x \in Handle : kind'[x] = IF x = h THEN "arr" ELSE kind[x]
  BY <1>1, <1>2
<1>5. Nulls(l) \in Seq(Ref) /\ Nulls(l) \in Seq(Referable' \cup {0})
  <2>1. 0 \in Ref
    BY GCAssumption DEF Ref
  <2> QED BY <1>1, <2>1, NullsOK
<1>6. refs' \in [Handle -> Seq(Ref)] /\ refs'[h] = Nulls(l)
      /\ \A x \in Handle : x # h => refs'[x] = refs[x]
  BY <1>1, <1>2, <1>5
<1>7. RefRight(h)'
  BY <1>4, <1>5, <1>6 DEF RefRight
<1>8. Thread' = Thread
  BY <1>1, <1>4, UnusedOK DEF Thread
<1>9. CASE l = 0
  <2>1. OpRight' /\ op' \in OpType /\ pc' = "run" /\ op'.name = "none"
    BY <1>1, <1>9, DoneOK
  <2>2. Referable \subseteq N /\ h \in N
    BY <1>1, <1>4, <2>1, UnusedOK DEF Referable, HasClassPointer
  <2>3. frames' = f
    BY <1>9
  <2> HIDE DEF N, t
  <2>4. frames \in [Handle -> Seq(FrameOver(N))]
    BY <1>1, <2>2, FramesGrow
  <2>5. f \in [Handle -> Seq(FrameOver(N))] /\ \A x \in Handle : f[x] # <<>> <=> frames[x] # <<>>
    <3>1. h \in N \cup {0, Number} /\ t \in Handle /\ frames[t] # <<>> /\ 2 \in Nat
      BY <1>1, <2>2
    <3> QED BY <2>4, <3>1, ResultFrames
  <2>6. /\ frames' \in [Handle -> Seq(FrameOver(N))]
        /\ \A x \in Handle : frames'[x] # <<>> <=> kind'[x] = "thread"
    BY <1>1, <1>4, <2>3, <2>5
  <2> QED BY <1>1, <1>2, <1>3, <1>6, <1>7, <2>1, <2>2, <2>6, GrantStep DEF N
<1>10. CASE l # 0
  <2>1. /\ op' = [name |-> "sub", thread |-> t, held |-> h, at |-> 1, of |-> l]
        /\ op'.name = "sub" /\ op'.held = h /\ op'.thread = t /\ pc' = "alloc" /\ frames' = frames
    BY <1>10 DEF More, Op
  <2> HIDE DEF t, l
  <2>2. op' \in OpType
    <3>1. t \in Ref /\ h \in Ref /\ "sub" \in OpNames /\ 1 \in Nat
      BY <1>1 DEF Ref, Handle, OpNames
    <3> QED BY <1>1, <2>1, <3>1 DEF OpType
  <2>3. Referable \subseteq N
    BY <1>1, <1>4, <2>1, UnusedOK DEF Referable
  <2>4. OpRight'
    BY <1>1, <1>4, <1>8, <2>1 DEF OpRight, OpNeeds
  <2> HIDE DEF N
  <2>5. frames' \in [Handle -> Seq(FrameOver(N))]
    BY <1>1, <2>1, <2>3, FramesGrow
  <2>6. \A x \in Handle : frames'[x] # <<>> <=> kind'[x] = "thread"
    BY <1>1, <1>4, <2>1
  <2> QED BY <1>1, <1>2, <1>3, <1>6, <1>7, <2>1, <2>2, <2>3, <2>4, <2>5, <2>6, GrantStep DEF N
<1> QED BY <1>9, <1>10

\* ... an inner array, after the last of which the outer one is pushed.
LEMMA GrantInner ==
  ASSUME NEW g \in Handle, g = op.held,
         IInv, lost = {}, pc \in {"alloc", "retry"}, NEW h \in Handle, kind[h] = "none",
         mark' = mark, static' = static, lost' = lost,
         op.name = "sub", kind' = [kind EXCEPT ![h] = "bytes"],
         refs' = [refs EXCEPT ![g][op.at] = h], lock' = lock,
         IF op.at = op.of
         THEN frames' = WithSlots(op.thread, Append(Drop(op.thread, 2), g)) /\ Done
         ELSE More([op EXCEPT !.at = @ + 1]) /\ frames' = frames
  PROVE  IInv'
<1> DEFINE t == op.thread
           i == op.at
           N == Referable'
           f == WithSlots(t, Append(Drop(t, 2), g))
           r == [refs[g] EXCEPT ![i] = h]
<1>1. /\ Sound /\ t \in Handle /\ t \in Thread /\ frames[t] # <<>> /\ op \in OpType
      /\ frames \in [Handle -> Seq(FrameOver(Referable))]
      /\ \A x \in Handle : frames[x] # <<>> <=> kind[x] = "thread"
      /\ refs \in [Handle -> Seq(Ref)] /\ kind \in [Handle -> Kind] /\ lock = {}
      /\ kind[g] = "arr" /\ g # h
  BY GrantFinds DEF OpNeeds
<1>2. "bytes" \in Kind \ {"none"}
  BY DEF Kind
<1>3. \A x \in Handle : kind'[x] = IF x = h THEN "bytes" ELSE kind[x]
  BY <1>1
<1>4. op'.name # "chars" /\ pc' \in {"run", "alloc"} /\ op' \in OpType /\ OpRight'
  <2>1. CASE op.at = op.of
    BY <1>1, <2>1, DoneOK
  <2>2. CASE op.at # op.of
    <3>1. op' = [op EXCEPT !.at = @ + 1] /\ pc' = "alloc"
      BY <2>2 DEF More
    <3>2. op' \in OpType /\ op'.name = "sub" /\ op'.held = g /\ op'.thread = t
      <4> DEFINE o == op
                 q == [o EXCEPT !.at = o.at + 1]
      <4>1. o \in OpType /\ o.name = "sub" /\ o.held = g /\ o.thread = t
        BY <1>1
      <4> HIDE DEF o, t
      <4>2. q \in OpType /\ q.name = "sub" /\ q.held = g /\ q.thread = t
        BY <4>1 DEF OpType
      <4> QED BY <3>1, <4>2 DEF o
    <3>3. Thread' = Thread
      BY <1>1, <1>3, UnusedOK DEF Thread
    <3>4. OpRight'
      BY <1>1, <1>3, <3>1, <3>2, <3>3 DEF OpRight, OpNeeds
    <3> QED BY <3>1, <3>2, <3>4
  <2> QED BY <2>1, <2>2
<1>5. Referable \subseteq N /\ h \in N /\ g \in N
  BY <1>1, <1>3, <1>4, UnusedOK DEF Referable, HasClassPointer
<1>6. refs[g] \in Seq(Referable \cup {0}) /\ refs[h] = <<>>
  BY <1>1, UnusedOK DEF Sound, RefsRight
<1> HIDE DEF N, t, i
<1>7. r \in Seq(N \cup {0}) /\ r \in Seq(Ref)
  <2>1. refs[g] \in Seq(N \cup {0})
    <3>1. Referable \cup {0} \subseteq N \cup {0}
      BY <1>5
    <3> QED BY <1>6, <3>1, SeqGrows
  <2>2. refs[g] \in Seq(Ref) /\ h \in Ref /\ h \in N \cup {0}
    BY <1>1, <1>5 DEF Ref, Handle
  <2> QED BY <2>1, <2>2, SeqSet
<1> HIDE DEF r
<1>8. refs' = [refs EXCEPT ![g] = r]
  BY DEF r, i
<1>9. /\ refs' \in [Handle -> Seq(Ref)] /\ refs'[g] = r /\ refs'[h] = <<>>
      /\ \A x \in Handle : x # g => refs'[x] = refs[x]
  BY <1>1, <1>6, <1>7, <1>8
<1>10. RefRight(g)'
  BY <1>1, <1>3, <1>7, <1>9 DEF RefRight, N
<1>11. RefRight(h)'
  <2>1. <<>> \in Seq(N \cup {0})
    OBVIOUS
  <2> QED BY <1>3, <1>9, <2>1 DEF RefRight, N
<1>12. frames \in [Handle -> Seq(FrameOver(N))]
  BY <1>1, <1>5, FramesGrow
<1>13. f \in [Handle -> Seq(FrameOver(N))] /\ \A x \in Handle : f[x] # <<>> <=> frames[x] # <<>>
  <2> DEFINE d == Append(Drop(t, 2), g)
  <2>1. t \in Handle /\ frames[t] # <<>>
    BY <1>1 DEF t
  <2>2. Drop(t, 2) \in Seq(N \cup {0, Number})
    BY <1>12, <2>1, DropFrames
  <2>3. d \in Seq(N \cup {0, Number})
    BY <1>5, <2>2
  <2> HIDE DEF d
  <2>4. /\ WithSlots(t, d) \in [Handle -> Seq(FrameOver(N))]
        /\ \A x \in Handle : WithSlots(t, d)[x] # <<>> <=> frames[x] # <<>>
    BY <1>12, <2>1, <2>3, WithSlotsOK
  <2> QED BY <2>4 DEF d
<1>14. frames' = f \/ frames' = frames
  BY DEF t
<1> HIDE DEF f
<1>15. /\ frames' \in [Handle -> Seq(FrameOver(N))]
       /\ \A x \in Handle : frames'[x] # <<>> <=> kind'[x] = "thread"
  BY <1>1, <1>3, <1>12, <1>13, <1>14
<1> QED BY <1>1, <1>2, <1>4, <1>5, <1>9, <1>10, <1>11, <1>15, GrantStep DEF N

\* RT.threadCreate: the thread has a frame whose this is the object.
LEMMA GrantThread ==
  ASSUME NEW g \in Handle, g = op.held,
         IInv, lost = {}, pc \in {"alloc", "retry"}, NEW h \in Handle, kind[h] = "none",
         mark' = mark, static' = static, lost' = lost,
         op.name = "thread", Create(h, "thread", <<>>), lock' = Release(g),
         NEW v \in {0, g}, NEW s \in {<<>>, <<g>>},
         frames' = [frames EXCEPT ![h] = <<Frame(v, s)>>],
         pc' \in {"run", "halted"}, op' = NoOp
  PROVE  IInv'
<1> DEFINE N == Referable'
           b == Frame(v, s)
<1>1. /\ Sound /\ frames \in [Handle -> Seq(FrameOver(Referable))]
      /\ \A x \in Handle : frames[x] # <<>> <=> kind[x] = "thread"
      /\ refs \in [Handle -> Seq(Ref)] /\ kind \in [Handle -> Kind] /\ lock = {g}
      /\ kind[g] = "inst" /\ g # h
  BY GrantFinds DEF OpNeeds
<1>2. kind' = [kind EXCEPT ![h] = "thread"] /\ refs' = [refs EXCEPT ![h] = <<>>]
  BY DEF Create
<1>3. "thread" \in Kind \ {"none"}
  BY DEF Kind
<1>4. \A x \in Handle : kind'[x] = IF x = h THEN "thread" ELSE kind[x]
  BY <1>1, <1>2
<1>5. op'.name = "none" /\ op' \in OpType
  <2>1. op' = [name |-> "none", thread |-> 0, held |-> 0, at |-> 0, of |-> 0]
    BY DEF NoOp, Op
  <2> QED BY <2>1, GCAssumption DEF OpType, OpNames, Ref
<1>6. OpRight'
  BY <1>1, <1>5 DEF OpRight, NoOp, Op, Release
<1>7. Referable \subseteq N /\ g \in N
  BY <1>1, <1>4, <1>5, UnusedOK DEF Referable, HasClassPointer
<1>8. refs' \in [Handle -> Seq(Ref)] /\ refs'[h] = <<>>
      /\ \A x \in Handle : x # h => refs'[x] = refs[x]
  <2>1. <<>> \in Seq(Ref)
    OBVIOUS
  <2> QED BY <1>1, <1>2, <2>1
<1>9. RefRight(h)'
  BY <1>4, <1>8 DEF RefRight
<1> HIDE DEF N
<1>10. b \in FrameOver(N)
  <2> DEFINE S == N \cup {0, Number}
  <2>1. v \in N \cup {0}
    BY <1>7
  <2>2. g \in S
    BY <1>7
  <2> HIDE DEF S
  <2>3. s \in Seq(S)
    <3>1. <<>> \in Seq(S) /\ <<g>> \in Seq(S)
      BY <2>2
    <3> QED BY <3>1
  <2>4. s \in Seq(N \cup {0, Number})
    BY <2>3 DEF S
  <2> QED BY <2>1, <2>4 DEF Frame, FrameOver
<1> HIDE DEF b
<1>11. frames \in [Handle -> Seq(FrameOver(N))]
  BY <1>1, <1>7, FramesGrow
<1>12. /\ frames' \in [Handle -> Seq(FrameOver(N))]
       /\ \A x \in Handle : frames'[x] # <<>> <=> kind'[x] = "thread"
  <2> DEFINE F == FrameOver(N)
             q == <<b>>
  <2>1. q \in Seq(F) /\ q # <<>>
    BY <1>10
  <2>2. frames' = [frames EXCEPT ![h] = q] /\ frames \in [Handle -> Seq(F)]
    BY <1>11 DEF b
  <2> HIDE DEF F, q
  <2>3. /\ frames' \in [Handle -> Seq(F)]
        /\ \A x \in Handle : frames'[x] = IF x = h THEN q ELSE frames[x]
    BY <2>1, <2>2
  <2> QED BY <1>1, <1>4, <2>1, <2>3 DEF F
<1>13. pc' \in {"run", "alloc", "halted"}
  OBVIOUS
<1> QED BY <1>1, <1>2, <1>3, <1>5, <1>6, <1>7, <1>8, <1>9, <1>12, <1>13, GrantStep DEF N

\* An allocation that finds a handle, for each operation it is part of.
LEMMA AllocateInv == ASSUME IInv, Allocate PROVE IInv'
<1>1. PICK h \in Handle : FirstUnused(h) /\ Granted(h)
  BY DEF Allocate
<1>2. /\ pc \in {"alloc", "retry"} /\ lost = {} /\ mark' = mark /\ static' = static
      /\ lost' = lost /\ kind[h] = "none"
  BY <1>1 DEF Allocate, FirstUnused, Unused
<1>3. op \in OpType /\ (op.held \in Roots => op.held \in Handle) /\ OpNeeds
  BY <1>2, GrantFinds
<1>4. CASE op.name \in {"inst", "str", "arr", "bytes"}
  <2> DEFINE n == IF op.name = "inst" THEN MaxLength ELSE IF op.name = "str" THEN 1 ELSE op.of
  <2>1. n \in Nat
    BY <1>3, GCAssumption DEF OpType
  <2>2. Create(h, op.name, Nulls(n)) /\ frames' = Push(op.thread, h) /\ Done /\ lock' = lock
    BY <1>1, <1>4 DEF Granted
  <2> HIDE DEF n
  <2> QED BY <1>2, <1>4, <2>1, <2>2, GrantObject
<1>5. CASE op.name = "ldc"
  BY <1>1, <1>2, <1>5, GrantConstString DEF Granted
<1>6. CASE op.name = "chars"
  <2>1. PICK g \in Handle : g = op.held
    BY <1>3, <1>6 DEF OpNeeds
  <2> QED BY <1>1, <1>2, <1>6, <2>1, GrantChars DEF Granted
<1>7. CASE op.name = "init"
  <2>1. PICK g \in Handle : g = op.held
    BY <1>3, <1>7 DEF OpNeeds
  <2> QED BY <1>1, <1>2, <1>7, <2>1, GrantInit DEF Granted
<1>8. CASE op.name = "multi"
  BY <1>1, <1>2, <1>8, GrantOuter DEF Granted
<1>9. CASE op.name = "sub"
  <2>1. PICK g \in Handle : g = op.held
    BY <1>3, <1>9 DEF OpNeeds
  <2> QED BY <1>1, <1>2, <1>9, <2>1, GrantInner DEF Granted
<1>10. CASE op.name = "thread"
  <2>1. PICK g \in Handle : g = op.held
    BY <1>3, <1>10 DEF OpNeeds
  <2>2. /\ Create(h, "thread", <<>>) /\ lock' = Release(g) /\ op' = NoOp
        /\ pc' \in {"run", "halted"}
        /\ \/ frames' = [frames EXCEPT ![h] = <<Frame(g, <<g>>)>>]
           \/ frames' = [frames EXCEPT ![h] = <<Frame(0, <<>>)>>]
    BY <1>1, <1>10, <2>1 DEF Granted, Done
  <2>3. CASE frames' = [frames EXCEPT ![h] = <<Frame(g, <<g>>)>>]
    BY <1>2, <1>10, <2>1, <2>2, <2>3, GrantThread
  <2>4. CASE frames' = [frames EXCEPT ![h] = <<Frame(0, <<>>)>>]
    BY <1>2, <1>10, <2>1, <2>2, <2>4, GrantThread
  <2> QED BY <2>2, <2>3, <2>4
<1> QED BY <1>3, <1>4, <1>5, <1>6, <1>7, <1>8, <1>9, <1>10 DEF OpNeeds

\* The String that ujThreadPrvNewConstString gives up is not referred to.
LEMMA OutOfMemoryInv == ASSUME IInv, OutOfMemory PROVE IInv'
<1>1. /\ pc = "retry" /\ lost = {} /\ pc' = "halted" /\ op' = NoOp /\ lock' = Release(op.held)
      /\ mark' = mark /\ frames' = frames /\ static' = static /\ lost' = lost
  BY DEF OutOfMemory
<1>2. /\ Sound /\ refs \in [Handle -> Seq(Ref)] /\ kind \in [Handle -> Kind]
      /\ lock = IF op.name \in {"chars", "thread"} THEN {op.held} ELSE {}
      /\ OpNeeds /\ mark \in [Handle -> 0..2]
  BY <1>1, GrantFinds DEF Sound, Types
<1>3. op'.name = "none" /\ op' \in OpType
  <2>1. op' = [name |-> "none", thread |-> 0, held |-> 0, at |-> 0, of |-> 0]
    BY <1>1 DEF NoOp, Op
  <2> QED BY <2>1, GCAssumption DEF OpType, OpNames, Ref
<1>4. lock' = {}
  BY <1>1, <1>2 DEF Release
<1>5. OpRight'
  BY <1>1, <1>3, <1>4 DEF OpRight
<1>6. /\ kind' \in [Handle -> Kind] /\ refs' \in [Handle -> Seq(Ref)]
      /\ \A x \in Handle :
           \/ kind'[x] = kind[x] /\ refs'[x] = refs[x]
           \/ /\ op.name = "chars" /\ x = op.held /\ kind[x] = "str"
              /\ kind'[x] = "none" /\ refs'[x] = <<>>
      /\ op.name = "chars" /\ op.held \in Handle => kind'[op.held] = "none"
  <2>1. CASE op.name = "chars"
    <3>1. op.held \in Handle /\ kind[op.held] = "str"
      BY <1>2, <2>1 DEF OpNeeds
    <3>2. kind' = [kind EXCEPT ![op.held] = "none"] /\ refs' = [refs EXCEPT ![op.held] = <<>>]
      BY <2>1 DEF OutOfMemory, Create
    <3>3. "none" \in Kind /\ <<>> \in Seq(Ref)
      BY DEF Kind
    <3> QED BY <1>2, <2>1, <3>1, <3>2, <3>3
  <2>2. CASE op.name # "chars"
    BY <1>2, <2>2 DEF OutOfMemory
  <2> QED BY <2>1, <2>2
<1>7. Referable' = Referable
  <2>1. ASSUME NEW x \in Handle PROVE x \in Referable' <=> x \in Referable
    BY <1>3, <1>6 DEF Referable, HasClassPointer
  <2> QED BY <2>1 DEF Referable
<1>8. Raws' = Raws
  BY <1>6 DEF Raws
<1>9. Types'
  BY <1>1, <1>2, <1>3, <1>6 DEF Types, OpType
<1>10. FramesRight'
  <2>1. \A x \in Handle : kind'[x] = "thread" <=> kind[x] = "thread"
    BY <1>6
  <2> QED BY <1>1, <1>2, <1>7, <2>1 DEF Sound, FramesRight
<1>11. RefsRight'
  <2>1. \A x \in Handle : RefRight(x)
    BY <1>2 DEF Sound, RefsRight, RefRight
  <2>2. \A x \in Handle : RefRight(x)'
    BY <1>6, <1>7, <1>8, <2>1 DEF RefRight
  <2> QED BY <2>2 DEF RefsRight, RefRight
<1>12. MarksRight'
  BY <1>1 DEF MarksRight
<1> QED BY <1>1, <1>5, <1>9, <1>10, <1>11, <1>12 DEF IInv, Sound

-----------------------------------------------------------------------------
(* The invariant. *)

\* The invariant holds at first, with one thread and no object.
LEMMA InitInv == ASSUME Init PROVE IInv
<1>1. 1 \in Handle /\ 0 \in Ref /\ <<>> \in Seq(Ref)
  BY GCAssumption DEF Handle, Ref
<1>2. op = [name |-> "none", thread |-> 0, held |-> 0, at |-> 0, of |-> 0] /\ op = NoOp
  BY DEF Init, NoOp, Op
<1>3. \A h \in Handle : kind[h] = (IF h = 1 THEN "thread" ELSE "none") /\ refs[h] = <<>>
  BY DEF Init
<1>4. Types
  <2>1. kind \in [Handle -> Kind]
    BY DEF Init, Kind
  <2>2. refs \in [Handle -> Seq(Ref)] /\ mark \in [Handle -> 0..2]
    BY <1>1 DEF Init
  <2>3. op \in [name : OpNames, thread : Ref, held : Ref, at : Nat, of : Nat]
    BY <1>1, <1>2 DEF OpNames
  <2> QED BY <2>1, <2>2, <2>3 DEF Types, Init
<1>5. FramesRight
  <2> DEFINE F == FrameOver(Referable)
             b == Frame(0, <<>>)
             q == <<b>>
  <2>1. b \in F
    BY DEF Frame, FrameOver
  <2> HIDE DEF F, b
  <2>2. q \in Seq(F) /\ q # <<>> /\ <<>> \in Seq(F)
    BY <2>1
  <2>3. frames = [h \in Handle |-> IF h = 1 THEN q ELSE <<>>] /\ static = 0
    BY DEF Init, b
  <2> HIDE DEF q
  <2>4. frames \in [Handle -> Seq(F)]
    BY <2>2, <2>3
  <2>5. \A h \in Handle : frames[h] # <<>> <=> kind[h] = "thread"
    BY <1>3, <2>2, <2>3
  <2> QED BY <2>3, <2>4, <2>5 DEF F, FramesRight
<1>6. RefsRight
  BY <1>3 DEF RefsRight
<1>7. OpRight
  BY <1>2 DEF OpRight, Init
<1>8. MarksRight
  BY DEF MarksRight, Init
<1> QED BY <1>4, <1>5, <1>6, <1>7, <1>8 DEF Init, IInv, Sound

\* Every step keeps the invariant.
LEMMA NextInv == ASSUME IInv, [Next]_vars PROVE IInv'
<1>1. ASSUME NEW t \in Handle, Instruction(t) PROVE IInv'
  BY <1>1, PushValueInv, PopInv, GetStaticInv, PutStaticInv, StoreLocalInv, GetFieldInv,
     PutFieldInv, InvokeInv, ReturnInv, ThreadEndsInv DEF Instruction
<1>2. ASSUME NEW t \in Handle, Allocating(t) PROVE IInv'
  BY <1>2, NewInv, NewArrayInv, LoadStringInv, StringInitInv, ThreadCreateInv, MultiNewArrayInv
  DEF Allocating
<1>3. CASE Collector
  BY <1>3, CollectInv, TraceInv, TraceDoneInv, SweepInv DEF Collector
<1>4. CASE UNCHANGED vars
  <2>1. UNCHANGED <<kind, refs, lock, mark, frames, static, pc, op, lost>>
    BY <1>4 DEF vars
  <2>2. CASE lost # {}
    BY <2>1, <2>2 DEF IInv
  <2>3. CASE lost = {}
    <3>1. Referable' = Referable /\ Raws' = Raws /\ Thread' = Thread
      BY <2>1 DEF Referable, Raws, Thread
    <3>2. Roots' = Roots
      BY <2>1, <3>1, RootsKept
    <3>3. Reach(Roots)' = Reach(Roots)
      BY <2>1, <3>2 DEF Reach, Closed, Handles
    <3>4. \A h \in Handle : Handles(refs'[h]) = Handles(refs[h])
      BY <2>1
    <3>5. Sound
      BY <2>3 DEF IInv
    <3>6. Types' /\ FramesRight' /\ RefsRight'
      BY <2>1, <3>1, <3>5 DEF Sound, Types, FramesRight, RefsRight
    <3>7. OpRight'
      BY <2>1, <3>1, <3>2, <3>5 DEF Sound, OpRight, OpNeeds, Handles
    <3>8. MarksRight'
      BY <2>1, <3>1, <3>2, <3>3, <3>4, <3>5 DEF Sound, MarksRight
    <3> QED BY <2>1, <2>3, <3>6, <3>7, <3>8 DEF IInv, Sound
  <2> QED BY <2>2, <2>3
<1> QED BY <1>1, <1>2, <1>3, <1>4, AllocateInv, OutOfMemoryInv DEF Next

\* The collector keeps what can be reached and the threads, and nothing else, however
\* the references run and in whatever order objects are found.
THEOREM MarkingIsExact == Spec => []MarkExact
<1>1. IInv => MarkExact
  BY MarkedAll DEF IInv, MarkExact
<1> QED BY <1>1, InitInv, NextInv, PTL DEF Spec

\* The class of what the marking follows is always there to be read: it never takes a
\* thread or the characters of a String for an object.
THEOREM NeverParsesThreads == Spec => []NeverParsesRaw
<1>1. IInv => NeverParsesRaw
  BY DEF IInv, Sound, MarksRight, NeverParsesRaw
<1> QED BY <1>1, InitInv, NextInv, PTL DEF Spec

\* Nothing in use is ever freed under a reference to it, as long as the running
\* operation did not lose an object itself.
THEOREM NothingDangles == Spec => []NoDangling
<1>1. ASSUME IInv, lost = {} PROVE NoDangling
  <2>1. Sound
    BY <1>1 DEF IInv
  <2>2. \A g \in Roots : kind[g] \in HasClassPointer
    BY <2>1, RootsReferable, ReferableOK DEF Sound
  <2>3. ASSUME NEW t \in Thread, NEW i \in DOMAIN frames[t],
               NEW h \in Handles(Append(frames[t][i].slots, frames[t][i].this))
        PROVE  kind[h] \in HasClassPointer
    <3> DEFINE f == frames[t][i]
               S == Referable \cup {0, Number}
    <3>1. t \in Handle /\ frames[t] \in Seq(FrameOver(Referable))
      BY <2>1, <2>3 DEF Sound, FramesRight, Thread
    <3>2. f \in FrameOver(Referable)
      BY <2>3, <3>1
    <3>3. f.slots \in Seq(S) /\ f.this \in S
      BY <3>2 DEF FrameOver
    <3> HIDE DEF f, S
    <3>4. Append(f.slots, f.this) \in Seq(S)
      BY <3>3
    <3>5. Handles(Append(f.slots, f.this)) \subseteq Referable
      BY <3>4, HandlesIn DEF S
    <3> QED BY <2>3, <3>5, ReferableOK DEF f
  <2>4. \A h \in Handles(<<static>>) : kind[h] \in HasClassPointer
    BY <2>2 DEF Roots
  <2>5. ASSUME NEW h \in Live, NEW g \in Handles(refs[h])
        PROVE  IF kind[h] = "str" THEN kind[g] = "raw" ELSE kind[g] \in HasClassPointer
    <3>1. h \in Handle /\ kind[h] \in Kind
      BY <2>1 DEF Live, Sound, Types
    <3>2. CASE kind[h] = "str"
      <4>1. refs[h] \in Seq(Raws \cup {0})
        BY <2>1, <3>1, <3>2 DEF Sound, RefsRight
      <4>2. Handles(refs[h]) \subseteq Raws
        BY <4>1, SeqGrows, HandlesIn
      <4> QED BY <2>5, <3>2, <4>2 DEF Raws
    <3>3. CASE kind[h] \in {"inst", "arr", "bytes"}
      <4>1. refs[h] \in Seq(Referable \cup {0})
        BY <2>1, <3>1, <3>3 DEF Sound, RefsRight
      <4>2. Handles(refs[h]) \subseteq Referable
        BY <4>1, SeqGrows, HandlesIn
      <4> QED BY <2>5, <3>3, <4>2, ReferableOK
    <3>4. CASE kind[h] \in {"none", "raw", "thread"}
      <4>1. refs[h] = <<>>
        BY <2>1, <3>1, <3>4 DEF Sound, RefsRight
      <4> QED BY <2>5, <4>1 DEF Handles
    <3> QED BY <3>1, <3>2, <3>3, <3>4 DEF Kind
  <2> QED BY <2>3, <2>4, <2>5 DEF NoDangling
<1>2. IInv => NoDangling
  BY <1>1 DEF NoDangling
<1> QED BY <1>2, InitInv, NextInv, PTL DEF Spec

\* Of everything that allocates, only multianewarray and RT.threadCreate can lose an
\* object to the collection that they start.
THEOREM NativesAlwaysKeep == Spec => []NativesKeepWhatTheyNeed
<1>1. IInv => NativesKeepWhatTheyNeed
  BY DEF IInv, NativesKeepWhatTheyNeed
<1> QED BY <1>1, InitInv, NextInv, PTL DEF Spec

-----------------------------------------------------------------------------
(* Bounds. *)

\* Frames of which none is too large, nor a thread has too many.
FramesFit(F) ==
  \A h \in Handle :
    /\ Len(F[h]) <= MaxFrames
    /\ \A i \in 1..Len(F[h]) : Len(F[h][i].slots) <= MaxSlots

RefsFit == \A h \in Handle : Len(refs[h]) <= MaxLength

\* What is allocated has a place on the stack: one that was free when the instruction
\* began, or that of a parameter.
OpFits ==
  /\ op.at <= MaxLength /\ op.of <= MaxLength
  /\ op.name = "sub" => op.at <= op.of
  /\ op.name \in {"inst", "str", "arr", "bytes", "ldc", "chars"} =>
       Len(Slots(op.thread)) < MaxSlots
  /\ op.name \in {"multi", "sub"} => Len(Slots(op.thread)) >= 1
  /\ op.name = "thread" => MaxSlots >= 1

Fits == RefsFit /\ FramesFit(frames) /\ OpFits /\ steps \in 0..MaxSteps

\* Types, and after a loss too, as the model ends there.
TInv == IInv /\ IF lost = {} THEN Fits ELSE TypeOK

\* used gives the slots of the first frames, for each number of them.
UsedBy(used, s) ==
  \A k \in 0..Len(s) : used[k] = IF k = 0 THEN 0 ELSE used[k - 1] + Len(s[k].slots)

LEMMA UsedExists ==
  ASSUME NEW G, NEW t, frames[t] \in Seq(FrameOver(G))
  PROVE  \E used \in [0..Len(frames[t]) -> Nat] :
           UsedBy(used, frames[t]) /\ Used(t) = used[Len(frames[t])]
<1> DEFINE s == frames[t]
           n == Len(s)
           F(k, f) == IF k = 0 THEN 0 ELSE f[k - 1] + Len(s[k].slots)
           p == [k \in 1..n |-> k - 1]
           H == [k \in 1..n |-> [x \in Nat |-> x + Len(s[k].slots)]]
           U == CHOOSE f : f = [k \in 0..n |-> F(k, f)]
<1>1. n \in Nat
  OBVIOUS
<1>2. ASSUME NEW k \in 1..n PROVE Len(s[k].slots) \in Nat
  <2>1. s[k] \in FrameOver(G)
    OBVIOUS
  <2>2. s[k].slots \in Seq(G \cup {0, Number})
    BY <2>1 DEF FrameOver
  <2> QED BY <2>2
<1>3. p \in [1..n -> 0..n] /\ \A k \in 1..n : p[k] < k
  BY <1>1
<1>4. H \in [1..n -> [Nat -> Nat]]
  BY <1>2
<1>5. \A k \in 1..n : \A x \in Nat : p[k] = k - 1 /\ H[k][x] = x + Len(s[k].slots)
  OBVIOUS
<1> HIDE DEF p, H
<1>6. PICK f : f \in [0..n -> Nat] /\ StepsOf(f, n, 0, p, H)
  <2>1. FromOneBelow(n, Nat, 0, p, H)
    BY <1>1, <1>3, <1>4 DEF FromOneBelow
  <2> HIDE DEF n
  <2> QED BY <2>1, StepFunction
<1>7. f = [k \in 0..n |-> F(k, f)]
  <2>1. \A k \in 0..n : f[k] = F(k, f)
    <3> SUFFICES ASSUME NEW k \in 0..n, k # 0 PROVE f[k] = F(k, f)
      BY <1>6 DEF StepsOf
    <3>1. k \in 1..n /\ k - 1 \in 0..n
      BY <1>1
    <3>2. f[k] = H[k][f[p[k]]]
      BY <1>6 DEF StepsOf
    <3>3. p[k] = k - 1
      BY <1>5, <3>1
    <3>4. f[k - 1] \in Nat
      BY <1>6, <3>1
    <3>5. H[k][f[k - 1]] = f[k - 1] + Len(s[k].slots)
      BY <1>5, <3>1, <3>4
    <3> QED BY <3>2, <3>3, <3>5
  <2>2. f \in [0..n -> Nat]
    BY <1>6
  <2> HIDE DEF F, n
  <2> QED BY <2>1, <2>2
<1> HIDE DEF F
<1>8. U = [k \in 0..n |-> F(k, U)]
  BY <1>7
<1>9. \A k \in 0..n : U[k] = F(k, U)
  BY <1>8
<1>10. UsedBy(U, s)
  BY <1>9 DEF UsedBy, F
<1>11. Used(t) = U[n]
  BY DEF Used, F
<1> HIDE DEF U
<1> DEFINE P == {k \in Nat : k <= n => U[k] \in Nat}
<1>12. 0 \in P
  BY <1>1, <1>10 DEF UsedBy
<1>13. ASSUME NEW k \in Nat, k \in P PROVE k + 1 \in P
  <2>1. SUFFICES ASSUME k + 1 <= n PROVE U[k + 1] \in Nat
    OBVIOUS
  <2>2. U[k] \in Nat /\ U[k + 1] = U[k] + Len(s[k + 1].slots) /\ k + 1 \in 1..n
    BY <1>1, <1>10, <1>13, <2>1 DEF UsedBy
  <2> QED BY <1>2, <2>2
<1>14. Nat \subseteq P
  <2> HIDE DEF P
  <2> QED BY <1>12, <1>13, SetInduction
<1>15. U = [k \in 0..n |-> U[k]] /\ \A k \in 0..n : U[k] \in Nat
  <2>1. \A k \in 0..n : U[k] \in Nat
    BY <1>1, <1>14
  <2>2. U = [k \in 0..n |-> U[k]]
    BY <1>8, <1>9
  <2> QED BY <2>1, <2>2
<1>16. U \in [0..n -> Nat]
  <2> HIDE DEF n
  <2> QED BY <1>15
<1> QED BY <1>10, <1>11, <1>16

\* The running method's slots are among those that are used.
LEMMA PushableOK ==
  ASSUME NEW G, frames \in [Handle -> Seq(FrameOver(G))], NEW t \in Handle, frames[t] # <<>>,
         Pushable(t)
  PROVE  Len(Slots(t)) < MaxSlots
<1> DEFINE n == Len(frames[t])
<1>1. frames[t] \in Seq(FrameOver(G)) /\ n \in Nat /\ Slots(t) \in Seq(G \cup {0, Number})
  BY TopOK
<1>2. PICK used \in [0..n -> Nat] : UsedBy(used, frames[t]) /\ Used(t) = used[n]
  BY <1>1, UsedExists
<1>3. n # 0
  BY <1>1
<1>4. n \in 0..n /\ n - 1 \in 0..n
  BY <1>1, <1>3
<1>5. used[n] = used[n - 1] + Len(frames[t][n].slots)
  BY <1>2, <1>3, <1>4 DEF UsedBy
<1>6. Slots(t) = frames[t][n].slots
  BY DEF Slots, Top, Last
<1>7. used[n - 1] \in Nat
  <2> HIDE DEF n
  <2> QED BY <1>2, <1>4
<1>8. used[n] < MaxSlots
  BY <1>2 DEF Pushable
<1>9. Len(Slots(t)) \in Nat
  <2> DEFINE d == Slots(t)
  <2> HIDE DEF d
  <2>1. d \in Seq(G \cup {0, Number})
    BY <1>1 DEF d
  <2>2. Len(d) \in Nat
    BY <2>1
  <2> QED BY <2>2 DEF d
<1> QED BY <1>5, <1>6, <1>7, <1>8, <1>9, GCAssumption

\* The running method's slots fit.
LEMMA SlotsFit ==
  ASSUME NEW G, frames \in [Handle -> Seq(FrameOver(G))], NEW t \in Handle, frames[t] # <<>>
  PROVE  /\ Len(Slots(t)) \in Nat
         /\ FramesFit(frames) => Len(Slots(t)) <= MaxSlots
<1>1. frames[t] \in Seq(FrameOver(G)) /\ Slots(t) \in Seq(G \cup {0, Number})
  BY TopOK
<1>2. Len(frames[t]) \in 1..Len(frames[t])
  BY <1>1
<1>3. Slots(t) = frames[t][Len(frames[t])].slots
  BY DEF Slots, Top, Last
<1>4. Len(Slots(t)) \in Nat
  <2> DEFINE d == Slots(t)
  <2> HIDE DEF d
  <2>1. d \in Seq(G \cup {0, Number})
    BY <1>1 DEF d
  <2>2. Len(d) \in Nat
    BY <2>1
  <2> QED BY <2>2 DEF d
<1> QED BY <1>2, <1>3, <1>4 DEF FramesFit

\* Other slots for the running method fit if they are not too many.
LEMMA WithSlotsFit ==
  ASSUME NEW G, frames \in [Handle -> Seq(FrameOver(G))], NEW t \in Handle, frames[t] # <<>>,
         NEW S, NEW s \in Seq(S)
  PROVE  /\ Len(WithSlots(t, s)[t]) = Len(frames[t])
         /\ Last(WithSlots(t, s)[t]).slots = s
         /\ FramesFit(frames) /\ Len(s) <= MaxSlots => FramesFit(WithSlots(t, s))
<1> DEFINE f == frames[t]
           F == FrameOver(G)
           n == Len(f)
           b == Frame(Top(t).this, s)
           w == Append(Front(f), b)
<1>1. f \in Seq(F) /\ n \in Nat /\ n # 0
  BY TopOK
<1>2. b.slots = s
  BY DEF Frame
<1>3. WithSlots(t, s) = [frames EXCEPT ![t] = w]
  BY DEF WithSlots
<1>4. Len(Front(f)) = n - 1 /\ \A i \in 1..(n - 1) : Front(f)[i] = f[i]
  <2> HIDE DEF f, F
  <2>1. Front(f) = [i \in 1..(n - 1) |-> f[i]]
    BY <1>1 DEF Front
  <2> QED BY <1>1, <2>1
<1>5. Front(f) \in Seq(F)
  BY <1>1, FrontLast
<1> HIDE DEF f, F, b
<1>6. Len(w) = n /\ w[n] = b /\ \A i \in 1..(n - 1) : w[i] = f[i]
  <2> DEFINE a == Front(f)
             B == F \cup {b}
  <2>1. Len(a) = n - 1 /\ a \in Seq(B)
    BY <1>4, <1>5, SeqGrows
  <2> HIDE DEF a
  <2>2. /\ Len(Append(a, b)) = Len(a) + 1 /\ Append(a, b)[Len(a) + 1] = b
        /\ \A i \in 1..Len(a) : Append(a, b)[i] = a[i]
    BY <2>1
  <2> QED BY <1>1, <1>4, <2>1, <2>2 DEF a
<1> HIDE DEF w
<1>7. /\ WithSlots(t, s)[t] = w
      /\ \A h \in Handle : h # t => WithSlots(t, s)[h] = frames[h]
  BY <1>3
<1>8. ASSUME FramesFit(frames), Len(s) <= MaxSlots PROVE FramesFit(WithSlots(t, s))
  <2> SUFFICES ASSUME NEW h \in Handle
               PROVE  /\ Len(WithSlots(t, s)[h]) <= MaxFrames
                      /\ \A i \in 1..Len(WithSlots(t, s)[h]) :
                           Len(WithSlots(t, s)[h][i].slots) <= MaxSlots
    BY DEF FramesFit
  <2>1. CASE h # t
    BY <1>7, <1>8, <2>1 DEF FramesFit
  <2>2. CASE h = t
    <3>1. n <= MaxFrames /\ \A i \in 1..n : Len(f[i].slots) <= MaxSlots
      BY <1>8 DEF FramesFit, f
    <3>2. \A i \in 1..n : i = n \/ i \in 1..(n - 1)
      BY <1>1
    <3>3. \A i \in 1..n : Len(w[i].slots) <= MaxSlots
      BY <1>2, <1>6, <1>8, <3>1, <3>2
    <3> QED BY <1>6, <1>7, <2>2, <3>1, <3>3
  <2> QED BY <2>1, <2>2
<1>9. Last(w) = b
  BY <1>6 DEF Last
<1> QED BY <1>2, <1>6, <1>7, <1>8, <1>9 DEF f

\* Operands that are dropped.
LEMMA DropLength ==
  ASSUME NEW G, frames \in [Handle -> Seq(FrameOver(G))], NEW t \in Handle, frames[t] # <<>>,
         NEW n \in Nat
  PROVE  /\ Drop(t, n) \in Seq(G \cup {0, Number})
         /\ Len(Drop(t, n)) \in Nat /\ Len(Drop(t, n)) <= Len(Slots(t))
         /\ n # 0 /\ Len(Slots(t)) >= 1 => Len(Drop(t, n)) < Len(Slots(t))
<1>1. Slots(t) \in Seq(G \cup {0, Number}) /\ Drop(t, n) \in Seq(G \cup {0, Number})
  BY TopOK, DropFrames
<1>2. Len(Drop(t, n)) = IF 1 <= Len(Slots(t)) - n THEN Len(Slots(t)) - n ELSE 0
  BY <1>1 DEF Drop
<1>3. Len(Slots(t)) \in Nat
  BY <1>1
<1> QED BY <1>1, <1>2, <1>3

LEMMA DropFit ==
  ASSUME NEW G, frames \in [Handle -> Seq(FrameOver(G))], NEW t \in Handle, frames[t] # <<>>,
         FramesFit(frames), NEW n \in Nat
  PROVE  FramesFit(WithSlots(t, Drop(t, n)))
<1>1. /\ Drop(t, n) \in Seq(G \cup {0, Number}) /\ Len(Drop(t, n)) \in Nat
      /\ Len(Drop(t, n)) <= Len(Slots(t))
  BY DropLength
<1>2. Len(Slots(t)) \in Nat /\ Len(Slots(t)) <= MaxSlots
  BY SlotsFit
<1> QED BY <1>1, <1>2, WithSlotsFit, GCAssumption

\* A result that takes the place of operands.
LEMMA ResultFit ==
  ASSUME NEW G, frames \in [Handle -> Seq(FrameOver(G))], NEW t \in Handle, frames[t] # <<>>,
         FramesFit(frames), NEW n \in Nat \ {0}, Len(Slots(t)) >= 1, NEW v
  PROVE  FramesFit(WithSlots(t, Append(Drop(t, n), v)))
<1> DEFINE S == G \cup {0, Number} \cup {v}
           d == Drop(t, n)
<1>1. d \in Seq(G \cup {0, Number}) /\ Len(d) \in Nat /\ Len(d) < Len(Slots(t))
  BY DropLength
<1>2. Len(Slots(t)) \in Nat /\ Len(Slots(t)) <= MaxSlots
  BY SlotsFit
<1>3. d \in Seq(S)
  BY <1>1, SeqGrows
<1> HIDE DEF d
<1>4. Append(d, v) \in Seq(S) /\ Len(Append(d, v)) = Len(d) + 1
  BY <1>3
<1>5. Len(Append(d, v)) <= MaxSlots
  BY <1>1, <1>2, <1>4, GCAssumption
<1> HIDE DEF S
<1> QED BY <1>4, <1>5, WithSlotsFit DEF d

\* What is pushed where there is room.
LEMMA PushFit ==
  ASSUME NEW G, frames \in [Handle -> Seq(FrameOver(G))], NEW t \in Handle, frames[t] # <<>>,
         FramesFit(frames), Len(Slots(t)) < MaxSlots, NEW v
  PROVE  FramesFit(Push(t, v))
<1> DEFINE S == G \cup {0, Number} \cup {v}
           d == Slots(t)
<1>1. d \in Seq(G \cup {0, Number}) /\ Len(d) \in Nat
  BY TopOK, SlotsFit
<1>2. d \in Seq(S)
  BY <1>1, SeqGrows
<1> HIDE DEF d
<1>3. Append(d, v) \in Seq(S) /\ Len(Append(d, v)) = Len(d) + 1
  BY <1>2
<1>4. Len(Append(d, v)) <= MaxSlots
  BY <1>1, <1>3, GCAssumption DEF d
<1> HIDE DEF S
<1>5. FramesFit(WithSlots(t, Append(d, v)))
  BY <1>3, <1>4, WithSlotsFit
<1> QED BY <1>5 DEF d, Push

\* A thread with other frames.
LEMMA ExceptFit ==
  ASSUME NEW S, NEW F \in [Handle -> S], FramesFit(F), NEW t \in Handle, NEW f,
         Len(f) <= MaxFrames, \A i \in 1..Len(f) : Len(f[i].slots) <= MaxSlots
  PROVE  FramesFit([F EXCEPT ![t] = f])
<1> DEFINE N == [F EXCEPT ![t] = f]
<1>1. \A h \in Handle : N[h] = IF h = t THEN f ELSE F[h]
  OBVIOUS
<1> HIDE DEF N
<1>2. FramesFit(N)
  BY <1>1 DEF FramesFit
<1> QED BY <1>2 DEF N

\* An instruction that allocates nothing.
LEMMA RunFits ==
  ASSUME Sound, Fits, pc = "run", steps < MaxSteps, Step, op' = op,
         RefsFit', FramesFit(frames')
  PROVE  Fits'
<1>1. op = NoOp
  BY DEF Sound, OpRight
<1>2. /\ NoOp.at = 0 /\ NoOp.of = 0 /\ NoOp.name = "none"
  BY DEF NoOp, Op
<1>3. OpFits'
  BY <1>1, <1>2, GCAssumption DEF OpFits
<1>4. steps' \in 0..MaxSteps
  BY GCAssumption DEF Fits, Step
<1> QED BY <1>3, <1>4 DEF Fits

\* No instruction makes a thread's frames too many or too large.
LEMMA InstructionFits == ASSUME Sound, Fits, NEW t \in Handle, Instruction(t) PROVE Fits'
<1> DEFINE G == Referable
           typed == frames \in [Handle -> Seq(FrameOver(G))] /\ frames[t] # <<>>
<1>1. /\ pc = "run" /\ t \in Thread /\ steps < MaxSteps /\ Step /\ op' = op
  BY DEF Instruction, PushValue, Pop, GetStatic, PutStatic, StoreLocal, GetField, PutField,
         Invoke, Return, ThreadEnds, OnlyFrames, Running
<1>2. typed /\ FramesFit(frames) /\ RefsFit
  BY <1>1, RunningOK DEF Fits
<1>3. Len(Slots(t)) \in Nat /\ Len(Slots(t)) <= MaxSlots
  BY <1>2, SlotsFit
<1>4. SUFFICES RefsFit' /\ FramesFit(frames')
  BY <1>1, RunFits
<1>5. ASSUME NEW v, PushValue(t, v) PROVE RefsFit' /\ FramesFit(frames')
  <2>1. frames' = Push(t, v) /\ Pushable(t) /\ refs' = refs
    BY <1>5 DEF PushValue, OnlyFrames, objects
  <2> QED BY <1>2, <2>1, PushableOK, PushFit DEF RefsFit
<1>6. ASSUME Pop(t) PROVE RefsFit' /\ FramesFit(frames')
  <2>1. frames' = WithSlots(t, Drop(t, 1)) /\ refs' = refs
    BY <1>6 DEF Pop, OnlyFrames, objects
  <2> QED BY <1>2, <2>1, DropFit DEF RefsFit
<1>7. ASSUME GetStatic(t) PROVE RefsFit' /\ FramesFit(frames')
  <2>1. frames' = Push(t, static) /\ Pushable(t) /\ refs' = refs
    BY <1>7 DEF GetStatic, OnlyFrames, objects
  <2> QED BY <1>2, <2>1, PushableOK, PushFit DEF RefsFit
<1>8. ASSUME PutStatic(t) PROVE RefsFit' /\ FramesFit(frames')
  <2>1. frames' = WithSlots(t, Drop(t, 1)) /\ refs' = refs
    BY <1>8 DEF PutStatic, objects
  <2> QED BY <1>2, <2>1, DropFit DEF RefsFit
<1>9. ASSUME NEW i, StoreLocal(t, i) PROVE RefsFit' /\ FramesFit(frames')
  <2> DEFINE d == Drop(t, 1)
             v == Peek(t, 0)
             S == G \cup {0, Number} \cup {v}
  <2>1. frames' = WithSlots(t, [d EXCEPT ![i] = v]) /\ refs' = refs
    BY <1>9 DEF StoreLocal, OnlyFrames, objects
  <2>2. d \in Seq(G \cup {0, Number}) /\ Len(d) \in Nat /\ Len(d) <= Len(Slots(t))
    BY <1>2, DropLength
  <2>3. d \in Seq(S)
    BY <2>2, SeqGrows
  <2> HIDE DEF d, v
  <2>4. [d EXCEPT ![i] = v] \in Seq(S) /\ Len([d EXCEPT ![i] = v]) = Len(d)
    BY <2>3, SeqSet
  <2>5. Len([d EXCEPT ![i] = v]) <= MaxSlots
    BY <1>3, <2>2, <2>4, GCAssumption
  <2> HIDE DEF S
  <2> QED BY <1>2, <2>1, <2>4, <2>5, WithSlotsFit DEF RefsFit
<1>10. ASSUME NEW i, GetField(t, i) PROVE RefsFit' /\ FramesFit(frames')
  <2>1. /\ frames' = WithSlots(t, Append(Drop(t, 1), refs[Peek(t, 0)][i])) /\ refs' = refs
        /\ Len(Slots(t)) >= 1
    BY <1>10 DEF GetField, OnlyFrames, objects, Depth
  <2> QED BY <1>2, <2>1, ResultFit DEF RefsFit
<1>11. ASSUME NEW i, PutField(t, i) PROVE RefsFit' /\ FramesFit(frames')
  <2> DEFINE g == Peek(t, 1)
             v == Peek(t, 0)
  <2>1. /\ frames' = WithSlots(t, Drop(t, 2)) /\ refs' = [refs EXCEPT ![g][i] = v] /\ g \in Handle
    BY <1>11 DEF PutField
  <2> HIDE DEF g, v
  <2>2. refs \in [Handle -> Seq(Ref)]
    BY DEF Sound, Types
  <2>3. \A h \in Handle : h # g => refs'[h] = refs[h]
    BY <2>1, <2>2
  <2>4. Len(refs'[g]) = Len(refs[g])
    <3> DEFINE r == refs[g]
    <3>1. refs'[g] = [r EXCEPT ![i] = v]
      BY <2>1, <2>2
    <3>2. r \in Seq(Ref \cup {v})
      BY <2>1, <2>2, SeqGrows
    <3> HIDE DEF r
    <3>3. [r EXCEPT ![i] = v] \in Seq(Ref \cup {v}) /\ Len([r EXCEPT ![i] = v]) = Len(r)
      BY <3>2, SeqSet
    <3> QED BY <3>1, <3>3 DEF r
  <2>5. RefsFit'
    BY <1>2, <2>3, <2>4 DEF RefsFit
  <2> QED BY <1>2, <2>1, <2>5, DropFit
<1>12. ASSUME Invoke(t) PROVE RefsFit' /\ FramesFit(frames')
  <2> DEFINE w == WithSlots(t, Drop(t, 1))
             b == Frame(Peek(t, 0), <<Peek(t, 0)>>)
             F == FrameOver(G)
             f == w[t]
  <2>1. /\ frames' = [w EXCEPT ![t] = Append(w[t], b)] /\ refs' = refs
        /\ Len(Slots(t)) >= 1 /\ Len(frames[t]) < MaxFrames
    BY <1>12 DEF Invoke, OnlyFrames, objects, Depth
  <2>2. w \in [Handle -> Seq(F)] /\ FramesFit(w)
    BY <1>2, DropFrames, DropFit
  <2>3. Len(f) = Len(frames[t])
    BY <1>2, DropLength, WithSlotsFit
  <2>4. Len(b.slots) = 1
    BY DEF Frame
  <2>5. f \in Seq(F \cup {b})
    BY <2>2, SeqGrows
  <2>6. Len(f) <= MaxFrames /\ \A i \in 1..Len(f) : Len(f[i].slots) <= MaxSlots
    BY <2>2 DEF FramesFit
  <2> HIDE DEF w, b, F, f
  <2>7. /\ Len(Append(f, b)) = Len(f) + 1 /\ Append(f, b)[Len(f) + 1] = b /\ Len(f) \in Nat
        /\ \A i \in 1..Len(f) : Append(f, b)[i] = f[i]
    BY <2>5
  <2>8. \A i \in 1..Len(Append(f, b)) : i = Len(f) + 1 \/ i \in 1..Len(f)
    BY <2>7
  <2>9. MaxSlots >= 1 /\ Len(f) + 1 <= MaxFrames
    BY <1>3, <2>1, <2>3, <2>7, GCAssumption
  <2>10. \A i \in 1..Len(Append(f, b)) : Len(Append(f, b)[i].slots) <= MaxSlots
    BY <2>4, <2>6, <2>7, <2>8, <2>9
  <2>11. Len(Append(f, b)) <= MaxFrames
    BY <2>7, <2>9
  <2>12. FramesFit([w EXCEPT ![t] = Append(f, b)])
    BY <2>2, <2>10, <2>11, ExceptFit
  <2> QED BY <1>2, <2>1, <2>12 DEF f, RefsFit
<1>13. ASSUME Return(t) PROVE RefsFit' /\ FramesFit(frames')
  <2> DEFINE f == frames[t]
             F == FrameOver(G)
  <2>1. frames' = [frames EXCEPT ![t] = Front(frames[t])] /\ refs' = refs
    BY <1>13 DEF Return, OnlyFrames, objects
  <2>2. f \in Seq(F) /\ f # <<>> /\ frames \in [Handle -> Seq(F)]
    BY <1>2
  <2>3. Len(f) <= MaxFrames /\ \A i \in 1..Len(f) : Len(f[i].slots) <= MaxSlots
    BY <1>2 DEF FramesFit
  <2> HIDE DEF f, F
  <2>4. Len(f) \in Nat \ {0}
    BY <2>2
  <2>5. Front(f) = [i \in 1..(Len(f) - 1) |-> f[i]]
    BY <2>2 DEF Front
  <2>6. Len(Front(f)) = Len(f) - 1 /\ \A i \in 1..(Len(f) - 1) : Front(f)[i] = f[i]
    BY <2>4, <2>5
  <2>7. \A i \in 1..(Len(f) - 1) : i \in 1..Len(f)
    BY <2>4
  <2>8. \A i \in 1..Len(Front(f)) : Len(Front(f)[i].slots) <= MaxSlots
    BY <2>3, <2>6, <2>7
  <2>9. Len(Front(f)) <= MaxFrames
    BY <2>3, <2>4, <2>6, GCAssumption
  <2>10. FramesFit([frames EXCEPT ![t] = Front(f)])
    BY <1>2, <2>2, <2>8, <2>9, ExceptFit
  <2> QED BY <1>2, <2>1, <2>10 DEF f, RefsFit
<1>14. ASSUME ThreadEnds(t) PROVE RefsFit' /\ FramesFit(frames')
  <2>1. frames' = [frames EXCEPT ![t] = <<>>] /\ refs' = refs
    BY <1>14 DEF ThreadEnds
  <2>2. Len(<<>>) = 0 /\ 1..0 = {} /\ 0 <= MaxFrames
    BY GCAssumption
  <2>3. \A i \in 1..Len(<<>>) : Len(<<>>[i].slots) <= MaxSlots
    BY <2>2
  <2> QED BY <1>2, <2>1, <2>2, <2>3, ExceptFit DEF RefsFit
<1> QED BY <1>5, <1>6, <1>7, <1>8, <1>9, <1>10, <1>11, <1>12, <1>13, <1>14 DEF Instruction

\* An instruction that begins an allocation.
LEMMA RequestFits ==
  ASSUME Fits, steps < MaxSteps, NEW o, Request(o), FramesFit(frames'),
         o.at = 0, o.of \in 0..MaxLength, o.name # "sub",
         o.name \in {"inst", "str", "arr", "bytes", "ldc", "chars"} =>
           Len(Last(frames'[o.thread]).slots) < MaxSlots,
         o.name = "multi" => Len(Last(frames'[o.thread]).slots) >= 1,
         o.name = "thread" => MaxSlots >= 1
  PROVE  Fits'
<1>1. op' = o /\ refs' = refs /\ steps' = steps + 1
  BY DEF Request, Step
<1>2. Slots(o.thread)' = Last(frames'[o.thread]).slots
  BY DEF Slots, Top
<1>3. OpFits'
  BY <1>1, <1>2, GCAssumption DEF OpFits, Slots, Top
<1>4. steps' \in 0..MaxSteps
  BY <1>1, GCAssumption DEF Fits
<1> QED BY <1>1, <1>3, <1>4 DEF Fits, RefsFit

\* Every instruction that allocates has a place for what it is given.
LEMMA AllocatingFits == ASSUME Sound, Fits, NEW t \in Handle, Allocating(t) PROVE Fits'
<1> DEFINE G == Referable
           typed == frames \in [Handle -> Seq(FrameOver(G))] /\ frames[t] # <<>>
<1>1. t \in Thread /\ steps < MaxSteps
  BY DEF Allocating, New, NewArray, LoadString, StringInit, ThreadCreate, MultiNewArray, Running
<1>2. typed /\ FramesFit(frames)
  BY <1>1, RunningOK DEF Fits
<1>3. /\ Len(Slots(t)) \in Nat /\ Len(Slots(t)) <= MaxSlots
      /\ Slots(t) = Last(frames[t]).slots
  BY <1>2, SlotsFit DEF Slots, Top
<1>4. 0 \in 0..MaxLength
  BY GCAssumption
<1>5. ASSUME NEW n, NEW h, NEW l
      PROVE  /\ Op(n, t, h, 0, l).name = n /\ Op(n, t, h, 0, l).thread = t
             /\ Op(n, t, h, 0, l).at = 0 /\ Op(n, t, h, 0, l).of = l
  BY DEF Op
<1>6. ASSUME NEW n, New(t, n) PROVE Fits'
  <2>1. /\ Pushable(t) /\ Request(Op(n, t, 0, 0, 0)) /\ frames' = frames /\ n \in {"inst", "str"}
    BY <1>6 DEF New
  <2>2. Len(Slots(t)) < MaxSlots
    BY <1>2, <2>1, PushableOK
  <2> DEFINE o == Op(n, t, 0, 0, 0)
  <2>3. o.name = n /\ o.thread = t /\ o.at = 0 /\ o.of = 0
    BY <1>5
  <2>4. Request(o)
    BY <2>1
  <2> HIDE DEF o
  <2> QED BY <1>1, <1>2, <1>3, <1>4, <2>1, <2>2, <2>3, <2>4, RequestFits
<1>7. ASSUME NEW n, NEW l \in 0..MaxLength, NewArray(t, n, l) PROVE Fits'
  <2> DEFINE o == Op(n, t, 0, 0, l)
             d == Drop(t, 1)
  <2>1. /\ Request(o) /\ frames' = WithSlots(t, d) /\ n \in {"arr", "bytes"}
        /\ Len(Slots(t)) >= 1
    BY <1>7 DEF NewArray, Depth
  <2>2. d \in Seq(G \cup {0, Number}) /\ Len(d) \in Nat /\ Len(d) < Len(Slots(t))
    BY <1>2, <2>1, DropLength
  <2>3. Last(frames'[t]).slots = d /\ FramesFit(frames')
    BY <1>2, <2>1, <2>2, WithSlotsFit, DropFit
  <2>4. o.name = n /\ o.thread = t /\ o.at = 0 /\ o.of = l
    BY <1>5
  <2> HIDE DEF o, d
  <2>5. Len(d) < MaxSlots
    BY <1>3, <2>2, GCAssumption
  <2> QED BY <1>1, <2>1, <2>3, <2>4, <2>5, RequestFits
<1>8. ASSUME LoadString(t) PROVE Fits'
  <2> DEFINE o == Op("ldc", t, 0, 0, 0)
  <2>1. Pushable(t) /\ Request(o) /\ frames' = frames
    BY <1>8 DEF LoadString
  <2>2. Len(Slots(t)) < MaxSlots
    BY <1>2, <2>1, PushableOK
  <2>3. o.name = "ldc" /\ o.thread = t /\ o.at = 0 /\ o.of = 0
    BY <1>5
  <2> HIDE DEF o
  <2> QED BY <1>1, <1>2, <1>3, <1>4, <2>1, <2>2, <2>3, RequestFits
<1>9. ASSUME StringInit(t) PROVE Fits'
  <2> DEFINE o == Op("init", t, Peek(t, 1), 0, 0)
  <2>1. Request(o) /\ frames' = frames
    BY <1>9 DEF StringInit
  <2>2. o.name = "init" /\ o.at = 0 /\ o.of = 0
    BY <1>5
  <2> HIDE DEF o
  <2> QED BY <1>1, <1>2, <1>4, <2>1, <2>2, RequestFits
<1>10. ASSUME ThreadCreate(t) PROVE Fits'
  <2> DEFINE o == Op("thread", t, Peek(t, 0), 0, 0)
  <2>1. Request(o) /\ frames' = WithSlots(t, Drop(t, 1)) /\ Len(Slots(t)) >= 1
    BY <1>10 DEF ThreadCreate, Depth
  <2>2. o.name = "thread" /\ o.at = 0 /\ o.of = 0
    BY <1>5
  <2> HIDE DEF o
  <2>3. FramesFit(frames') /\ MaxSlots >= 1
    BY <1>2, <1>3, <2>1, DropFit, GCAssumption
  <2> QED BY <1>1, <1>4, <2>1, <2>2, <2>3, RequestFits
<1>11. ASSUME NEW l \in 0..MaxLength, MultiNewArray(t, l) PROVE Fits'
  <2> DEFINE o == Op("multi", t, 0, 0, l)
  <2>1. Request(o) /\ frames' = frames /\ Len(Slots(t)) >= 1
    BY <1>3, <1>11 DEF MultiNewArray, Depth
  <2>2. o.name = "multi" /\ o.thread = t /\ o.at = 0 /\ o.of = l
    BY <1>5
  <2> HIDE DEF o
  <2> QED BY <1>1, <1>2, <1>3, <2>1, <2>2, RequestFits
<1> QED BY <1>6, <1>7, <1>8, <1>9, <1>10, <1>11 DEF Allocating

\* The collector changes no frame, and makes no object longer.
LEMMA CollectorFits == ASSUME Sound, Fits, Collector PROVE Fits'
<1>1. frames' = frames /\ op' = op /\ steps' = steps
  BY DEF Collector, Collect, Trace, TraceDone, Sweep
<1>2. OpFits'
  BY <1>1 DEF Fits, OpFits, Slots, Top
<1>3. RefsFit'
  <2>1. CASE refs' = refs
    BY <2>1 DEF Fits, RefsFit
  <2>2. ASSUME Sweep PROVE RefsFit'
    <3>1. \A h \in Handle : refs'[h] = refs[h] \/ refs'[h] = <<>>
      BY <2>2 DEF Sweep
    <3>2. Len(<<>>) = 0 /\ 0 <= MaxLength
      BY GCAssumption
    <3> QED BY <3>1, <3>2 DEF Fits, RefsFit
  <2> QED BY <2>1, <2>2 DEF Collector, Collect, Trace, TraceDone
<1> QED BY <1>1, <1>2, <1>3 DEF Fits

\* When nothing is allocated nothing is asked of the stack.
LEMMA DoneFits ==
  ASSUME Fits, op' = NoOp, steps' = steps, RefsFit', FramesFit(frames')
  PROVE  Fits'
<1>1. NoOp.at = 0 /\ NoOp.of = 0 /\ NoOp.name = "none"
  BY DEF NoOp, Op
<1>2. OpFits'
  BY <1>1, GCAssumption DEF OpFits
<1> QED BY <1>2 DEF Fits

\* An object with other references.
LEMMA RefsExcept ==
  ASSUME refs \in [Handle -> Seq(Ref)], RefsFit, NEW h \in Handle, NEW r, Len(r) <= MaxLength,
         refs' = [refs EXCEPT ![h] = r]
  PROVE  RefsFit'
<1>1. \A x \in Handle : refs'[x] = IF x = h THEN r ELSE refs[x]
  OBVIOUS
<1> QED BY <1>1 DEF RefsFit

LEMMA NullsLength == ASSUME NEW n \in Nat PROVE Len(Nulls(n)) = n
<1>1. Nulls(n) \in Seq({0}) /\ DOMAIN Nulls(n) = 1..n
  BY DEF Nulls
<1>2. Len(Nulls(n)) \in Nat /\ DOMAIN Nulls(n) = 1..Len(Nulls(n))
  BY <1>1
<1> QED BY <1>1, <1>2

\* What is allocated is no longer than arrays may be, and finds its place.
LEMMA GrantedFits ==
  ASSUME IInv, Fits, lost = {}, pc \in {"alloc", "retry"}, NEW h \in Handle, Granted(h),
         steps' = steps
  PROVE  Fits'
<1> DEFINE G == Referable
           t == op.thread
           g == op.held
           typed == frames \in [Handle -> Seq(FrameOver(G))] /\ frames[t] # <<>> /\ t \in Handle
<1>1. /\ typed /\ OpNeeds /\ refs \in [Handle -> Seq(Ref)] /\ op \in OpType
      /\ FramesFit(frames) /\ RefsFit /\ OpFits
  BY GrantFinds DEF Fits
<1>2. Len(Slots(t)) \in Nat
  BY <1>1, SlotsFit
<1>3. op.at \in Nat /\ op.of \in Nat /\ 1 <= MaxLength /\ MaxLength \in Nat
  BY <1>1, GCAssumption DEF OpType
<1>4. Len(<<h>>) = 1
  OBVIOUS
<1>5. CASE op.name \in {"inst", "str", "arr", "bytes"}
  <2> DEFINE n == IF op.name = "inst" THEN MaxLength ELSE IF op.name = "str" THEN 1 ELSE op.of
  <2>1. refs' = [refs EXCEPT ![h] = Nulls(n)] /\ frames' = Push(t, h) /\ op' = NoOp
    BY <1>5 DEF Granted, Create, Done
  <2>2. n \in Nat /\ n <= MaxLength
    BY <1>1, <1>3 DEF OpFits
  <2> HIDE DEF n
  <2>3. Len(Nulls(n)) <= MaxLength
    BY <2>2, NullsLength
  <2>4. RefsFit'
    BY <1>1, <2>1, <2>3, RefsExcept
  <2>5. FramesFit(frames')
    BY <1>1, <1>5, <2>1, PushFit DEF OpFits
  <2> QED BY <2>1, <2>4, <2>5, DoneFits
<1>6. CASE op.name = "ldc"
  <2>1. /\ refs' = [refs EXCEPT ![h] = Nulls(1)] /\ frames' = frames
        /\ op' = Op("chars", t, h, 0, 0)
    BY <1>6 DEF Granted, Create, More
  <2>2. Len(Nulls(1)) <= MaxLength
    BY <1>3, NullsLength
  <2>3. RefsFit'
    BY <1>1, <2>1, <2>2, RefsExcept
  <2>4. op'.name = "chars" /\ op'.thread = t /\ op'.at = 0 /\ op'.of = 0
    BY <2>1 DEF Op
  <2>5. Len(Slots(t)) < MaxSlots
    BY <1>1, <1>6 DEF OpFits
  <2>6. OpFits'
    BY <1>3, <2>1, <2>4, <2>5 DEF OpFits, Slots, Top
  <2> QED BY <1>1, <2>1, <2>3, <2>6 DEF Fits
<1>7. CASE op.name = "chars"
  <2>1. refs' = [refs EXCEPT ![g] = <<h>>] /\ frames' = Push(t, g) /\ op' = NoOp
    BY <1>7 DEF Granted, Done
  <2>2. g \in Handle
    BY <1>1, <1>7 DEF OpNeeds
  <2>3. RefsFit'
    BY <1>1, <1>3, <1>4, <2>1, <2>2, RefsExcept
  <2>4. FramesFit(frames')
    BY <1>1, <1>7, <2>1, PushFit DEF OpFits
  <2> QED BY <2>1, <2>3, <2>4, DoneFits
<1>8. CASE op.name = "init"
  <2>1. /\ refs' = [refs EXCEPT ![g] = <<h>>] /\ frames' = WithSlots(t, Drop(t, 2)) /\ op' = NoOp
    BY <1>8 DEF Granted, Done
  <2>2. g \in Handle
    BY <1>1, <1>8, GrantFinds DEF OpNeeds
  <2>3. RefsFit'
    BY <1>1, <1>3, <1>4, <2>1, <2>2, RefsExcept
  <2>4. FramesFit(frames')
    BY <1>1, <2>1, DropFit
  <2> QED BY <2>1, <2>3, <2>4, DoneFits
<1>9. CASE op.name = "multi"
  <2>1. /\ refs' = [refs EXCEPT ![h] = Nulls(op.of)]
        /\ \/ frames' = WithSlots(t, Append(Drop(t, 2), h)) /\ op' = NoOp
           \/ op.of # 0 /\ op' = Op("sub", t, h, 1, op.of) /\ frames' = frames
    BY <1>9 DEF Granted, Create, Done, More
  <2>2. Len(Nulls(op.of)) <= MaxLength /\ Len(Slots(t)) >= 1
    BY <1>1, <1>3, <1>9, NullsLength DEF OpFits
  <2>3. RefsFit'
    BY <1>1, <2>1, <2>2, RefsExcept
  <2>4. CASE frames' = WithSlots(t, Append(Drop(t, 2), h)) /\ op' = NoOp
    <3>1. FramesFit(frames')
      BY <1>1, <2>2, <2>4, ResultFit
    <3> QED BY <2>3, <2>4, <3>1, DoneFits
  <2>5. CASE op.of # 0 /\ op' = Op("sub", t, h, 1, op.of) /\ frames' = frames
    <3>1. op'.name = "sub" /\ op'.thread = t /\ op'.at = 1 /\ op'.of = op.of
      BY <2>5 DEF Op
    <3>2. op.of <= MaxLength
      BY <1>1 DEF OpFits
    <3>3. OpFits'
      BY <1>3, <2>2, <2>5, <3>1, <3>2 DEF OpFits, Slots, Top
    <3> QED BY <1>1, <2>3, <2>5, <3>3 DEF Fits
  <2> QED BY <2>1, <2>4, <2>5
<1>10. CASE op.name = "sub"
  <2>1. /\ refs' = [refs EXCEPT ![g][op.at] = h]
        /\ \/ frames' = WithSlots(t, Append(Drop(t, 2), g)) /\ op' = NoOp
           \/ op.at # op.of /\ op' = [op EXCEPT !.at = @ + 1] /\ frames' = frames
    BY <1>10 DEF Granted, Done, More
  <2>2. g \in Handle
    BY <1>1, <1>10 DEF OpNeeds
  <2>3. RefsFit'
    <3> DEFINE r == refs[g]
    <3>1. refs' = [refs EXCEPT ![g] = [r EXCEPT ![op.at] = h]]
      BY <2>1
    <3>2. r \in Seq(Ref \cup {h}) /\ Len(r) <= MaxLength
      BY <1>1, <2>2, SeqGrows DEF RefsFit
    <3> HIDE DEF r
    <3>3. Len([r EXCEPT ![op.at] = h]) = Len(r)
      BY <3>2
    <3> QED BY <1>1, <2>2, <3>1, <3>2, <3>3, RefsExcept
  <2>4. Len(Slots(t)) >= 1 /\ op.at <= op.of /\ op.of <= MaxLength
    BY <1>1, <1>10 DEF OpFits
  <2>5. CASE frames' = WithSlots(t, Append(Drop(t, 2), g)) /\ op' = NoOp
    <3>1. FramesFit(frames')
      BY <1>1, <2>4, <2>5, ResultFit
    <3> QED BY <2>3, <2>5, <3>1, DoneFits
  <2>6. CASE op.at # op.of /\ op' = [op EXCEPT !.at = @ + 1] /\ frames' = frames
    <3>1. op'.name = "sub" /\ op'.thread = t /\ op'.at = op.at + 1 /\ op'.of = op.of
      BY <1>1, <1>10, <2>6 DEF OpType
    <3>2. op.at + 1 <= op.of /\ op.at + 1 <= MaxLength
      BY <1>3, <2>4, <2>6
    <3>3. OpFits'
      BY <2>4, <2>6, <3>1, <3>2 DEF OpFits, Slots, Top
    <3> QED BY <1>1, <2>3, <2>6, <3>3 DEF Fits
  <2> QED BY <2>1, <2>5, <2>6
<1>11. CASE op.name = "thread"
  <2>1. /\ refs' = [refs EXCEPT ![h] = <<>>] /\ op' = NoOp
        /\ \E f \in {Frame(g, <<g>>), Frame(0, <<>>)} : frames' = [frames EXCEPT ![h] = <<f>>]
    BY <1>11 DEF Granted, Create, Done
  <2>2. PICK f \in {Frame(g, <<g>>), Frame(0, <<>>)} : frames' = [frames EXCEPT ![h] = <<f>>]
    BY <2>1
  <2>3. Len(f.slots) \in {0, 1}
    <3>1. Len(<<g>>) = 1 /\ Len(<<>>) = 0
      OBVIOUS
    <3>2. f.slots = <<g>> \/ f.slots = <<>>
      BY <2>2 DEF Frame
    <3>3. CASE f.slots = <<g>>
      BY <3>1, <3>3
    <3>4. CASE f.slots = <<>>
      BY <3>1, <3>4
    <3> QED BY <3>2, <3>3, <3>4
  <2>4. MaxSlots >= 1
    BY <1>1, <1>11 DEF OpFits
  <2>5. Len(<<f>>) = 1 /\ <<f>>[1] = f /\ \A i \in 1..1 : i = 1
    OBVIOUS
  <2>6. Len(f.slots) <= MaxSlots /\ 1 <= MaxFrames
    <3> DEFINE l == Len(f.slots)
    <3>1. l \in {0, 1}
      BY <2>3
    <3> HIDE DEF l
    <3>2. l <= MaxSlots /\ 1 <= MaxFrames
      BY <2>4, <3>1, GCAssumption
    <3> QED BY <3>2 DEF l
  <2>7. Len(<<f>>) <= MaxFrames /\ \A i \in 1..Len(<<f>>) : Len(<<f>>[i].slots) <= MaxSlots
    BY <2>5, <2>6
  <2>8. FramesFit(frames')
    BY <1>1, <2>2, <2>7, ExceptFit
  <2>9. RefsFit'
    <3>1. Len(<<>>) <= MaxLength
      BY <1>3
    <3> QED BY <1>1, <2>1, <3>1, RefsExcept
  <2> QED BY <2>1, <2>8, <2>9, DoneFits
<1> QED BY <1>1, <1>5, <1>6, <1>7, <1>8, <1>9, <1>10, <1>11 DEF OpNeeds

\* The error that ends the virtual machine makes nothing longer.
LEMMA OutOfMemoryFits == ASSUME Sound, Fits, OutOfMemory PROVE Fits'
<1>1. /\ frames' = frames /\ op' = NoOp /\ steps' = steps /\ FramesFit(frames) /\ RefsFit
      /\ refs' = refs \/ refs' = [refs EXCEPT ![op.held] = <<>>]
  BY DEF OutOfMemory, Create, Fits
<1>2. RefsFit'
  <2>1. CASE refs' = refs
    BY <1>1, <2>1 DEF RefsFit
  <2>2. CASE refs' = [refs EXCEPT ![op.held] = <<>>]
    <3>1. Len(<<>>) <= MaxLength
      BY GCAssumption
    <3>2. \A h \in Handle : refs'[h] = refs[h] \/ refs'[h] = <<>>
      BY <2>2 DEF Sound, Types
    <3> QED BY <1>1, <3>1, <3>2 DEF RefsFit
  <2> QED BY <1>1, <2>1, <2>2
<1> QED BY <1>1, <1>2, DoneFits

\* Nothing is lost by any step but a collection.
LEMMA FitsKept == ASSUME IInv, lost = {}, Fits, [Next]_vars PROVE Fits'
<1>1. Sound
  BY DEF IInv
<1>2. ASSUME NEW t \in Handle, Instruction(t) PROVE Fits'
  BY <1>1, <1>2, InstructionFits
<1>3. ASSUME NEW t \in Handle, Allocating(t) PROVE Fits'
  BY <1>1, <1>3, AllocatingFits
<1>4. CASE Collector
  BY <1>1, <1>4, CollectorFits
<1>5. CASE Allocate
  BY <1>5, GrantedFits DEF Allocate
<1>6. CASE OutOfMemory
  BY <1>1, <1>6, OutOfMemoryFits
<1>7. CASE UNCHANGED vars
  BY <1>7 DEF vars, Fits, RefsFit, OpFits, Slots, Top
<1> QED BY <1>2, <1>3, <1>4, <1>5, <1>6, <1>7 DEF Next

\* What the inductive invariants say of types.
LEMMA SoundTypes == ASSUME Sound, Fits, lost \subseteq Handle PROVE TypeOK
<1>1. /\ kind \in [Handle -> Kind] /\ refs \in [Handle -> Seq(Ref)] /\ mark \in [Handle -> 0..2]
      /\ op \in OpType /\ pc \in {"run", "alloc", "trace", "sweep", "retry", "halted"}
  BY DEF Sound, Types, OpType
<1>2. /\ frames \in [Handle -> Seq(FrameOver(Referable))]
      /\ \A h \in Handle : frames[h] # <<>> <=> kind[h] = "thread"
      /\ static \in Referable \cup {0}
  BY DEF Sound, FramesRight
<1>3. refs \in [Handle -> UNION {[1..n -> Ref] : n \in 0..MaxLength}]
  <2>1. ASSUME NEW h \in Handle
        PROVE  refs[h] \in UNION {[1..n -> Ref] : n \in 0..MaxLength}
    <3> DEFINE r == refs[h]
    <3>1. r \in Seq(Ref) /\ Len(r) <= MaxLength
      BY <1>1 DEF Fits, RefsFit
    <3> HIDE DEF r
    <3>2. Len(r) \in 0..MaxLength /\ r \in [1..Len(r) -> Ref]
      BY <3>1, GCAssumption
    <3> QED BY <3>2 DEF r
  <2> DEFINE S == UNION {[1..n -> Ref] : n \in 0..MaxLength}
  <2> HIDE DEF S
  <2> QED BY <1>1, <2>1 DEF S
<1>4. lock \subseteq Live
  <2>1. lock = IF op.name \in {"chars", "thread"} THEN {op.held} ELSE {}
    BY DEF Sound, OpRight
  <2>2. CASE op.name \in {"chars", "thread"}
    <3>1. op # NoOp
      BY <2>2 DEF NoOp, Op
    <3>2. OpNeeds
      BY <3>1 DEF Sound, OpRight
    <3>3. op.held \in Handle /\ kind[op.held] # "none"
      BY <2>2, <3>2 DEF OpNeeds
    <3> QED BY <2>1, <2>2, <3>3 DEF Live
  <2>3. CASE op.name \notin {"chars", "thread"}
    BY <2>1, <2>3
  <2> QED BY <2>2, <2>3
<1>5. ASSUME NEW h \in Handle
      PROVE  /\ Len(frames[h]) <= MaxFrames
             /\ (frames[h] # <<>>) = (h \in Thread)
             /\ \A i \in DOMAIN frames[h] :
                  /\ frames[h][i].this \in Ref
                  /\ Len(frames[h][i].slots) <= MaxSlots
                  /\ Range(frames[h][i].slots) \subseteq Slot
  <2>1. Len(frames[h]) <= MaxFrames
        /\ \A i \in 1..Len(frames[h]) : Len(frames[h][i].slots) <= MaxSlots
    BY DEF Fits, FramesFit
  <2>2. frames[h] \in Seq(FrameOver(Referable))
    BY <1>2
  <2>3. ASSUME NEW i \in DOMAIN frames[h]
        PROVE  /\ i \in 1..Len(frames[h]) /\ frames[h][i].this \in Ref
               /\ Range(frames[h][i].slots) \subseteq Slot
    <3> DEFINE f == frames[h][i]
    <3>1. i \in 1..Len(frames[h]) /\ f \in FrameOver(Referable)
      BY <2>2
    <3> HIDE DEF f
    <3>2. f.this \in Referable \cup {0} /\ f.slots \in Seq(Referable \cup {0, Number})
      BY <3>1 DEF FrameOver
    <3>3. Referable \cup {0} \subseteq Ref /\ Referable \cup {0, Number} \subseteq Slot
      BY GCAssumption DEF Referable, Ref, Slot, Handle
    <3>4. Range(f.slots) \subseteq Slot
      <4>1. f.slots \in Seq(Slot)
        BY <3>2, <3>3, SeqGrows
      <4>2. \A j \in DOMAIN f.slots : f.slots[j] \in Slot
        BY <4>1
      <4> QED BY <4>2 DEF Range
    <3> QED BY <3>1, <3>2, <3>3, <3>4 DEF f
  <2>4. (frames[h] # <<>>) = (h \in Thread)
    BY <1>2 DEF Thread
  <2> QED BY <2>1, <2>3, <2>4
<1>6. static \in Ref
  BY <1>2, GCAssumption DEF Referable, Ref, Handle
<1>7. OpOK
  <2>1. /\ op.name \in OpNames /\ op.thread \in Ref /\ op.held \in Ref
        /\ op.at \in Nat /\ op.of \in Nat
    BY <1>1 DEF OpType
  <2>2. op.at \in 0..MaxLength /\ op.of \in 0..MaxLength
    BY <2>1, GCAssumption DEF Fits, OpFits
  <2> QED BY <2>1, <2>2 DEF OpOK, OpNames, Kind
<1> QED BY <1>1, <1>3, <1>4, <1>5, <1>6, <1>7 DEF TypeOK, Fits

\* A collection that takes what was needed leaves the rest as it was.
LEMMA LossTypes == ASSUME IInv, TypeOK, lost = {}, Sweep PROVE TypeOK'
<1> DEFINE D == {h \in Live : mark[h] = 0 /\ h \notin lock}
<1>1. /\ Sound /\ pc = "sweep" /\ pc' = "retry"
      /\ kind' = [h \in Handle |-> IF h \in D THEN "none" ELSE kind[h]]
      /\ refs' = [h \in Handle |-> IF h \in D THEN <<>> ELSE refs[h]]
      /\ lost' \subseteq D
      /\ mark' = [h \in Handle |-> 0]
      /\ UNCHANGED <<lock, frames, static, op, steps>>
  BY DEF IInv, Sweep
<1>2. \A h \in D : h \in Handle /\ mark[h] = 0 /\ h \notin lock
  BY DEF Live
<1>3. \A h \in Handle : h \in Thread => h \notin D
  BY <1>1, <1>2, MarkedAll
<1> HIDE DEF D
<1>4. Thread' = Thread
  BY <1>1, <1>3 DEF Thread
<1>5. kind' \in [Handle -> Kind] /\ mark' \in [Handle -> 0..2]
  BY <1>1 DEF TypeOK, Kind
<1>6. refs' \in [Handle -> UNION {[1..n -> Ref] : n \in 0..MaxLength}]
  <2> DEFINE S == UNION {[1..n -> Ref] : n \in 0..MaxLength}
  <2>1. <<>> \in S
    <3>1. <<>> \in [1..0 -> Ref] /\ 0 \in 0..MaxLength
      BY GCAssumption
    <3> QED BY <3>1
  <2>2. refs \in [Handle -> S]
    BY DEF TypeOK
  <2> HIDE DEF S
  <2> QED BY <1>1, <2>1, <2>2 DEF S
<1>7. lock' \subseteq Live'
  <2>1. \A h \in lock : h \in Handle /\ kind[h] # "none"
    BY DEF TypeOK, Live
  <2> QED BY <1>1, <1>2, <2>1 DEF Live
<1>8. lost' \subseteq Handle
  BY <1>1, <1>2
<1>9. \A h \in Handle :
        /\ Len(frames'[h]) <= MaxFrames
        /\ (frames'[h] # <<>>) = (h \in Thread')
        /\ \A i \in DOMAIN frames'[h] :
             /\ frames'[h][i].this \in Ref
             /\ Len(frames'[h][i].slots) <= MaxSlots
             /\ Range(frames'[h][i].slots) \subseteq Slot
  BY <1>1, <1>4 DEF TypeOK
<1>10. OpOK' /\ static' \in Ref /\ steps' \in 0..MaxSteps
  BY <1>1 DEF TypeOK, OpOK
<1> QED BY <1>1, <1>5, <1>6, <1>7, <1>8, <1>9, <1>10 DEF TypeOK

\* Types of objects, stacks and of what is pending, whatever the program does: what an
\* instruction checks of the stack when it begins still holds when, many steps and
\* perhaps a collection later, it pushes what it was given, and no index of
\* multianewarray passes the end of the outer array.
THEOREM TypeCorrect == Spec => []TypeOK
<1>1. ASSUME Init PROVE TInv
  <2>1. IInv /\ lost = {} /\ op = NoOp /\ steps = 0
    BY <1>1, InitInv DEF Init
  <2>2. RefsFit
    <3>1. Len(<<>>) <= MaxLength
      BY GCAssumption
    <3> QED BY <1>1, <3>1 DEF Init, RefsFit
  <2>3. FramesFit(frames)
    <3> DEFINE f == Frame(0, <<>>)
    <3>1. \A h \in Handle : frames[h] = <<f>> \/ frames[h] = <<>>
      BY <1>1 DEF Init
    <3>2. Len(f.slots) = 0 /\ 0 <= MaxSlots /\ 0 <= MaxFrames /\ 1 <= MaxFrames
      BY GCAssumption DEF Frame
    <3> HIDE DEF f
    <3>3. Len(<<f>>) = 1 /\ \A i \in 1..Len(<<f>>) : <<f>>[i] = f
      OBVIOUS
    <3>4. Len(<<>>) = 0 /\ 1..Len(<<>>) = {}
      OBVIOUS
    <3> QED BY <3>1, <3>2, <3>3, <3>4 DEF FramesFit
  <2>4. NoOp.at = 0 /\ NoOp.of = 0 /\ NoOp.name = "none"
    BY DEF NoOp, Op
  <2>5. OpFits
    BY <2>1, <2>4, GCAssumption DEF OpFits
  <2>6. Fits
    BY <2>1, <2>2, <2>3, <2>5, GCAssumption DEF Fits
  <2> QED BY <2>1, <2>6 DEF TInv
<1>2. ASSUME TInv, [Next]_vars PROVE TInv'
  <2>1. IInv'
    BY <1>2, NextInv DEF TInv
  <2>2. CASE lost # {}
    <3>1. pc = "retry" /\ TypeOK
      BY <1>2, <2>2 DEF TInv, IInv
    <3>2. UNCHANGED vars
      BY <1>2, <2>2, <3>1 DEF Next, Instruction, PushValue, Pop, GetStatic, PutStatic, StoreLocal,
         GetField, PutField, Invoke, Return, ThreadEnds, Allocating, New, NewArray, LoadString,
         StringInit, ThreadCreate, MultiNewArray, Running, Collector, Collect, Trace, TraceDone,
         Sweep, Allocate, OutOfMemory
    <3>3. lost' # {}
      BY <2>2, <3>2 DEF vars
    <3>4. TypeOK'
      BY <3>1, <3>2 DEF vars, TypeOK, OpOK, Live, Thread
    <3> QED BY <2>1, <3>3, <3>4 DEF TInv
  <2>3. CASE lost = {}
    <3>1. IInv /\ Fits /\ Fits'
      BY <1>2, <2>3, FitsKept DEF TInv
    <3>2. CASE Sweep
      <4>1. TypeOK
        BY <2>3, <3>1, SoundTypes DEF IInv
      <4>2. TypeOK'
        BY <2>3, <3>1, <3>2, <4>1, LossTypes
      <4> QED BY <2>1, <3>1, <4>2 DEF TInv
    <3>3. CASE lost' = lost
      BY <2>1, <2>3, <3>1, <3>3 DEF TInv
    <3>4. Sweep \/ lost' = lost
      BY <1>2 DEF vars, Next, Instruction, PushValue, Pop, GetStatic, PutStatic, StoreLocal,
         GetField, PutField, Invoke, Return, ThreadEnds, OnlyFrames, Allocating, New, NewArray,
         LoadString, StringInit, ThreadCreate, MultiNewArray, Request, Collector, Collect, Trace,
         TraceDone, Allocate, OutOfMemory
    <3> QED BY <3>2, <3>3, <3>4
  <2> QED BY <2>2, <2>3
<1>3. TInv => TypeOK
  <2>1. ASSUME TInv, lost = {} PROVE TypeOK
    BY <2>1, SoundTypes DEF TInv, IInv
  <2> QED BY <2>1 DEF TInv
<1> QED BY <1>1, <1>2, <1>3, PTL DEF Spec

================================================================================
