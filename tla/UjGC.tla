-------------------------------- MODULE UjGC --------------------------------
(***************************************************************************)
(* The garbage collector of the uJ virtual machine (ujGC in uJ/uj.c) and   *)
(* the instructions and natives that allocate, and so may start it while   *)
(* they hold handles of their own.                                         *)
(*                                                                         *)
(* Objects have kinds: "inst" is an instance with reference fields, "str"  *)
(* a String whose characters are a chunk of their own, "arr" an array of   *)
(* references, "bytes" an array of numbers, "raw" a String's characters    *)
(* and "thread" the chunk of a thread; the last two have no class pointer. *)
(* Sizes, addresses and compaction are left to UjHeap: an allocation may   *)
(* find no room at any time.                                               *)
(***************************************************************************)
EXTENDS Integers, Sequences, SequencesExt

CONSTANTS
  NH,         \* number of handles
  MaxLength,  \* longest array of references, and fields of an instance
  MaxSlots,   \* bound: stack slots of a thread
  MaxFrames,  \* bound: frames of a thread
  MaxThreads, \* bound: threads
  MaxSteps    \* bound: instructions begun

ASSUME GCAssumption ==
  /\ NH \in Nat \ {0}
  /\ MaxLength \in Nat \ {0}
  /\ MaxSlots \in Nat
  /\ MaxFrames \in Nat \ {0}
  /\ MaxThreads \in Nat
  /\ MaxSteps \in Nat

VARIABLES
  kind,      \* handle -> kind of the object it names, or "none"
  refs,      \* handle -> its reference fields or elements
  lock,      \* the locked handles
  mark,      \* handle -> its mark in the collection under way
  frames,    \* handle -> the frames of the thread it names, the last one runs
  static,    \* the static reference field of the loaded classes
  pc,        \* "run" between instructions, else where ujHeapHandleNew is
  op,        \* the instruction or native that is allocating
  lost,      \* history: what a collection freed though op still needed it
  steps      \* history: instructions begun

vars == <<kind, refs, lock, mark, frames, static, pc, op, lost, steps>>
objects == <<kind, refs, lock, mark>>

Handle == 1..NH
Number == -1                 \* a stack slot whose reference bit is clear
Ref == 0..NH                 \* 0 is null
Slot == {Number} \cup Ref
Kind == {"none", "inst", "str", "arr", "bytes", "raw", "thread"}
HasClassPointer == {"inst", "str", "arr", "bytes"}

Live == {h \in Handle : kind[h] # "none"}
Thread == {h \in Handle : kind[h] = "thread"}

\* Operations of which an allocation is a part; held is the handle that is only
\* in a C variable meanwhile, at is the loop counter of multianewarray and of
\* is the length of its outer array.
Op(n, t, h, i, l) == [name |-> n, thread |-> t, held |-> h, at |-> i, of |-> l]
NoOp == Op("none", 0, 0, 0, 0)

Frame(h, s) == [this |-> h, slots |-> s]

Init ==
  /\ kind = [h \in Handle |-> IF h = 1 THEN "thread" ELSE "none"]
  /\ refs = [h \in Handle |-> <<>>]
  /\ lock = {}
  /\ mark = [h \in Handle |-> 0]
  /\ frames = [h \in Handle |-> IF h = 1 THEN <<Frame(0, <<>>)>> ELSE <<>>]
  /\ static = 0
  /\ pc = "run" /\ op = NoOp /\ lost = {} /\ steps = 0

-----------------------------------------------------------------------------
(* What is reachable. *)

Handles(s) == {s[i] : i \in DOMAIN s} \cap Handle

\* What a thread keeps alive: the reference slots of its stack, the object its
\* running method was called on, and the ones pushed by ujThreadPushRetInfo.
\* (Mutant: instH is not marked.)
ThreadRoots_StackOnly(t) ==
  UNION {Handles(frames[t][i].slots) : i \in DOMAIN frames[t]}

ThreadRoots(t) ==
  UNION {Handles(frames[t][i].slots) \cup Handles(<<frames[t][i].this>>) :
           i \in DOMAIN frames[t]}

Roots == Handles(<<static>>) \cup UNION {ThreadRoots(t) : t \in Thread}

Closed(S) == \A h \in S : Handles(refs[h]) \subseteq S

\* The least closed set around R.
Reach(R) ==
  {h \in Handle : \A S \in SUBSET Handle : R \subseteq S /\ Closed(S) => h \in S}

-----------------------------------------------------------------------------
(* The collector. *)

\* ujHeapMark never lowers a mark.
Raise(h, m) == IF mark[h] < m THEN m ELSE mark[h]

\* ujHeapUnmarkAll and step 1 of ujGC: class variables, threads, stacks.
Collect ==
  /\ pc = "alloc"
  /\ mark' = [h \in Handle |-> IF h \in Thread THEN 2
                               ELSE IF h \in Roots THEN 1 ELSE 0]
  /\ pc' = "trace"
  /\ UNCHANGED <<kind, refs, lock, frames, static, op, lost, steps>>

\* ujHeapFirstMarked(1)
FirstMarked(h) == mark[h] = 1 /\ \A g \in 1..(h - 1) : mark[g] # 1

\* The fields of an instance, the elements of an array.  The characters of a
\* String get mark 2 at once: there is nothing to be followed in them.
\* (Mutants: the last element is skipped; characters are marked like objects.)
ChildMark_SkipsLast(h, g) ==
  IF g \notin Handles(SubSeq(refs[h], 1, Len(refs[h]) - 1)) THEN mark[g]
  ELSE Raise(g, IF kind[h] = "str" THEN 2 ELSE 1)

ChildMark_Uniform(h, g) ==
  IF g \in Handles(refs[h]) THEN Raise(g, 1) ELSE mark[g]

ChildMark(h, g) ==
  IF g \notin Handles(refs[h]) THEN mark[g]
  ELSE Raise(g, IF kind[h] = "str" THEN 2 ELSE 1)

\* One iteration of step 2 of ujGC.
\* (Mutant: the object keeps mark 1.)
Trace_Stuck ==
  /\ pc = "trace"
  /\ \E h \in Handle :
       FirstMarked(h) /\ mark' = [g \in Handle |-> ChildMark(h, g)]
  /\ UNCHANGED <<kind, refs, lock, frames, static, pc, op, lost, steps>>

Trace ==
  /\ pc = "trace"
  /\ \E h \in Handle :
       /\ FirstMarked(h)
       /\ mark' = [g \in Handle |-> IF g = h THEN 2 ELSE ChildMark(h, g)]
  /\ UNCHANGED <<kind, refs, lock, frames, static, pc, op, lost, steps>>

TraceDone ==
  /\ pc = "trace"
  /\ \A h \in Handle : mark[h] # 1
  /\ pc' = "sweep"
  /\ UNCHANGED <<kind, refs, lock, mark, frames, static, op, lost, steps>>

\* ujHeapFreeUnmarked.  What op still needs is what it holds in a C variable and
\* all that is reached from there.
Sweep ==
  /\ pc = "sweep"
  /\ LET freed == {h \in Live : mark[h] = 0 /\ h \notin lock}
     IN  /\ kind' = [h \in Handle |-> IF h \in freed THEN "none" ELSE kind[h]]
         /\ refs' = [h \in Handle |-> IF h \in freed THEN <<>> ELSE refs[h]]
         /\ lost' = freed \cap Reach(Handles(<<op.held>>))
  /\ mark' = [h \in Handle |-> 0]
  /\ pc' = "retry"
  /\ UNCHANGED <<lock, frames, static, op, steps>>

-----------------------------------------------------------------------------
(* Instructions that move references and do not allocate. *)

\* Once an object in use has been freed what follows is undefined: the model
\* ends there, as do Allocate and OutOfMemory below.
Running(t) == pc = "run" /\ t \in Thread /\ lost = {} /\ steps < MaxSteps
Step == steps' = steps + 1

Top(t) == Last(frames[t])
Slots(t) == Top(t).slots
WithSlots(t, s) == [frames EXCEPT ![t] = Append(Front(@), Frame(Top(t).this, s))]

Used(t) ==
  LET used[n \in 0..Len(frames[t])] ==
        IF n = 0 THEN 0 ELSE used[n - 1] + Len(frames[t][n].slots)
  IN  used[Len(frames[t])]
Pushable(t) == Used(t) < MaxSlots
Push(t, v) == WithSlots(t, Append(Slots(t), v))
Drop(t, n) == SubSeq(Slots(t), 1, Len(Slots(t)) - n)
Peek(t, n) == Slots(t)[Len(Slots(t)) - n]
Depth(t, n) == Len(Slots(t)) >= n

OnlyFrames == Step /\ UNCHANGED <<objects, static, pc, op, lost>>

\* Constants and aconst_null, the loads and the dup family.
PushValue(t, v) ==
  /\ Running(t) /\ Pushable(t)
  /\ v \in {Number, 0} \cup Range(Slots(t))
  /\ frames' = Push(t, v)
  /\ OnlyFrames

Pop(t) ==
  /\ Running(t) /\ Depth(t, 1)
  /\ frames' = WithSlots(t, Drop(t, 1))
  /\ OnlyFrames

\* The stores: a local variable lies below the operands.
StoreLocal(t, i) ==
  /\ Running(t) /\ i \in 1..(Len(Slots(t)) - 1)
  /\ frames' = WithSlots(t, [Drop(t, 1) EXCEPT ![i] = Peek(t, 0)])
  /\ OnlyFrames

\* getfield, aaload
GetField(t, i) ==
  /\ Running(t) /\ Depth(t, 1)
  /\ Peek(t, 0) \in Handle /\ kind[Peek(t, 0)] \in {"inst", "arr"}
  /\ i \in DOMAIN refs[Peek(t, 0)]
  /\ frames' = WithSlots(t, Append(Drop(t, 1), refs[Peek(t, 0)][i]))
  /\ OnlyFrames

\* putfield, aastore
PutField(t, i) ==
  /\ Running(t) /\ Depth(t, 2)
  /\ Peek(t, 0) # Number
  /\ Peek(t, 1) \in Handle /\ kind[Peek(t, 1)] \in {"inst", "arr"}
  /\ i \in DOMAIN refs[Peek(t, 1)]
  /\ refs' = [refs EXCEPT ![Peek(t, 1)][i] = Peek(t, 0)]
  /\ frames' = WithSlots(t, Drop(t, 2))
  /\ Step /\ UNCHANGED <<kind, lock, mark, static, pc, op, lost>>

GetStatic(t) ==
  /\ Running(t) /\ Pushable(t)
  /\ frames' = Push(t, static)
  /\ OnlyFrames

PutStatic(t) ==
  /\ Running(t) /\ Depth(t, 1) /\ Peek(t, 0) # Number
  /\ static' = Peek(t, 0)
  /\ frames' = WithSlots(t, Drop(t, 1))
  /\ Step /\ UNCHANGED <<objects, pc, op, lost>>

\* invokevirtual of a method with no parameter but this.
Invoke(t) ==
  /\ Running(t) /\ Len(frames[t]) < MaxFrames /\ Depth(t, 1)
  /\ Peek(t, 0) \in Handle
  /\ frames' = [WithSlots(t, Drop(t, 1)) EXCEPT
                  ![t] = Append(@, Frame(Peek(t, 0), <<Peek(t, 0)>>))]
  /\ OnlyFrames

Return(t) ==
  /\ Running(t) /\ Len(frames[t]) > 1
  /\ frames' = [frames EXCEPT ![t] = Front(@)]
  /\ OnlyFrames

\* Return from the method a thread started with, and ujThreadDestroy.
ThreadEnds(t) ==
  /\ Running(t) /\ Len(frames[t]) = 1
  /\ frames' = [frames EXCEPT ![t] = <<>>]
  /\ kind' = [kind EXCEPT ![t] = "none"]
  /\ Step /\ UNCHANGED <<refs, lock, mark, static, pc, op, lost>>

-----------------------------------------------------------------------------
(* Instructions and natives that allocate: each begins with a request, and   *)
(* goes on in Granted.                                                       *)

Request(o) ==
  /\ op' = o /\ pc' = "alloc"
  /\ Step /\ UNCHANGED <<kind, refs, mark, static, lost>>

\* new, and new String
New(t, n) ==
  /\ Running(t) /\ Pushable(t) /\ n \in {"inst", "str"}
  /\ Request(Op(n, t, 0, 0, 0))
  /\ UNCHANGED <<lock, frames>>

\* newarray, anewarray: the length is popped first.
NewArray(t, n, l) ==
  /\ Running(t) /\ Depth(t, 1) /\ Peek(t, 0) = Number
  /\ n \in {"arr", "bytes"}
  /\ l \in IF n = "arr" THEN 0..MaxLength ELSE {0}
  /\ frames' = WithSlots(t, Drop(t, 1))
  /\ Request(Op(n, t, 0, 0, l))
  /\ UNCHANGED lock

\* ldc of a String with characters in the heap (ujThreadPrvNewConstString).
LoadString(t) ==
  /\ Running(t) /\ Pushable(t)
  /\ Request(Op("ldc", t, 0, 0, 0))
  /\ UNCHANGED <<lock, frames>>

\* MiniString.<init>(byte[]): its parameters are peeked at and popped at the end.
\* (Mutant: they are popped first.)
StringInit_PopsFirst(t) ==
  /\ Running(t) /\ Depth(t, 2)
  /\ Peek(t, 1) \in Handle /\ kind[Peek(t, 1)] = "str"
  /\ Peek(t, 0) \in Handle /\ kind[Peek(t, 0)] = "bytes"
  /\ frames' = WithSlots(t, Drop(t, 2))
  /\ Request(Op("init", t, Peek(t, 1), 0, 0))
  /\ UNCHANGED lock

StringInit(t) ==
  /\ Running(t) /\ Depth(t, 2)
  /\ Peek(t, 1) \in Handle /\ kind[Peek(t, 1)] = "str"
  /\ Peek(t, 0) \in Handle /\ kind[Peek(t, 0)] = "bytes"
  /\ Request(Op("init", t, Peek(t, 1), 0, 0))
  /\ UNCHANGED <<lock, frames>>

\* multianewarray with two dimensions, the outer one of length l.
MultiNewArray(t, l) ==
  /\ Running(t) /\ Depth(t, 2) /\ l \in 0..MaxLength
  /\ Peek(t, 0) = Number /\ Peek(t, 1) = Number
  /\ Request(Op("multi", t, 0, 0, l))
  /\ UNCHANGED <<lock, frames>>

\* RT.threadCreate(Runnable): the object is popped and locked.
ThreadCreate(t) ==
  /\ Running(t) /\ Depth(t, 1) /\ Cardinality(Thread) < MaxThreads
  /\ Peek(t, 0) \in Handle /\ kind[Peek(t, 0)] = "inst"
  /\ frames' = WithSlots(t, Drop(t, 1))
  /\ lock' = lock \cup {Peek(t, 0)}
  /\ Request(Op("thread", t, Peek(t, 0), 0, 0))

Unused(h) == kind[h] = "none"
FirstUnused(h) == Unused(h) /\ \A g \in 1..(h - 1) : ~Unused(g)

Nulls(n) == [i \in 1..n |-> 0]

Create(h, k, r) ==
  /\ kind' = [kind EXCEPT ![h] = k]
  /\ refs' = [refs EXCEPT ![h] = r]

Done == pc' = "run" /\ op' = NoOp
More(o) == pc' = "alloc" /\ op' = o

\* (Mutant: the lock is kept.)
Release_Forgotten(h) == lock

Release(h) == lock \ {h}

\* What op does with the object it is given.
Granted(h) ==
  LET t == op.thread
      g == op.held
  IN \/ /\ op.name \in {"inst", "str", "arr", "bytes"}
        /\ Create(h, op.name,
                  Nulls(IF op.name = "inst" THEN MaxLength
                        ELSE IF op.name = "str" THEN 1 ELSE op.of))
        /\ frames' = Push(t, h)
        /\ Done /\ UNCHANGED lock
     \/ /\ op.name = "ldc"
        /\ Create(h, "str", Nulls(1))
        /\ lock' = lock \cup {h}
        /\ More(Op("chars", t, h, 0, 0))
        /\ UNCHANGED frames
     \/ /\ op.name = "chars"
        /\ kind' = [kind EXCEPT ![h] = "raw"]
        /\ refs' = [refs EXCEPT ![g] = <<h>>]
        /\ lock' = Release(g)
        /\ frames' = Push(t, g)
        /\ Done
     \/ /\ op.name = "init"
        /\ kind' = [kind EXCEPT ![h] = "raw"]
        /\ refs' = [refs EXCEPT ![g] = <<h>>]
        /\ frames' = WithSlots(t, Drop(t, 2))
        /\ Done /\ UNCHANGED lock
     \/ /\ op.name = "multi"
        /\ Create(h, "arr", Nulls(op.of))
        /\ UNCHANGED lock
        /\ IF op.of = 0
           THEN frames' = WithSlots(t, Append(Drop(t, 2), h)) /\ Done
           ELSE More(Op("sub", t, h, 1, op.of)) /\ UNCHANGED frames
     \/ /\ op.name = "sub"
        /\ kind' = [kind EXCEPT ![h] = "bytes"]
        /\ refs' = [refs EXCEPT ![g][op.at] = h]
        /\ UNCHANGED lock
        /\ IF op.at = op.of
           THEN frames' = WithSlots(t, Append(Drop(t, 2), g)) /\ Done
           ELSE More([op EXCEPT !.at = @ + 1]) /\ UNCHANGED frames
     \/ /\ op.name = "thread"
        /\ Create(h, "thread", <<>>)
        /\ lock' = Release(g)
        /\ \/ frames' = [frames EXCEPT ![h] = <<Frame(g, <<g>>)>>] /\ Done
           \/ \* the object has no method run()
              /\ frames' = [frames EXCEPT ![h] = <<Frame(0, <<>>)>>]
              /\ pc' = "halted" /\ op' = NoOp

\* ujHeapHandleNew finds room, at once or after a collection.
Allocate ==
  /\ pc \in {"alloc", "retry"} /\ lost = {}
  /\ \E h \in Handle : FirstUnused(h) /\ Granted(h)
  /\ UNCHANGED <<mark, static, lost, steps>>

\* It does not: the object NewConstString locked is released and freed, the one
\* threadCreate locked is released; the error ends the virtual machine.
OutOfMemory ==
  /\ pc = "retry" /\ lost = {}
  /\ pc' = "halted" /\ op' = NoOp
  /\ lock' = Release(op.held)
  /\ IF op.name = "chars"
     THEN Create(op.held, "none", <<>>)
     ELSE UNCHANGED <<kind, refs>>
  /\ UNCHANGED <<mark, frames, static, lost, steps>>

Instruction(t) ==
  \/ \E v \in Slot : PushValue(t, v)
  \/ Pop(t) \/ GetStatic(t) \/ PutStatic(t)
  \/ \E i \in 1..MaxSlots : StoreLocal(t, i)
  \/ \E i \in 1..MaxLength : GetField(t, i) \/ PutField(t, i)
  \/ Invoke(t) \/ Return(t) \/ ThreadEnds(t)

Allocating(t) ==
  \/ \E n \in Kind : New(t, n)
  \/ \E n \in Kind, l \in 0..MaxLength : NewArray(t, n, l)
  \/ LoadString(t) \/ StringInit(t) \/ ThreadCreate(t)
  \/ \E l \in 0..MaxLength : MultiNewArray(t, l)

Collector == Collect \/ Trace \/ TraceDone \/ Sweep

Next ==
  \/ \E t \in Handle : Instruction(t) \/ Allocating(t)
  \/ Collector \/ Allocate \/ OutOfMemory

Spec == Init /\ [][Next]_vars

\* The collector is straight-line code.
FairSpec == Spec /\ WF_vars(Trace \/ TraceDone)

-----------------------------------------------------------------------------
(* Properties. *)

OpOK ==
  /\ op.name \in {"none", "ldc", "chars", "init", "multi", "sub"} \cup Kind
  /\ op.thread \in Ref /\ op.held \in Ref
  /\ op.at \in 0..MaxLength /\ op.of \in 0..MaxLength

TypeOK ==
  /\ kind \in [Handle -> Kind]
  /\ refs \in [Handle -> UNION {[1..n -> Ref] : n \in 0..MaxLength}]
  /\ lock \subseteq Live /\ lost \subseteq Handle
  /\ mark \in [Handle -> 0..2]
  /\ \A h \in Handle :
       /\ Len(frames[h]) <= MaxFrames
       /\ (frames[h] # <<>>) = (h \in Thread)
       /\ \A i \in DOMAIN frames[h] :
            /\ frames[h][i].this \in Ref
            /\ Len(frames[h][i].slots) <= MaxSlots
            /\ Range(frames[h][i].slots) \subseteq Slot
  /\ static \in Ref /\ steps \in 0..MaxSteps
  /\ pc \in {"run", "alloc", "trace", "sweep", "retry", "halted"}
  /\ OpOK

\* When the marking of ujGC is over, what is marked 2 is the threads and what is
\* reachable from stacks, running methods and class variables: nothing in use
\* is missed (whatever order handles are found in) and no garbage is kept.
MarkExact ==
  pc = "sweep" =>
    \A h \in Handle :
      mark[h] = IF h \in Reach(Roots) \cup Thread THEN 2 ELSE 0

\* The marking follows references only in chunks that begin with a class pointer:
\* never in a thread or in the characters of a String.
NeverParsesRaw ==
  pc = "trace" => \A h \in Handle : mark[h] = 1 => kind[h] \in HasClassPointer

\* As long as no collection has taken something that was needed, every reference
\* in an object, a stack, a frame or a class variable names an object of a kind
\* that may be referred to from there.
NoDangling ==
  lost = {} =>
    /\ \A t \in Thread : \A i \in DOMAIN frames[t] :
         \A h \in Handles(Append(frames[t][i].slots, frames[t][i].this)) :
           kind[h] \in HasClassPointer
    /\ \A h \in Handles(<<static>>) : kind[h] \in HasClassPointer
    /\ \A h \in Live : \A g \in Handles(refs[h]) :
         IF kind[h] = "str" THEN kind[g] = "raw" ELSE kind[g] \in HasClassPointer

\* Every operation that allocates keeps what it needs from the collector, but
\* multianewarray and RT.threadCreate.
NativesKeepWhatTheyNeed == lost # {} => op.name \in {"sub", "thread"}

\* What the warning at the head of the builtin classes asks of all of them: no
\* operation loses an object it works on to a collection it starts itself.
NothingLost == lost = {}

\* Marking ends.
MarkingEnds == pc = "trace" ~> pc = "sweep"

=============================================================================
