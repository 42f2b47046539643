------------------------------- MODULE UjFrames -------------------------------
(***************************************************************************)
(* The stack of a uJ thread (UjThread in uJ/uj.c): one array of words, a   *)
(* bit per word that says whether it is a reference, and the information   *)
(* to return with, packed into three words between two frames.  The bits   *)
(* above the top of the stack matter: a push of a number does not write    *)
(* one.  Refines JavaFrames.                                               *)
(***************************************************************************)
EXTENDS Integers, Sequences, SequencesExt

CONSTANTS
  Object,    \* handles of instances
  ClassOf,   \* handle -> class of the instance
  Method,    \* methods, by methodStartPc
  Info,      \* method -> params, locals, isStatic, isSync, cls
  Site,      \* positions in a method; 0 is its start
  LIMIT      \* spLimit

ASSUME UjFramesAssumption ==
  /\ Object \subseteq Nat \ {0}
  /\ Site \subseteq Nat /\ 0 \in Site
  /\ LIMIT \in Nat /\ Method \subseteq Nat
  /\ \A m \in Method :
       /\ Info[m].params \in Nat /\ Info[m].locals \in Nat
       /\ Info[m].params <= Info[m].locals
       /\ Info[m].isStatic \in BOOLEAN /\ Info[m].isSync \in BOOLEAN
       /\ ~Info[m].isStatic => Info[m].params > 0
       /\ Info[m].cls \in Int
  /\ \A o \in Object : ClassOf[o] \in Int

VARIABLES
  th,        \* the UjThread
  exc,       \* ujThreadPrvThrow: excH while it unwinds, else 0
  status     \* "run", "done" (UJ_PC_DONE) or "error"

vars == <<th, exc, status>>

Number == -1
Ref == Object \cup {0}
RET == 3                   \* THREAD_RET_INFO_SZ
Index == 0..(LIMIT - 1)

\* A word holds a value, or two numbers packed; flags.raw is one of them.
Word(v) == <<v, 0>>
NoWord == Word(Number)
Flags(hasInst, sync) == (IF hasInst THEN 1 ELSE 0) + (IF sync THEN 2 ELSE 0)
FlagInst(f) == f % 2 = 1
FlagSync(f) == f >= 2

\* ujThreadCreate zeroes the stack, ujThreadPrvGoto sets the method.
Fresh ==
  [stack |-> [k \in Index |-> NoWord], bits |-> [k \in Index |-> FALSE],
   sp |-> 0, base |-> 0, hasInst |-> FALSE, sync |-> FALSE,
   cls |-> 0, inst |-> 0, method |-> 0, pc |-> 0]

-----------------------------------------------------------------------------
(* The primitives of the stack, on a thread t. *)

Full(t) == t.sp >= LIMIT

\* ujThreadPrvPush: only a reference writes its bit.
Push(t, w, isRef) ==
  [t EXCEPT !.stack[t.sp] = w, !.bits[t.sp] = @ \/ isRef, !.sp = @ + 1]

\* A word above the top is only read again as a local variable that was not
\* assigned, so it is a number from here on; its bit is what can go wrong.
\* (Mutant: the bit of what is popped stays.)
Pop_KeepsBit(t) == [t EXCEPT !.stack[t.sp - 1] = NoWord, !.sp = @ - 1]

Pop(t) == [t EXCEPT !.stack[t.sp - 1] = NoWord, !.bits[t.sp - 1] = FALSE, !.sp = @ - 1]

Peek(t, n) == t.stack[t.sp - (n + 1)]
PeekBit(t, n) == t.bits[t.sp - (n + 1)]

\* ujThreadPrvPop until the stack ends at s
PopTo(t, s) ==
  [t EXCEPT !.stack = [k \in Index |-> IF k < s THEN @[k] ELSE NoWord],
            !.bits = [k \in Index |-> @[k] /\ k \notin s..(t.sp - 1)],
            !.sp = s]

LocalStore(t, k, w, isRef) ==
  [t EXCEPT !.stack[t.base + k] = w, !.bits[t.base + k] = isRef]

\* ujThreadPrvDup, step 1: the n + m words on top move n up, bits with them; the
\* slots they leave behind become numbers.
MovedTo(t, n, m) == (t.sp - m)..(t.sp + n - 1)
LeftBy(t, n, m) == ((t.sp - (n + m))..(t.sp - 1)) \ MovedTo(t, n, m)

\* (Mutant: their bits are not cleared.)
Shift_KeepsBits(t, n, m) ==
  [t EXCEPT
     !.stack = [k \in Index |-> IF k \in MovedTo(t, n, m) THEN @[k - n] ELSE @[k]],
     !.bits = [k \in Index |-> IF k \in MovedTo(t, n, m) THEN @[k - n] ELSE @[k]]]

Shift(t, n, m) ==
  [t EXCEPT
     !.stack = [k \in Index |-> IF k \in MovedTo(t, n, m) THEN @[k - n] ELSE @[k]],
     !.bits = [k \in Index |-> IF k \in MovedTo(t, n, m) THEN @[k - n]
                               ELSE @[k] /\ k \notin LeftBy(t, n, m)]]

\* ... and steps 2 and 3: the n words on top are copied to where they were.
DupOf(t, n, m) ==
  LET s    == Shift(t, n, m)
      hole == LeftBy(t, n, m)
  IN  [s EXCEPT
         !.stack = [k \in Index |-> IF k \in hole THEN @[k + n + m] ELSE @[k]],
         !.bits = [k \in Index |-> IF k \in hole THEN @[k + n + m] ELSE @[k]],
         !.sp = @ + n]

DupFits(t, n) == t.sp + n <= LIMIT

\* ujThreadPushRetInfo: this or the class, localsBase with pc, flags with method.
PushRetInfo(t) ==
  LET a == IF t.hasInst THEN Push(t, Word(t.inst), TRUE)
                        ELSE Push(t, Word(t.cls), FALSE)
      b == Push(a, <<t.base, t.pc>>, FALSE)
  IN  Push(b, <<Flags(t.hasInst, t.sync), t.method>>, FALSE)

\* ujThreadPrvGoto; instH is not read while hasInst is clear, 0 then.
Goto(t, m, o) ==
  [t EXCEPT !.method = m, !.pc = 0, !.cls = Info[m].cls,
            !.hasInst = (o # 0), !.inst = o,
            !.base = t.sp, !.sp = t.sp + Info[m].locals]

\* (Mutant: the check comes before the local variables are added.)
GotoFits_Operands(t, m) == t.sp <= LIMIT

GotoFits(t, m) == t.sp + Info[m].locals <= LIMIT

\* ujThreadPrvRet with levels to return to; the class of an instance method is
\* read from the instance.
\* (Mutant: the flags are read after they were needed.)
Ret_OldFlags(t) ==
  LET u     == PopTo(t, t.base)
      flags == Peek(u, 0)[1]
      where == Peek(u, 1)
      word  == Peek(u, 2)[1]
  IN  [PopTo(u, u.sp - RET) EXCEPT
         !.method = Peek(u, 0)[2], !.hasInst = FlagInst(flags), !.sync = FlagSync(flags),
         !.base = where[1], !.pc = where[2],
         !.inst = IF t.hasInst THEN word ELSE 0,
         !.cls = IF t.hasInst THEN 0 ELSE word]

Ret(t) ==
  LET u     == PopTo(t, t.base)
      flags == Peek(u, 0)[1]
      where == Peek(u, 1)
      word  == Peek(u, 2)[1]
  IN  [PopTo(u, u.sp - RET) EXCEPT
         !.method = Peek(u, 0)[2], !.hasInst = FlagInst(flags), !.sync = FlagSync(flags),
         !.base = where[1], !.pc = where[2],
         !.inst = IF FlagInst(flags) THEN word ELSE 0,
         !.cls = IF FlagInst(flags) THEN ClassOf[word] ELSE word]

-----------------------------------------------------------------------------
(* Instructions of verified bytecode: operands are there when they are used. *)

\* main() is started by ujThreadGoto, run() of o by RT.threadCreate.
Init ==
  /\ \E o \in Ref, m \in Method :
       /\ IF o = 0 THEN Info[m].isStatic ELSE ~Info[m].isStatic
       /\ Info[m].params <= 1
       /\ GotoFits(Fresh, m)
       /\ th = Goto(IF o = 0 THEN Fresh ELSE LocalStore(Fresh, 0, Word(o), TRUE), m, o)
  /\ exc = 0 /\ status = "run"

Locals == Info[th.method].locals
Operands(n) == th.sp >= th.base + Locals + n
Ready == status = "run" /\ exc = 0
Becomes(t) == th' = t /\ UNCHANGED <<exc, status>>

\* The thread is done or, as in UJ_ERR_STACK_SPACE, the program stops: nothing of
\* the stack is used again.
Ends(s) == th' = [PopTo(th, 0) EXCEPT !.base = 0] /\ status' = s /\ exc' = 0
StackSpace == Ends("error")

PushNumber ==
  /\ Ready
  /\ IF Full(th) THEN StackSpace ELSE Becomes(Push(th, NoWord, FALSE))

PushRef(v) ==
  /\ Ready /\ v \in Ref
  /\ IF Full(th) THEN StackSpace ELSE Becomes(Push(th, Word(v), TRUE))

PopOperand == Ready /\ Operands(1) /\ Becomes(Pop(th))

\* iload, aload: the instruction says what is pushed; verified code loads what
\* was stored.
Load(k) ==
  /\ Ready /\ k \in 0..(Locals - 1)
  /\ IF Full(th) THEN StackSpace
     ELSE IF th.bits[th.base + k]
     THEN Becomes(Push(th, th.stack[th.base + k], TRUE))
     ELSE Becomes(Push(th, NoWord, FALSE))

Store(k) ==
  /\ Ready /\ k \in 0..(Locals - 1) /\ Operands(1)
  /\ Becomes(LocalStore(Pop(th), k, Peek(th, 0), PeekBit(th, 0)))

\* dup, dup_x1, dup_x2, dup2, dup2_x1, dup2_x2
Dup(n, m) ==
  /\ Ready /\ n \in 1..2 /\ m \in 0..2 /\ Operands(n + m)
  /\ IF DupFits(th, n) THEN Becomes(DupOf(th, n, m)) ELSE StackSpace

Jump(p) == Ready /\ p \in Site /\ Becomes([th EXCEPT !.pc = p])

\* ujThreadPrvInvoke: the parameters are moved up to make room for the return
\* information, sp is set below them, and they are local variables.
Called(m) ==
  LET n == Info[m].params
      s == [Shift(th, RET, n - RET) EXCEPT !.sp = @ - n]
  IN  [PushRetInfo(s) EXCEPT !.sync = Info[m].isSync]

Invoke(m) ==
  LET n == Info[m].params
      o == IF Info[m].isStatic THEN 0 ELSE Peek(th, n - 1)[1]
  IN  /\ Ready /\ Operands(n)
      /\ IF ~Info[m].isStatic /\ (~PeekBit(th, n - 1) \/ o = 0)
         THEN Ends("error")
         ELSE IF DupFits(th, RET) /\ GotoFits(Called(m), m)
         THEN Becomes(Goto(Called(m), m, o))
         ELSE StackSpace

\* return; from the first method it ends the thread.
Return ==
  /\ Ready
  /\ IF th.base = 0
     THEN Ends("done")
     ELSE Becomes(Ret(th))

\* ireturn, areturn: pop, return, push again.
ReturnValue ==
  /\ Ready /\ Operands(1) /\ th.base # 0
  /\ Becomes(Push(Ret(Pop(th)), Peek(th, 0), PeekBit(th, 0)))

\* athrow enters ujThreadPrvThrow; null, as in UJ_ERR_NULL_POINTER, stops the program.
Throw ==
  /\ Ready /\ Operands(1) /\ PeekBit(th, 0)
  /\ IF Peek(th, 0)[1] = 0 THEN Ends("error")
     ELSE exc' = Peek(th, 0)[1] /\ th' = Pop(th) /\ UNCHANGED status

\* One iteration of its loop: operands are dropped and the exception pushed; then
\* a handler of this frame is found, or the frame is left.
\* (Mutant: the operands stay.)
Caught_KeepsOperands(t) == Push(t, Word(exc), TRUE)

Caught(t) == Push(PopTo(t, t.base + Info[t.method].locals), Word(exc), TRUE)

CaughtFits(t) == t.base + Info[t.method].locals < LIMIT

Catch(p) ==
  /\ status = "run" /\ exc # 0 /\ p \in Site
  /\ CaughtFits(th)
  /\ th' = [Caught(th) EXCEPT !.pc = p]
  /\ exc' = 0 /\ UNCHANGED status

\* (Mutant: the frame is not left.)
Unwind_Stays ==
  /\ status = "run" /\ exc # 0
  /\ IF ~CaughtFits(th) THEN StackSpace
     ELSE IF th.base = 0
     THEN Ends("done")
     ELSE th' = Caught(th) /\ UNCHANGED <<exc, status>>

Unwind ==
  /\ status = "run" /\ exc # 0
  /\ IF ~CaughtFits(th) THEN StackSpace
     ELSE IF th.base = 0
     THEN Ends("done")
     ELSE th' = Ret(Caught(th)) /\ UNCHANGED <<exc, status>>

Next ==
  \/ PushNumber
  \/ \E v \in Ref : PushRef(v)
  \/ PopOperand
  \/ \E k \in Index : Load(k) \/ Store(k)
  \/ \E n \in 1..2, m \in 0..2 : Dup(n, m)
  \/ \E p \in Site : Jump(p) \/ Catch(p)
  \/ \E m \in Method : Invoke(m)
  \/ Return \/ ReturnValue
  \/ Throw \/ Unwind

Spec == Init /\ [][Next]_vars

-----------------------------------------------------------------------------
(* Properties. *)

Thread ==
  [stack : [Index -> Int \X Int], bits : [Index -> BOOLEAN],
   sp : 0..LIMIT, base : 0..LIMIT, hasInst : BOOLEAN, sync : BOOLEAN,
   cls : Int, inst : Ref, method : Method, pc : Site]

TypeOK ==
  /\ th \in Thread /\ th.base <= th.sp
  /\ exc \in Ref
  /\ status \in {"run", "done", "error"}

\* A reference bit is only set on a slot below the top that holds a handle or null:
\* the collector, which believes the bits, never takes a number, return
\* information or what a popped frame left behind for a reference.
BitsNameHandles ==
  status = "run" =>
    \A k \in Index : th.bits[k] => k < th.sp /\ th.stack[k] \in {Word(v) : v \in Ref}

\* Every turn of the loop in ujThreadPrvThrow that finds no handler goes to a frame
\* strictly below: the loop, which has no other bound, ends in a handler or at the
\* bottom of the stack.
UnwindingDescends == [][exc # 0 /\ exc' # 0 => th'.base < th.base]_vars

\* What the comments on ujThreadPushRetInfo ("push all that we need to come back
\* here using a return") and ujThreadPrvRet ("the opposite of the above") say: a
\* method always runs with its own class, back from a call as well.
RunsInItsClass == status = "run" => th.cls = Info[th.method].cls

\* The stack as frames.  Its slots from a base up to the next return information, or
\* to the top, are those of one frame.
Slots(t, base, sp) ==
  [k \in 1..(sp - base) |->
     LET i == base + k - 1 IN IF t.bits[i] THEN t.stack[i][1] ELSE Number]

\* Below a base, at base - RET, is what its method was called with.
CallerBase(t, base) == t.stack[base - 2][1]
Caller(t, base) ==
  LET flags == t.stack[base - 1][1]
  IN  [this |-> IF FlagInst(flags) THEN t.stack[base - 3][1] ELSE 0,
       method |-> t.stack[base - 1][2], pc |-> t.stack[base - 2][2], sync |-> FlagSync(flags),
       slots |-> Slots(t, CallerBase(t, base), base - RET)]

\* The frames below a base, down to base 0.
Callers(t) ==
  LET below[base \in 0..LIMIT] ==
        IF base >= RET /\ CallerBase(t, base) \in 0..(base - RET)
        THEN Append(below[CallerBase(t, base)], Caller(t, base))
        ELSE <<>>
  IN  below

Running(t) ==
  [this |-> IF t.hasInst THEN t.inst ELSE 0, method |-> t.method, pc |-> t.pc,
   sync |-> t.sync, slots |-> Slots(t, t.base, t.sp)]

StackOfFrames(t) == Append(Callers(t)[t.base], Running(t))

Abstract == INSTANCE JavaFrames
              WITH frames <- IF status = "run" THEN StackOfFrames(th) ELSE <<>>

\* Every instruction does to the packed stack what the Java machine does to its
\* frames: a call's arguments become its local variables and nothing else does, a
\* return brings back this, pc, the flags and every slot of the caller, and
\* unwinding keeps the handler's local variables.
FramesSpec == Abstract!FramesSpec

=============================================================================
