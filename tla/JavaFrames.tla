------------------------------ MODULE JavaFrames ------------------------------
(***************************************************************************)
(* The stack of one Java thread as the Java machine has it: a sequence of  *)
(* frames, each with the object its method was called on and its own       *)
(* slots, first the local variables, then the operands.  Numbers are not   *)
(* told apart; a reference slot holds a handle or 0.                       *)
(***************************************************************************)
EXTENDS Integers, Sequences, SequencesExt

CONSTANTS
  Object,    \* handles of instances
  Method,    \* methods
  Info,      \* method -> params, locals, isStatic, isSync, cls
  Site       \* positions in a method; 0 is its start

VARIABLES
  frames,    \* the frames, the running one last
  exc,       \* the exception that is being thrown, or 0
  status     \* "run", "done" or "error"

Number == -1
Ref == Object \cup {0}
Value == Ref \cup {Number}

Frame(o, m, p, s, v) == [this |-> o, method |-> m, pc |-> p, sync |-> s, slots |-> v]

\* Where a thread begins: main(), or run() of object o.
Start(o, m) ==
  Frame(o, m, 0, FALSE, [k \in 1..Info[m].locals |-> IF k = 1 /\ o # 0 THEN o ELSE Number])

Starts(o, m) == IF o = 0 THEN Info[m].isStatic ELSE ~Info[m].isStatic

FramesInit ==
  /\ \E o \in Ref, m \in Method :
       Starts(o, m) /\ Info[m].params <= 1 /\ frames = <<Start(o, m)>>
  /\ exc = 0 /\ status = "run"

-----------------------------------------------------------------------------

Top == Last(frames)
NumLocals == Info[Top.method].locals
Slots == Top.slots
Operands(n) == Len(Slots) >= NumLocals + n

WithSlots(v) == Append(Front(frames), [Top EXCEPT !.slots = v])
Drop(n) == SubSeq(Slots, 1, Len(Slots) - n)
LastOf(n) == SubSeq(Slots, Len(Slots) - n + 1, Len(Slots))

Ready == status = "run" /\ exc = 0
Keep == UNCHANGED <<exc, status>>

Push(v) == Ready /\ frames' = WithSlots(Append(Slots, v)) /\ Keep

Pop == Ready /\ Operands(1) /\ frames' = WithSlots(Drop(1)) /\ Keep

Load(k) == Ready /\ k \in 1..NumLocals /\ Push(Slots[k])

Store(k) ==
  /\ Ready /\ Operands(1) /\ k \in 1..NumLocals
  /\ frames' = WithSlots([Drop(1) EXCEPT ![k] = Last(Slots)])
  /\ Keep

\* The dup family: n operands are inserted again below the m others under them.
Dup(n, m) ==
  /\ Ready /\ Operands(n + m)
  /\ frames' = WithSlots(Drop(n + m) \o LastOf(n) \o LastOf(n + m))
  /\ Keep

Jump(p) == Ready /\ frames' = Append(Front(frames), [Top EXCEPT !.pc = p]) /\ Keep

\* The parameters become the first local variables of a new frame.
Invoke(m) ==
  LET n == Info[m].params
      a == LastOf(n)
      o == IF Info[m].isStatic THEN 0 ELSE a[1]
  IN  /\ Ready /\ Operands(n)
      /\ Info[m].isStatic \/ o \in Object
      /\ frames' = WithSlots(Drop(n)) \o
           <<Frame(o, m, 0, Info[m].isSync,
                   a \o [k \in 1..(Info[m].locals - n) |-> Number])>>
      /\ Keep

Return ==
  /\ Ready /\ Len(frames) > 1
  /\ frames' = Front(frames)
  /\ Keep

ReturnValue ==
  LET caller == Front(frames)
  IN  /\ Ready /\ Len(frames) > 1 /\ Operands(1)
      /\ frames' = Append(Front(caller),
                          [Last(caller) EXCEPT !.slots = Append(@, Last(Slots))])
      /\ Keep

Throw ==
  /\ Ready /\ Operands(1) /\ Last(Slots) \in Object
  /\ exc' = Last(Slots) /\ frames' = WithSlots(Drop(1))
  /\ UNCHANGED status

\* The running frame handles the exception ...
Catch(p) ==
  /\ status = "run" /\ exc # 0
  /\ frames' = Append(Front(frames),
                      [Top EXCEPT !.slots = Append(SubSeq(Slots, 1, NumLocals), exc),
                                  !.pc = p])
  /\ exc' = 0 /\ UNCHANGED status

\* ... or is left.
Unwind ==
  /\ status = "run" /\ exc # 0 /\ Len(frames) > 1
  /\ frames' = Front(frames)
  /\ UNCHANGED <<exc, status>>

\* The thread ends, or memory for its stack does.
Stop(s) == status = "run" /\ frames' = <<>> /\ exc' = 0 /\ status' = s

FramesNext ==
  \/ \E v \in Value : Push(v)
  \/ Pop
  \/ \E k \in 1..Len(Slots) : Load(k) \/ Store(k)
  \/ \E n, m \in 0..2 : Dup(n, m)
  \/ \E p \in Site : Jump(p) \/ Catch(p)
  \/ \E m \in Method : Invoke(m)
  \/ Return \/ ReturnValue \/ Throw \/ Unwind
  \/ \E s \in {"done", "error"} : Stop(s)

FramesSpec == FramesInit /\ [][FramesNext]_<<frames, exc, status>>
==============================================================================
