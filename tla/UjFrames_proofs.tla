---------------------------- MODULE UjFrames_proofs ----------------------------
(***************************************************************************)
(* Proofs about UjFrames, for a stack of any size, any methods and objects *)
(* and any verified bytecode: that reference bits are right, that an       *)
(* exception unwinds towards the bottom of the stack, and that the packed  *)
(* stack implements JavaFrames.                                            *)
(***************************************************************************)
EXTENDS UjFrames, Recursion, SequenceTheorems, TLAPS

Pair == Int \X Int
RefWord == {Word(v) : v \in Ref}

\* A reference bit is set on references below the top only.
BitsRight(t) == \A k \in Index : t.bits[k] => k < t.sp /\ t.stack[k] \in RefWord

\* u has what t has, but for the stack, its bits and its top.
SameMethod(t, u) ==
  /\ u.base = t.base /\ u.hasInst = t.hasInst /\ u.sync = t.sync /\ u.cls = t.cls
  /\ u.inst = t.inst /\ u.method = t.method /\ u.pc = t.pc

\* Below n nothing has been written.
SameBelow(t, u, n) == \A k \in Index : k < n => u.stack[k] = t.stack[k]

-----------------------------------------------------------------------------
(* The primitives of the stack. *)

\* What is written into a stack is a word.
LEMMA Words == /\ NoWord \in Pair
               /\ \A v \in Ref : Word(v) \in RefWord /\ Word(v) \in Pair
               /\ RefWord \subseteq Pair
               /\ \A n \in Int : Word(n) \in Pair
BY UjFramesAssumption DEF NoWord, Number, Word, RefWord, Pair, Ref

\* Push writes the slot at the top, and moves the top.
LEMMA PushFields ==
  ASSUME NEW t \in Thread, t.sp < LIMIT, NEW w \in Pair, NEW r \in BOOLEAN
  PROVE  /\ Push(t, w, r) \in Thread
         /\ SameMethod(t, Push(t, w, r))
         /\ Push(t, w, r).sp = t.sp + 1
         /\ t.sp \in Index
         /\ \A k \in Index :
              /\ Push(t, w, r).stack[k] = IF k = t.sp THEN w ELSE t.stack[k]
              /\ Push(t, w, r).bits[k] = IF k = t.sp THEN t.bits[k] \/ r ELSE t.bits[k]
<1> DEFINE u == Push(t, w, r)
<1>1. /\ t.sp \in Index /\ t.sp + 1 \in 0..LIMIT /\ t.sp \in Int
      /\ t.stack \in [Index -> Pair] /\ t.bits \in [Index -> BOOLEAN]
  BY UjFramesAssumption DEF Thread, Index, Pair
<1>2. /\ u.stack = [t.stack EXCEPT ![t.sp] = w]
      /\ u.bits = [t.bits EXCEPT ![t.sp] = @ \/ r]
      /\ u.sp = t.sp + 1
      /\ SameMethod(t, u)
  BY DEF Push, Thread, SameMethod
<1>3. u \in Thread
  <2>1. u.stack \in [Index -> Pair] /\ u.bits \in [Index -> BOOLEAN]
    BY <1>1, <1>2
  <2>2. u = [t EXCEPT !.stack = u.stack, !.bits = u.bits, !.sp = u.sp]
    BY <1>2 DEF Push, Thread
  <2> HIDE DEF u
  <2> QED BY <1>1, <1>2, <2>1, <2>2 DEF Thread, Pair
<1> HIDE DEF u
<1>4. \A k \in Index : /\ u.stack[k] = IF k = t.sp THEN w ELSE t.stack[k]
                       /\ u.bits[k] = IF k = t.sp THEN t.bits[k] \/ r ELSE t.bits[k]
  BY <1>1, <1>2
<1> QED BY <1>1, <1>2, <1>3, <1>4 DEF u

\* It keeps the bits right, though it does not clear the bit of a number: above the top
\* there is none.
LEMMA PushOK ==
  ASSUME NEW t \in Thread, BitsRight(t), t.sp < LIMIT,
         NEW w \in Pair, NEW r \in BOOLEAN, r => w \in RefWord
  PROVE  /\ Push(t, w, r) \in Thread
         /\ BitsRight(Push(t, w, r))
         /\ SameMethod(t, Push(t, w, r))
         /\ Push(t, w, r).sp = t.sp + 1
         /\ SameBelow(t, Push(t, w, r), t.sp)
<1> DEFINE u == Push(t, w, r)
<1>1. /\ u \in Thread /\ SameMethod(t, u) /\ u.sp = t.sp + 1 /\ t.sp \in Index
      /\ \A k \in Index : /\ u.stack[k] = IF k = t.sp THEN w ELSE t.stack[k]
                          /\ u.bits[k] = IF k = t.sp THEN t.bits[k] \/ r ELSE t.bits[k]
  BY PushFields
<1> HIDE DEF u
<1>2. t.sp \in Int
  BY <1>1 DEF Index
<1>3. BitsRight(u)
  <2> SUFFICES ASSUME NEW k \in Index, u.bits[k] PROVE k < u.sp /\ u.stack[k] \in RefWord
    BY DEF BitsRight
  <2>1. CASE k = t.sp
    BY <1>1, <1>2, <2>1 DEF BitsRight
  <2>2. CASE k # t.sp
    BY <1>1, <1>2, <2>2 DEF BitsRight, Index
  <2> QED BY <2>1, <2>2
<1>4. SameBelow(t, u, t.sp)
  BY <1>1, <1>2 DEF SameBelow, Index
<1> QED BY <1>1, <1>3, <1>4 DEF u

\* Popping down to s keeps the bits right and what is below s.
LEMMA PopToOK ==
  ASSUME NEW t \in Thread, BitsRight(t), NEW s \in 0..LIMIT, s <= t.sp
  PROVE  /\ PopTo(t, s) \in Thread
         /\ BitsRight(PopTo(t, s))
         /\ SameMethod(t, PopTo(t, s))
         /\ PopTo(t, s).sp = s
         /\ SameBelow(t, PopTo(t, s), s)
<1> DEFINE u == PopTo(t, s)
<1>1. /\ t.stack \in [Index -> Pair] /\ t.bits \in [Index -> BOOLEAN] /\ t.sp \in 0..LIMIT
      /\ s \in Int /\ t.sp \in Int
  BY UjFramesAssumption DEF Thread, Pair
<1>2. /\ u.stack = [k \in Index |-> IF k < s THEN t.stack[k] ELSE NoWord]
      /\ u.bits = [k \in Index |-> t.bits[k] /\ k \notin s..(t.sp - 1)]
      /\ u.sp = s
      /\ SameMethod(t, u)
  BY DEF PopTo, Thread, SameMethod
<1>3. u \in Thread
  <2>1. u.stack \in [Index -> Pair] /\ u.bits \in [Index -> BOOLEAN]
    BY <1>1, <1>2, Words
  <2>2. u = [t EXCEPT !.stack = u.stack, !.bits = u.bits, !.sp = u.sp]
    BY <1>2 DEF PopTo, Thread
  <2> HIDE DEF u
  <2> QED BY <1>1, <1>2, <2>1, <2>2 DEF Thread, Pair
<1> HIDE DEF u
<1>4. \A k \in Index : k \in Int /\ u.bits[k] = (t.bits[k] /\ k \notin s..(t.sp - 1))
                       /\ (k < s => u.stack[k] = t.stack[k])
  BY <1>1, <1>2 DEF Index
<1>5. BitsRight(u)
  <2> SUFFICES ASSUME NEW k \in Index, u.bits[k] PROVE k < u.sp /\ u.stack[k] \in RefWord
    BY DEF BitsRight
  <2>1. t.bits[k] /\ k < t.sp /\ t.stack[k] \in RefWord /\ k < s
    <3>1. t.bits[k] /\ k \notin s..(t.sp - 1)
      BY <1>4
    <3>2. k < t.sp /\ t.stack[k] \in RefWord
      BY <3>1 DEF BitsRight
    <3>3. k < s
      BY <1>1, <1>4, <3>1, <3>2
    <3> QED BY <3>1, <3>2, <3>3
  <2> QED BY <1>2, <1>4, <2>1
<1> QED BY <1>2, <1>3, <1>4, <1>5 DEF u, SameBelow

\* So does Pop; a bit that is set belongs to a reference that was popped.
LEMMA PopOK ==
  ASSUME NEW t \in Thread, BitsRight(t), t.sp > 0
  PROVE  /\ Pop(t) \in Thread
         /\ BitsRight(Pop(t))
         /\ SameMethod(t, Pop(t))
         /\ Pop(t).sp = t.sp - 1
         /\ SameBelow(t, Pop(t), t.sp - 1)
         /\ Peek(t, 0) \in Pair /\ PeekBit(t, 0) \in BOOLEAN
         /\ PeekBit(t, 0) => Peek(t, 0) \in RefWord
<1> DEFINE u == Pop(t)
           p == t.sp - 1
<1>1. /\ p \in Index /\ p \in 0..LIMIT /\ p \in Int /\ t.sp \in Int
      /\ t.stack \in [Index -> Pair] /\ t.bits \in [Index -> BOOLEAN]
  BY UjFramesAssumption DEF Thread, Index, Pair
<1>2. /\ u.stack = [t.stack EXCEPT ![p] = NoWord]
      /\ u.bits = [t.bits EXCEPT ![p] = FALSE]
      /\ u.sp = p
      /\ SameMethod(t, u)
  BY DEF Pop, Thread, SameMethod
<1>3. u \in Thread
  <2>1. u.stack \in [Index -> Pair] /\ u.bits \in [Index -> BOOLEAN]
    BY <1>1, <1>2, Words
  <2>2. u = [t EXCEPT !.stack = u.stack, !.bits = u.bits, !.sp = u.sp]
    BY <1>2 DEF Pop, Thread
  <2> HIDE DEF u, p
  <2> QED BY <1>1, <1>2, <2>1, <2>2 DEF Thread, Pair
<1>4. Peek(t, 0) = t.stack[p] /\ PeekBit(t, 0) = t.bits[p]
  <2>1. t.sp - (0 + 1) = p
    BY <1>1
  <2> QED BY <2>1 DEF Peek, PeekBit
<1> HIDE DEF u
<1>5. BitsRight(u)
  <2> SUFFICES ASSUME NEW k \in Index, u.bits[k] PROVE k < u.sp /\ u.stack[k] \in RefWord
    BY DEF BitsRight
  <2>1. k # p /\ t.bits[k] /\ u.stack[k] = t.stack[k]
    BY <1>1, <1>2
  <2>2. k < t.sp /\ t.stack[k] \in RefWord
    BY <2>1 DEF BitsRight
  <2> QED BY <1>1, <1>2, <2>1, <2>2 DEF Index
<1>6. SameBelow(t, u, p)
  BY <1>1, <1>2 DEF SameBelow, Index
<1> QED BY <1>1, <1>2, <1>3, <1>4, <1>5, <1>6 DEF u, BitsRight

\* A local variable gets the word and the bit of what is stored in it.
LEMMA LocalStoreOK ==
  ASSUME NEW t \in Thread, BitsRight(t), NEW k \in Nat, t.base + k < t.sp,
         NEW w \in Pair, NEW r \in BOOLEAN, r => w \in RefWord
  PROVE  /\ LocalStore(t, k, w, r) \in Thread
         /\ BitsRight(LocalStore(t, k, w, r))
         /\ SameMethod(t, LocalStore(t, k, w, r))
         /\ LocalStore(t, k, w, r).sp = t.sp
         /\ SameBelow(t, LocalStore(t, k, w, r), t.base)
<1> DEFINE u == LocalStore(t, k, w, r)
           p == t.base + k
<1>1. /\ p \in Index /\ p \in Int /\ t.sp \in Int /\ t.base \in Int /\ t.base <= p /\ p < t.sp
      /\ t.stack \in [Index -> Pair] /\ t.bits \in [Index -> BOOLEAN]
  BY UjFramesAssumption DEF Thread, Index, Pair
<1>2. /\ u.stack = [t.stack EXCEPT ![p] = w]
      /\ u.bits = [t.bits EXCEPT ![p] = r]
      /\ u.sp = t.sp
      /\ SameMethod(t, u)
  BY DEF LocalStore, Thread, SameMethod
<1>3. u \in Thread
  <2>1. u.stack \in [Index -> Pair] /\ u.bits \in [Index -> BOOLEAN]
    BY <1>1, <1>2
  <2>2. u = [t EXCEPT !.stack = u.stack, !.bits = u.bits]
    BY <1>2 DEF LocalStore, Thread
  <2> HIDE DEF u, p
  <2> QED BY <2>1, <2>2 DEF Thread, Pair
<1> HIDE DEF u, p
<1>4. \A j \in Index : /\ u.stack[j] = IF j = p THEN w ELSE t.stack[j]
                       /\ u.bits[j] = IF j = p THEN r ELSE t.bits[j]
  BY <1>1, <1>2
<1>5. BitsRight(u)
  BY <1>1, <1>2, <1>4 DEF BitsRight
<1>6. SameBelow(t, u, t.base)
  BY <1>1, <1>4 DEF SameBelow, Index
<1> QED BY <1>2, <1>3, <1>5, <1>6 DEF u

\* The words that Shift moves, and the slots it leaves behind; when less than n words
\* are moved (m < 0) slots above the old top remain, whose bits are clear.
LEMMA ShiftOK ==
  ASSUME NEW t \in Thread, BitsRight(t), NEW n \in Nat, NEW m \in Int, n + m >= 0,
         n + m <= t.sp, t.sp + n <= LIMIT
  PROVE  /\ Shift(t, n, m) \in Thread
         /\ SameMethod(t, Shift(t, n, m))
         /\ Shift(t, n, m).sp = t.sp
         /\ SameBelow(t, Shift(t, n, m), t.sp - (n + m))
         /\ \A k \in Index :
              LET u == Shift(t, n, m) IN
              /\ k \in MovedTo(t, n, m) =>
                   k - n \in Index /\ u.stack[k] = t.stack[k - n] /\ u.bits[k] = t.bits[k - n]
              /\ k \notin MovedTo(t, n, m) =>
                   /\ u.stack[k] = t.stack[k]
                   /\ u.bits[k] = (t.bits[k] /\ k < t.sp - (n + m))
<1> DEFINE u == Shift(t, n, m)
           M == MovedTo(t, n, m)
<1>1. /\ t.stack \in [Index -> Pair] /\ t.bits \in [Index -> BOOLEAN]
      /\ t.sp \in 0..LIMIT /\ t.sp \in Int /\ LIMIT \in Nat
  BY UjFramesAssumption DEF Thread, Pair
<1>2. M = (t.sp - m)..(t.sp + n - 1)
  BY DEF MovedTo
<1>3. \A k \in M : k \in Index /\ k - n \in Index
  BY <1>1, <1>2 DEF Index
<1>4. /\ u.stack = [k \in Index |-> IF k \in M THEN t.stack[k - n] ELSE t.stack[k]]
      /\ u.bits = [k \in Index |-> IF k \in M THEN t.bits[k - n]
                                   ELSE t.bits[k] /\ k \notin LeftBy(t, n, m)]
      /\ u.sp = t.sp
      /\ SameMethod(t, u)
  BY DEF Shift, Thread, SameMethod
<1> HIDE DEF M
<1>5. u \in Thread
  <2>1. u.stack \in [Index -> Pair] /\ u.bits \in [Index -> BOOLEAN]
    BY <1>1, <1>3, <1>4
  <2>2. u = [t EXCEPT !.stack = u.stack, !.bits = u.bits]
    BY <1>4 DEF Shift, Thread
  <2> HIDE DEF u
  <2> QED BY <2>1, <2>2 DEF Thread, Pair
<1> HIDE DEF u
<1>6. ASSUME NEW k \in Index, k \notin M
      PROVE  u.stack[k] = t.stack[k] /\ u.bits[k] = (t.bits[k] /\ k < t.sp - (n + m))
  <2>1. u.stack[k] = t.stack[k] /\ u.bits[k] = (t.bits[k] /\ k \notin LeftBy(t, n, m))
    BY <1>4, <1>6
  <2>2. t.bits[k] => k < t.sp
    BY DEF BitsRight
  <2>3. k < t.sp => (k \notin LeftBy(t, n, m) <=> k < t.sp - (n + m))
    BY <1>1, <1>2, <1>6 DEF LeftBy, Index, M
  <2>4. k < t.sp - (n + m) => k < t.sp
    BY <1>1 DEF Index
  <2> QED BY <2>1, <2>2, <2>3, <2>4
<1>7. SameBelow(t, u, t.sp - (n + m))
  BY <1>1, <1>2, <1>4 DEF SameBelow, Index
<1> QED BY <1>3, <1>4, <1>5, <1>6, <1>7 DEF u, M

\* All six dups move words and copy words with their bits.
LEMMA DupOK ==
  ASSUME NEW t \in Thread, BitsRight(t), NEW n \in 1..2, NEW m \in 0..2,
         n + m <= t.sp, t.sp + n <= LIMIT
  PROVE  /\ DupOf(t, n, m) \in Thread
         /\ BitsRight(DupOf(t, n, m))
         /\ SameMethod(t, DupOf(t, n, m))
         /\ DupOf(t, n, m).sp = t.sp + n
         /\ SameBelow(t, DupOf(t, n, m), t.sp - (n + m))
         /\ \A k \in Index :
              LET u == DupOf(t, n, m) IN
              /\ k < t.sp - (n + m) => u.stack[k] = t.stack[k] /\ u.bits[k] = t.bits[k]
              /\ k \in (t.sp - (n + m))..(t.sp - m - 1) =>
                   k + m \in Index /\ u.stack[k] = t.stack[k + m] /\ u.bits[k] = t.bits[k + m]
              /\ k \in (t.sp - m)..(t.sp + n - 1) =>
                   k - n \in Index /\ u.stack[k] = t.stack[k - n] /\ u.bits[k] = t.bits[k - n]
<1> DEFINE s == Shift(t, n, m)
           H == LeftBy(t, n, m)
           M == MovedTo(t, n, m)
           u == DupOf(t, n, m)
<1>1. /\ t.sp \in Int /\ LIMIT \in Nat /\ n \in Nat /\ m \in Int /\ n + m >= 0
      /\ t.bits \in [Index -> BOOLEAN] /\ t.sp \in 0..LIMIT /\ t.sp + n \in 0..LIMIT
  BY UjFramesAssumption DEF Thread
<1>2. /\ s \in Thread /\ SameMethod(t, s) /\ s.sp = t.sp
      /\ SameBelow(t, s, t.sp - (n + m))
      /\ \A k \in Index :
           /\ k \in M => k - n \in Index /\ s.stack[k] = t.stack[k - n] /\ s.bits[k] = t.bits[k - n]
           /\ k \notin M => /\ s.stack[k] = t.stack[k]
                            /\ s.bits[k] = (t.bits[k] /\ k < t.sp - (n + m))
  BY <1>1, ShiftOK
<1>3. M = (t.sp - m)..(t.sp + n - 1) /\ H = (t.sp - (n + m))..(t.sp - m - 1)
  <2>1. M = (t.sp - m)..(t.sp + n - 1)
    BY DEF MovedTo
  <2>2. H = ((t.sp - (n + m))..(t.sp - 1)) \ M
    BY DEF LeftBy
  <2> HIDE DEF H, M
  <2>3. \A k \in Int : k \in H <=> k \in (t.sp - (n + m))..(t.sp - m - 1)
    BY <1>1, <2>1, <2>2
  <2> QED BY <2>1, <2>2, <2>3
<1> HIDE DEF H, M
<1>4. /\ u.stack = [k \in Index |-> IF k \in H THEN s.stack[k + n + m] ELSE s.stack[k]]
      /\ u.bits = [k \in Index |-> IF k \in H THEN s.bits[k + n + m] ELSE s.bits[k]]
      /\ u.sp = s.sp + n
      /\ SameMethod(s, u)
      /\ u = [s EXCEPT !.stack = u.stack, !.bits = u.bits, !.sp = u.sp]
  <2>1. s \in Thread
    BY <1>2
  <2> HIDE DEF s
  <2>2. u = [s EXCEPT
               !.stack = [k \in Index |-> IF k \in H THEN s.stack[k + n + m] ELSE s.stack[k]],
               !.bits = [k \in Index |-> IF k \in H THEN s.bits[k + n + m] ELSE s.bits[k]],
               !.sp = s.sp + n]
    BY <2>1 DEF DupOf, s, H
  <2> HIDE DEF u
  <2> QED BY <2>1, <2>2 DEF Thread, SameMethod
<1> HIDE DEF s, u
<1>5. ASSUME NEW k \in Index, k \in H
      PROVE  /\ k + n + m \in Index /\ k + n + m \in M
             /\ k + m \in Index /\ (k + n + m) - n = k + m /\ k < t.sp + n
  <2>1. k \in Int /\ t.sp - (n + m) <= k /\ k <= t.sp - m - 1
    BY <1>1, <1>3, <1>5
  <2>2. 0 <= k + m /\ k + m < LIMIT /\ 0 <= k + n + m /\ k + n + m < LIMIT
    BY <1>1, <2>1
  <2>3. t.sp - m <= k + n + m /\ k + n + m <= t.sp + n - 1
    BY <1>1, <2>1
  <2>4. (k + n + m) - n = k + m /\ k < t.sp + n
    BY <1>1, <2>1
  <2>5. k + n + m \in M
    BY <1>1, <1>3, <2>1, <2>3
  <2> QED BY <1>1, <2>1, <2>2, <2>4, <2>5 DEF Index
<1>6. u \in Thread
  <2>1. u.stack \in [Index -> Pair] /\ u.bits \in [Index -> BOOLEAN]
    BY <1>2, <1>4, <1>5 DEF Thread, Pair
  <2>2. u.sp \in 0..LIMIT
    BY <1>1, <1>2, <1>4
  <2> QED BY <1>2, <1>4, <2>1, <2>2 DEF Thread, Pair
<1>7. ASSUME NEW k \in Index
      PROVE  /\ k \in H => u.stack[k] = t.stack[k + m] /\ u.bits[k] = t.bits[k + m]
             /\ k \in M => /\ k \notin H /\ k - n \in Index
                           /\ u.stack[k] = t.stack[k - n] /\ u.bits[k] = t.bits[k - n]
             /\ k \notin H /\ k \notin M =>
                  u.stack[k] = t.stack[k] /\ u.bits[k] = (t.bits[k] /\ k < t.sp - (n + m))
  <2>1. CASE k \in H
    <3>1. k \notin M
      BY <1>1, <1>3, <2>1
    <3> QED BY <1>2, <1>4, <1>5, <2>1, <3>1
  <2>2. CASE k \in M
    <3>1. k \notin H
      BY <1>1, <1>3, <2>2
    <3> QED BY <1>2, <1>4, <2>2, <3>1
  <2>3. CASE k \notin H /\ k \notin M
    BY <1>2, <1>4, <2>3
  <2> QED BY <2>1, <2>2, <2>3
<1>8. BitsRight(u)
  <2> SUFFICES ASSUME NEW k \in Index, u.bits[k] PROVE k < t.sp + n /\ u.stack[k] \in RefWord
    BY <1>2, <1>4 DEF BitsRight
  <2>1. CASE k \in H
    BY <1>5, <1>7, <2>1 DEF BitsRight
  <2>2. CASE k \in M
    <3>1. k < t.sp + n
      BY <1>1, <1>3, <2>2 DEF Index
    <3> QED BY <1>7, <2>2, <3>1 DEF BitsRight
  <2>3. CASE k \notin H /\ k \notin M
    <3>1. u.stack[k] = t.stack[k] /\ t.bits[k] /\ k < t.sp - (n + m)
      BY <1>7, <2>3
    <3>2. k < t.sp + n
      BY <1>1, <3>1 DEF Index
    <3> QED BY <3>1, <3>2 DEF BitsRight
  <2> QED BY <2>1, <2>2, <2>3
<1>9. ASSUME NEW k \in Index, k < t.sp - (n + m)
      PROVE  u.stack[k] = t.stack[k] /\ u.bits[k] = t.bits[k]
  <2>1. k \notin H /\ k \notin M
    <3>1. t.sp \in Int /\ n \in Nat /\ m \in Int /\ n + m >= 0 /\ k < t.sp - (n + m)
      BY <1>1, <1>9
    <3>2. k < t.sp - m /\ k \in Int
      BY <3>1 DEF Index
    <3>3. k \notin H
      BY <1>3, <3>1, <3>2
    <3>4. k \notin M
      BY <1>3, <3>1, <3>2
    <3> QED BY <3>3, <3>4
  <2>2. t.bits[k] \in BOOLEAN
    BY <1>1
  <2> QED BY <1>7, <1>9, <2>1, <2>2
<1>10. SameBelow(t, u, t.sp - (n + m))
  BY <1>9 DEF SameBelow
<1>11. SameMethod(t, u)
  BY <1>2, <1>4 DEF SameMethod
<1> QED BY <1>2, <1>3, <1>4, <1>5, <1>6, <1>7, <1>8, <1>9, <1>10, <1>11 DEF u

-----------------------------------------------------------------------------
(* Return information. *)

\* What is packed below base b, when B are the bases of all frames: flags and method,
\* base and pc of the caller, and its instance if it has one.  The caller's local
\* variables are below the return information.
RetInfo(t, b, B) ==
  /\ b >= RET
  /\ \E f \in 0..3, m \in Method, c \in B, p \in Site, w \in Int :
       /\ t.stack[b - 1] = <<f, m>>
       /\ t.stack[b - 2] = <<c, p>>
       /\ t.stack[b - 3] = Word(w)
       /\ c + Info[m].locals + RET <= b
       /\ FlagInst(f) => w \in Object

Chain(t, B) ==
  /\ B \subseteq Nat /\ t.base \in B
  /\ \A b \in B : b <= t.base /\ (b # 0 => RetInfo(t, b, B))

\* A thread that can go on.
Whole(t) ==
  /\ t \in Thread /\ BitsRight(t)
  /\ t.base + Info[t.method].locals <= t.sp
  /\ t.hasInst => t.inst \in Object
  /\ \E B : Chain(t, B)

\* What is packed below b does not change when nothing below b does.
LEMMA RetInfoKept ==
  ASSUME NEW t \in Thread, NEW u \in Thread, NEW B \in SUBSET Nat, NEW b \in B, b # 0,
         b <= t.base, RetInfo(t, b, B), SameBelow(t, u, b)
  PROVE  RetInfo(u, b, B)
<1>1. b \in Nat /\ t.base \in 0..LIMIT /\ LIMIT \in Nat /\ b >= 3
  BY UjFramesAssumption DEF Thread, RetInfo, RET
<1>2. b - 1 \in Index /\ b - 2 \in Index /\ b - 3 \in Index
  BY <1>1 DEF Index
<1>3. u.stack[b - 1] = t.stack[b - 1] /\ u.stack[b - 2] = t.stack[b - 2]
      /\ u.stack[b - 3] = t.stack[b - 3]
  BY <1>1, <1>2 DEF SameBelow
<1> QED BY <1>3 DEF RetInfo

\* An instruction that leaves what is below the base alone.
LEMMA WholeKept ==
  ASSUME NEW t, Whole(t), NEW u \in Thread, BitsRight(u),
         u.base = t.base, u.method = t.method, u.hasInst = t.hasInst, u.inst = t.inst,
         SameBelow(t, u, t.base), t.base + Info[t.method].locals <= u.sp
  PROVE  Whole(u)
<1>1. PICK B : Chain(t, B)
  BY DEF Whole
<1>2. t \in Thread /\ t.base \in Int
  BY UjFramesAssumption DEF Whole, Thread
<1>3. ASSUME NEW b \in B, b # 0 PROVE RetInfo(u, b, B)
  <2>1. b <= t.base /\ RetInfo(t, b, B) /\ b \in Nat /\ B \in SUBSET Nat
    BY <1>1, <1>3 DEF Chain
  <2>2. SameBelow(t, u, b)
    BY <1>2, <2>1 DEF SameBelow, Index
  <2> QED BY <1>2, <1>3, <2>1, <2>2, RetInfoKept
<1>4. Chain(u, B)
  BY <1>1, <1>3 DEF Chain
<1> QED BY <1>4 DEF Whole

\* Returning takes the thread to a lower base, with the local variables of the method
\* there on the stack.
LEMMA RetOK ==
  ASSUME NEW t \in Thread, BitsRight(t), t.base <= t.sp, t.base # 0,
         NEW B, Chain(t, B)
  PROVE  /\ Whole(Ret(t))
         /\ Ret(t).base < t.base
         /\ Ret(t).sp = t.base - RET
         /\ t.base - RET \in Nat
<1> DEFINE v == PopTo(t, t.base)
           w == PopTo(v, v.sp - RET)
           u == Ret(t)
           b == t.base
<1>1. /\ b \in 0..LIMIT /\ b \in Int /\ LIMIT \in Nat /\ b >= 3 /\ RetInfo(t, b, B) /\ b \in B
      /\ B \subseteq Nat
  <2>1. t.base \in 0..LIMIT /\ LIMIT \in Nat
    BY UjFramesAssumption DEF Thread
  <2>2. b \in B /\ B \subseteq Nat /\ RetInfo(t, b, B)
    BY DEF Chain
  <2>3. b >= 3
    BY <2>2 DEF RetInfo, RET
  <2> QED BY <2>1, <2>2, <2>3
<1>2. v \in Thread /\ BitsRight(v) /\ v.sp = b /\ SameBelow(t, v, b) /\ v.base = b
  BY <1>1, PopToOK DEF SameMethod
<1>3. PICK f \in 0..3, m \in Method, c \in B, p \in Site, x \in Int :
        /\ t.stack[b - 1] = <<f, m>>
        /\ t.stack[b - 2] = <<c, p>>
        /\ t.stack[b - 3] = Word(x)
        /\ c + Info[m].locals + RET <= b
        /\ FlagInst(f) => x \in Object
  BY <1>1 DEF RetInfo
<1> HIDE DEF v
<1>4. Peek(v, 0) = <<f, m>> /\ Peek(v, 1) = <<c, p>> /\ Peek(v, 2) = Word(x)
  <2>1. b - 1 \in Index /\ b - 2 \in Index /\ b - 3 \in Index
    BY <1>1 DEF Index
  <2>2. /\ v.sp - (0 + 1) = b - 1 /\ v.sp - (1 + 1) = b - 2 /\ v.sp - (2 + 1) = b - 3
        /\ b - 1 < b /\ b - 2 < b /\ b - 3 < b
    BY <1>1, <1>2
  <2> QED BY <1>2, <1>3, <2>1, <2>2 DEF Peek, SameBelow
<1>5. /\ w \in Thread /\ BitsRight(w) /\ w.sp = b - RET /\ SameBelow(v, w, b - RET)
      /\ b - RET \in Nat
  <2>1. v.sp - RET \in 0..LIMIT /\ v.sp - RET <= v.sp /\ v.sp - RET = b - RET /\ b - RET \in Nat
    BY <1>1, <1>2 DEF RET
  <2> QED BY <1>2, <2>1, PopToOK
<1> HIDE DEF w
<1>6. u = [w EXCEPT !.method = m, !.hasInst = FlagInst(f), !.sync = FlagSync(f),
                    !.base = c, !.pc = p,
                    !.inst = IF FlagInst(f) THEN x ELSE 0,
                    !.cls = IF FlagInst(f) THEN ClassOf[x] ELSE x]
  <2>1. <<f, m>>[1] = f /\ <<f, m>>[2] = m /\ <<c, p>>[1] = c /\ <<c, p>>[2] = p /\ Word(x)[1] = x
    BY DEF Word
  <2> QED BY <1>4, <2>1 DEF Ret, v, w
<1>7. c \in Nat /\ c \in 0..LIMIT /\ Info[m].locals \in Nat /\ c < b
  BY <1>1, <1>3, UjFramesAssumption DEF RET
<1>8. /\ FlagInst(f) \in BOOLEAN /\ FlagSync(f) \in BOOLEAN
      /\ (IF FlagInst(f) THEN x ELSE 0) \in Ref
      /\ (IF FlagInst(f) THEN ClassOf[x] ELSE x) \in Int
  BY <1>3, UjFramesAssumption DEF FlagInst, FlagSync, Ref
<1> HIDE DEF u
<1>9. u \in Thread
  BY <1>5, <1>6, <1>7, <1>8 DEF Thread
<1>10. /\ u.stack = w.stack /\ u.bits = w.bits /\ u.sp = w.sp /\ u.base = c /\ u.method = m
       /\ u.hasInst = FlagInst(f) /\ u.inst = IF FlagInst(f) THEN x ELSE 0
  BY <1>5, <1>6 DEF Thread
<1>11. BitsRight(u)
  BY <1>5, <1>10 DEF BitsRight
<1>12. c + Info[m].locals <= u.sp
  BY <1>1, <1>3, <1>5, <1>7, <1>10 DEF RET
<1> DEFINE C == {d \in B : d <= c}
<1>13. Chain(u, C)
  <2>1. C \subseteq Nat /\ c \in C
    <3>1. c \in B /\ c <= c
      BY <1>7
    <3> QED BY <1>1, <3>1
  <2>2. ASSUME NEW d \in C, d # 0 PROVE RetInfo(u, d, C)
    <3>1. d \in B /\ d <= c /\ d \in Nat /\ RetInfo(t, d, B)
      BY <1>1, <2>2 DEF Chain
    <3>2. SameBelow(t, u, d)
      <4>1. \A k \in Index : k < d => k < b - RET /\ k < b
        BY <1>1, <1>3, <1>7, <3>1 DEF Index, RET
      <4> QED BY <1>2, <1>5, <1>10, <4>1 DEF SameBelow
    <3>3. RetInfo(u, d, B)
      BY <1>1, <1>7, <1>9, <2>2, <3>1, <3>2, RetInfoKept
    <3>4. ASSUME NEW q \in B, NEW y \in Method, q + Info[y].locals + RET <= d PROVE q \in C
      BY <1>1, <1>7, <3>1, <3>4, UjFramesAssumption DEF RET
    <3> QED BY <3>3, <3>4 DEF RetInfo
  <2> QED BY <1>10, <2>1, <2>2 DEF Chain
<1>14. u.hasInst => u.inst \in Object
  BY <1>3, <1>10
<1> QED BY <1>5, <1>7, <1>9, <1>10, <1>11, <1>12, <1>13, <1>14 DEF Whole, u

\* hasInst survives being packed into flags.
LEMMA FlagsPacked ==
  ASSUME NEW h \in BOOLEAN, NEW y \in BOOLEAN
  PROVE  Flags(h, y) \in 0..3 /\ FlagInst(Flags(h, y)) = h
<1>1. (0 % 2 = 0) /\ (1 % 2 = 1) /\ (2 % 2 = 0) /\ (3 % 2 = 1)
  OBVIOUS
<1>2. FlagInst(1) /\ FlagInst(3) /\ ~FlagInst(0) /\ ~FlagInst(2)
  BY <1>1 DEF FlagInst
<1>3. CASE h
  <2>1. Flags(h, y) \in {1, 3}
    BY <1>3 DEF Flags
  <2>2. Flags(h, y) \in 0..3
    BY <2>1
  <2>3. FlagInst(Flags(h, y)) = TRUE
    BY <1>2, <2>1 DEF FlagInst
  <2>4. h = TRUE
    BY <1>3
  <2> QED BY <2>2, <2>3, <2>4, Zenon
<1>4. CASE ~h
  <2>1. Flags(h, y) \in {0, 2}
    BY <1>4 DEF Flags
  <2>2. Flags(h, y) \in 0..3
    BY <2>1
  <2>3. FlagInst(Flags(h, y)) = FALSE
    BY <1>2, <2>1 DEF FlagInst
  <2>4. h = FALSE
    BY <1>4
  <2> QED BY <2>2, <2>3, <2>4, Zenon
<1> QED BY <1>3, <1>4

\* What a call of m on o has written: the return information is where the parameters
\* were, they have moved up, and nothing but numbers is above them.
CallWritten(u, m, o) ==
  LET low == th.sp - Info[m].params
  IN  /\ u.base = low + 3 /\ u.sp = low + 3 + Info[m].locals /\ u.method = m /\ u.pc = 0
      /\ u.sync = Info[m].isSync /\ u.hasInst = (o # 0) /\ u.inst = o
      /\ \A k \in Index :
           /\ k < low => u.stack[k] = th.stack[k] /\ u.bits[k] = th.bits[k]
           /\ k = low => u.stack[k] = IF th.hasInst THEN Word(th.inst) ELSE Word(th.cls)
           /\ k = low + 1 => u.stack[k] = <<th.base, th.pc>>
           /\ k = low + 2 => u.stack[k] = <<Flags(th.hasInst, th.sync), th.method>>
           /\ k \in (low + 3)..(th.sp + 2) =>
                k - 3 \in Index /\ u.stack[k] = th.stack[k - 3] /\ u.bits[k] = th.bits[k - 3]
           /\ k > th.sp + 2 => ~u.bits[k]

\* The stack of a thread that has been put into method m with n parameters: they have
\* moved up by three words, in which the return information is.
LEMMA CalledOK ==
  ASSUME Whole(th), NEW m \in Method, NEW o \in Ref, Operands(Info[m].params),
         DupFits(th, RET), GotoFits(Called(m), m)
  PROVE  Whole(Goto(Called(m), m, o)) /\ CallWritten(Goto(Called(m), m, o), m, o)
<1> DEFINE n == Info[m].params
           h == Shift(th, RET, n - RET)
           s == [h EXCEPT !.sp = @ - n]
           w == IF th.hasInst THEN Word(th.inst) ELSE Word(th.cls)
           x == Push(s, w, th.hasInst)
           y == Push(x, <<th.base, th.pc>>, FALSE)
           z == Push(y, <<Flags(th.hasInst, th.sync), th.method>>, FALSE)
           u == Goto(Called(m), m, o)
           b == th.sp - n + RET
           low == th.sp - n
<1>1. /\ th \in Thread /\ BitsRight(th) /\ th.sp \in 0..LIMIT /\ th.base \in 0..LIMIT
      /\ th.stack \in [Index -> Pair] /\ th.bits \in [Index -> BOOLEAN] /\ LIMIT \in Nat
      /\ th.hasInst \in BOOLEAN /\ th.sync \in BOOLEAN /\ th.inst \in Ref /\ th.cls \in Int
      /\ th.method \in Method /\ th.pc \in Site
  BY UjFramesAssumption DEF Whole, Thread, Pair
<1>2. /\ n \in Nat /\ Info[m].locals \in Nat /\ n <= Info[m].locals
      /\ Info[th.method].locals \in Nat /\ Info[m].cls \in Int /\ Info[m].isSync \in BOOLEAN
  BY <1>1, UjFramesAssumption
<1> HIDE DEF n
<1>3. /\ th.base + Info[th.method].locals <= low /\ low \in Nat
      /\ th.sp + 3 <= LIMIT /\ b = low + 3 /\ low < LIMIT /\ low + 1 < LIMIT /\ low + 2 < LIMIT
  BY <1>1, <1>2 DEF Operands, Locals, DupFits, RET, n
<1>4. /\ h \in Thread /\ SameMethod(th, h) /\ h.sp = th.sp
      /\ SameBelow(th, h, low)
      /\ \A k \in Index :
           /\ k \in b..(th.sp + 2) =>
                k - 3 \in Index /\ h.stack[k] = th.stack[k - 3] /\ h.bits[k] = th.bits[k - 3]
           /\ k \notin b..(th.sp + 2) => h.bits[k] = (th.bits[k] /\ k < low)
  <2>1. RET \in Nat /\ n - RET \in Int /\ RET + (n - RET) = n /\ th.sp - n = low /\ n <= th.sp
    BY <1>1, <1>2, <1>3 DEF RET
  <2>2. MovedTo(th, RET, n - RET) = b..(th.sp + 2)
    <3>1. th.sp - (n - RET) = b /\ th.sp + RET - 1 = th.sp + 2
      BY <1>1, <1>2 DEF RET
    <3> QED BY <3>1 DEF MovedTo
  <2>3. RET = 3
    BY DEF RET
  <2> HIDE DEF b, low
  <2>4. n - RET + RET >= 0 /\ RET + (n - RET) >= 0 /\ RET + (n - RET) <= th.sp /\ th.sp + RET <= LIMIT
    BY <1>1, <1>2, <1>3, <2>1, <2>3
  <2>5. /\ h \in Thread /\ SameMethod(th, h) /\ h.sp = th.sp
        /\ SameBelow(th, h, th.sp - (RET + (n - RET)))
        /\ \A k \in Index :
             /\ k \in MovedTo(th, RET, n - RET) =>
                  k - RET \in Index /\ h.stack[k] = th.stack[k - RET] /\ h.bits[k] = th.bits[k - RET]
             /\ k \notin MovedTo(th, RET, n - RET) =>
                  h.bits[k] = (th.bits[k] /\ k < th.sp - (RET + (n - RET)))
    BY <1>1, <2>1, <2>4, ShiftOK
  <2>6. th.sp - (RET + (n - RET)) = low
    BY <2>1
  <2> HIDE DEF h
  <2> QED BY <2>2, <2>3, <2>5, <2>6
<1> HIDE DEF h
<1>5. s \in Thread /\ SameMethod(th, s) /\ s.sp = low /\ s.stack = h.stack /\ s.bits = h.bits
  <2>1. low \in 0..LIMIT /\ h.sp - n = low
    BY <1>1, <1>3, <1>4
  <2> QED BY <1>4, <2>1 DEF Thread, SameMethod
<1> HIDE DEF s
<1>6. w \in Pair /\ <<th.base, th.pc>> \in Pair
      /\ <<Flags(th.hasInst, th.sync), th.method>> \in Pair
  <2>1. w \in Pair
    BY <1>1, Words DEF w
  <2>2. Flags(th.hasInst, th.sync) \in Int
    <3>1. Flags(th.hasInst, th.sync) \in 0..3
      BY <1>1, FlagsPacked, Zenon
    <3> QED BY <3>1
  <2>3. th.method \in Int /\ th.pc \in Int
    <3>1. Method \subseteq Nat /\ Site \subseteq Nat
      BY UjFramesAssumption
    <3>2. th.method \in Method /\ th.pc \in Site
      BY <1>1
    <3>3. th.method \in Nat /\ th.pc \in Nat
      BY <3>1, <3>2, Zenon
    <3> QED BY <3>3
  <2>4. th.base \in Int
    BY <1>1
  <2> QED BY <2>1, <2>2, <2>3, <2>4 DEF Pair
<1> HIDE DEF w, b, low
<1>7. /\ x \in Thread /\ SameMethod(th, x) /\ x.sp = low + 1
      /\ \A k \in Index :
           /\ x.stack[k] = IF k = low THEN w ELSE h.stack[k]
           /\ x.bits[k] = IF k = low THEN h.bits[k] \/ th.hasInst ELSE h.bits[k]
  BY <1>1, <1>3, <1>5, <1>6, PushFields DEF SameMethod
<1> HIDE DEF x
<1>8. /\ y \in Thread /\ SameMethod(th, y) /\ y.sp = low + 2
      /\ \A k \in Index :
           /\ y.stack[k] = IF k = low + 1 THEN <<th.base, th.pc>> ELSE x.stack[k]
           /\ y.bits[k] = IF k = low + 1 THEN x.bits[k] \/ FALSE ELSE x.bits[k]
  <2>1. low + 1 + 1 = low + 2 /\ x.sp < LIMIT
    BY <1>3, <1>7
  <2>2. /\ y \in Thread /\ SameMethod(x, y) /\ y.sp = x.sp + 1
        /\ \A k \in Index :
             /\ y.stack[k] = IF k = x.sp THEN <<th.base, th.pc>> ELSE x.stack[k]
             /\ y.bits[k] = IF k = x.sp THEN x.bits[k] \/ FALSE ELSE x.bits[k]
    BY <1>6, <1>7, <2>1, PushFields
  <2> HIDE DEF y
  <2>3. SameMethod(th, y)
    BY <1>7, <2>2 DEF SameMethod
  <2> QED BY <1>7, <2>1, <2>2, <2>3
<1> HIDE DEF y
<1>9. /\ z \in Thread /\ SameMethod(th, z) /\ z.sp = b
      /\ \A k \in Index :
           /\ z.stack[k] = IF k = low + 2 THEN <<Flags(th.hasInst, th.sync), th.method>>
                           ELSE y.stack[k]
           /\ z.bits[k] = IF k = low + 2 THEN y.bits[k] \/ FALSE ELSE y.bits[k]
  <2>1. low + 2 + 1 = b /\ y.sp < LIMIT
    BY <1>3, <1>8
  <2> DEFINE fm == <<Flags(th.hasInst, th.sync), th.method>>
  <2>2. fm \in Pair
    BY <1>6
  <2> HIDE DEF fm
  <2>3. /\ Push(y, fm, FALSE) \in Thread /\ SameMethod(y, Push(y, fm, FALSE))
        /\ Push(y, fm, FALSE).sp = y.sp + 1
        /\ \A k \in Index :
             /\ Push(y, fm, FALSE).stack[k] = IF k = y.sp THEN fm ELSE y.stack[k]
             /\ Push(y, fm, FALSE).bits[k] = IF k = y.sp THEN y.bits[k] \/ FALSE ELSE y.bits[k]
    BY <1>8, <2>1, <2>2, PushFields
  <2>4. z = Push(y, fm, FALSE)
    BY DEF fm
  <2> HIDE DEF z
  <2>5. SameMethod(th, z)
    BY <1>8, <2>3, <2>4 DEF SameMethod
  <2> QED BY <1>8, <2>1, <2>3, <2>4, <2>5 DEF fm
<1>10. Called(m) = [z EXCEPT !.sync = Info[m].isSync]
  <2>1. /\ s.hasInst = th.hasInst /\ s.inst = th.inst /\ s.cls = th.cls
        /\ x.base = th.base /\ x.pc = th.pc
        /\ s.base = th.base /\ s.pc = th.pc /\ s.sync = th.sync /\ s.method = th.method
    BY <1>5, <1>7 DEF SameMethod
  <2>2. PushRetInfo(s) = z
    <3>1. x = IF s.hasInst THEN Push(s, Word(s.inst), TRUE) ELSE Push(s, Word(s.cls), FALSE)
      BY <1>1, <2>1 DEF x, w
    <3> QED BY <2>1, <3>1 DEF PushRetInfo, y, z
  <2> QED BY <2>2 DEF Called, s, h, n
<1> HIDE DEF z
<1>11. u = [z EXCEPT !.sync = Info[m].isSync, !.method = m, !.pc = 0, !.cls = Info[m].cls,
                     !.hasInst = (o # 0), !.inst = o,
                     !.base = b, !.sp = b + Info[m].locals]
  BY <1>9, <1>10 DEF Goto, Thread
<1>12. b + Info[m].locals <= LIMIT /\ b \in Nat /\ b + Info[m].locals \in 0..LIMIT /\ b \in 0..LIMIT
  <2>1. Called(m).sp = b
    BY <1>9, <1>10 DEF Thread
  <2> QED BY <1>1, <1>2, <1>3, <2>1 DEF GotoFits
<1> HIDE DEF u
<1>13. u \in Thread
  BY <1>2, <1>9, <1>11, <1>12, UjFramesAssumption DEF Thread
<1>14. /\ u.stack = z.stack /\ u.bits = z.bits /\ u.sp = b + Info[m].locals /\ u.base = b
       /\ u.method = m /\ u.hasInst = (o # 0) /\ u.inst = o /\ u.pc = 0
       /\ u.sync = Info[m].isSync
  BY <1>9, <1>11 DEF Thread
<1>15. \A k \in Index :
         /\ k < low => u.stack[k] = th.stack[k]
         /\ k = low => u.stack[k] = w
         /\ k = low + 1 => u.stack[k] = <<th.base, th.pc>>
         /\ k = low + 2 => u.stack[k] = <<Flags(th.hasInst, th.sync), th.method>>
  BY <1>3, <1>4, <1>7, <1>8, <1>9, <1>14 DEF SameBelow, Index
<1>16. BitsRight(u)
  <2> SUFFICES ASSUME NEW k \in Index, u.bits[k] PROVE k < u.sp /\ u.stack[k] \in RefWord
    BY DEF BitsRight
  <2>1. k \in Int /\ low \in Int /\ b = low + 3 /\ th.sp \in Int
    BY <1>1, <1>3 DEF Index
  <2>2. CASE k \in b..(th.sp + 2)
    <3>1. k # low /\ k # low + 1 /\ k # low + 2
      BY <2>1, <2>2
    <3>2. /\ u.stack[k] = th.stack[k - 3] /\ u.bits[k] = th.bits[k - 3] /\ k - 3 \in Index
      <4>1. u.stack[k] = h.stack[k]
        BY <1>7, <1>8, <1>9, <1>14, <3>1
      <4>2. u.bits[k] = h.bits[k]
        BY <1>7, <1>8, <1>9, <1>14, <3>1
      <4> QED BY <1>4, <2>2, <4>1, <4>2
    <3>3. k < b + Info[m].locals
      BY <1>2, <1>3, <2>1, <2>2 DEF low
    <3> QED BY <1>1, <1>14, <3>2, <3>3 DEF BitsRight
  <2>3. CASE k \notin b..(th.sp + 2) /\ k # low
    <3>1. h.bits[k] = (th.bits[k] /\ k < low)
      BY <1>4, <2>3
    <3>2. u.bits[k] = h.bits[k]
      <4>1. x.bits[k] \in BOOLEAN /\ y.bits[k] \in BOOLEAN
        BY <1>7, <1>8 DEF Thread
      <4> QED BY <1>7, <1>8, <1>9, <1>14, <2>3, <4>1
    <3>3. th.bits[k] /\ k < low
      BY <3>1, <3>2
    <3>4. u.stack[k] = th.stack[k] /\ k < b + Info[m].locals
      BY <1>2, <1>15, <2>1, <3>3
    <3> QED BY <1>1, <1>14, <3>3, <3>4 DEF BitsRight
  <2>4. CASE k = low
    <3>1. ~h.bits[k]
      <4>1. k \notin b..(th.sp + 2) /\ ~(k < low)
        BY <2>1, <2>4
      <4> QED BY <1>4, <4>1
    <3>2. k # low + 1 /\ k # low + 2
      BY <2>1, <2>4
    <3>3. u.bits[k] = (h.bits[k] \/ th.hasInst)
      BY <1>7, <1>8, <1>9, <1>14, <2>4, <3>2
    <3>4. w \in RefWord
      BY <1>1, <3>1, <3>3, Words DEF w
    <3>5. k < b + Info[m].locals
      BY <1>2, <2>1, <2>4
    <3> QED BY <1>14, <1>15, <2>4, <3>4, <3>5
  <2> QED BY <2>2, <2>3, <2>4
<1>17. PICK B : Chain(th, B)
  BY DEF Whole
<1> DEFINE C == B \cup {b}
<1>18. RetInfo(u, b, C)
  <2>1. b - 1 = low + 2 /\ b - 2 = low + 1 /\ b - 3 = low /\ low \in Index /\ low + 1 \in Index
        /\ low + 2 \in Index
    <3>1. low \in Nat /\ low + 2 < LIMIT /\ LIMIT \in Nat /\ b = low + 3
      BY <1>1, <1>3
    <3> QED BY <3>1 DEF Index
  <2>2. /\ u.stack[b - 1] = <<Flags(th.hasInst, th.sync), th.method>>
        /\ u.stack[b - 2] = <<th.base, th.pc>> /\ u.stack[b - 3] = w
    BY <1>15, <2>1
  <2>3. Flags(th.hasInst, th.sync) \in 0..3 /\ FlagInst(Flags(th.hasInst, th.sync)) = th.hasInst
    BY <1>1, FlagsPacked
  <2>4. th.base \in C /\ th.base + Info[th.method].locals + RET <= b /\ b >= RET
    <3>1. th.base \in B
      BY <1>17 DEF Chain
    <3>2. th.base + Info[th.method].locals + 3 <= b /\ b >= 3
      BY <1>1, <1>2, <1>3
    <3> QED BY <3>1, <3>2 DEF RET
  <2>5. PICK v \in Int : w = Word(v) /\ (th.hasInst => v \in Object)
    <3>1. CASE th.hasInst
      <4>1. w = Word(th.inst) /\ th.inst \in Object
        BY <3>1 DEF w, Whole
      <4>2. Object \subseteq Nat
        BY UjFramesAssumption
      <4>3. th.inst \in Nat
        BY <4>1, <4>2, Zenon
      <4> QED BY <4>1, <4>3
    <3>2. CASE ~th.hasInst
      <4>1. w = Word(th.cls) /\ th.cls \in Int
        BY <1>1, <3>2 DEF w
      <4> QED BY <3>2, <4>1
    <3> QED BY <3>1, <3>2
  <2> HIDE DEF C
  <2>6. \E f \in 0..3, q \in Method, c \in C, p \in Site, v2 \in Int :
          /\ u.stack[b - 1] = <<f, q>>
          /\ u.stack[b - 2] = <<c, p>>
          /\ u.stack[b - 3] = Word(v2)
          /\ c + Info[q].locals + RET <= b
          /\ FlagInst(f) => v2 \in Object
    <3> USE <1>1, <2>3, <2>4, <2>5
    <3> WITNESS Flags(th.hasInst, th.sync) \in 0..3
    <3> WITNESS th.method \in Method
    <3> WITNESS th.base \in C
    <3> WITNESS th.pc \in Site
    <3> WITNESS v \in Int
    <3> QED BY <2>2, <2>3, <2>4, <2>5
  <2> QED BY <2>4, <2>6 DEF RetInfo
<1>19. Chain(u, C)
  <2>1. C \subseteq Nat /\ u.base \in C
    BY <1>12, <1>14, <1>17 DEF Chain
  <2>2. ASSUME NEW d \in C PROVE d <= u.base /\ (d # 0 => RetInfo(u, d, C))
    <3>1. CASE d = b
      BY <1>12, <1>14, <1>18, <3>1
    <3>2. CASE d \in B
      <4>1. d \in Nat /\ d <= th.base /\ (d # 0 => RetInfo(th, d, B)) /\ B \subseteq Nat
        BY <1>17, <3>2 DEF Chain
      <4>2. d <= b /\ d <= low
        BY <1>1, <1>2, <1>3, <4>1
      <4>3. SameBelow(th, u, d)
        BY <1>3, <1>15, <4>1, <4>2 DEF SameBelow, Index
      <4>4. d # 0 => RetInfo(u, d, B)
        BY <1>1, <1>13, <3>2, <4>1, <4>3, RetInfoKept
      <4>5. B \subseteq C
        OBVIOUS
      <4> HIDE DEF C
      <4>6. d # 0 => RetInfo(u, d, C)
        BY <4>4, <4>5 DEF RetInfo
      <4> QED BY <1>14, <4>2, <4>6
    <3> QED BY <3>1, <3>2
  <2> QED BY <2>1, <2>2 DEF Chain
<1>20. u.hasInst => u.inst \in Object
  BY <1>14 DEF Ref
<1>21. u.base + Info[u.method].locals <= u.sp
  BY <1>2, <1>12, <1>14
<1>22. Whole(u)
  BY <1>13, <1>16, <1>19, <1>20, <1>21 DEF Whole
<1>23. ASSUME NEW k \in Index
       PROVE  /\ k < low => u.bits[k] = th.bits[k]
              /\ k \in (low + 3)..(th.sp + 2) =>
                   k - 3 \in Index /\ u.stack[k] = th.stack[k - 3] /\ u.bits[k] = th.bits[k - 3]
              /\ k > th.sp + 2 => ~u.bits[k]
  <2>1. k \in Int /\ low \in Int /\ b = low + 3 /\ th.sp \in Int /\ low <= th.sp
    BY <1>1, <1>2, <1>3 DEF Index, low
  <2>2. CASE k < low
    <3>1. k # low /\ k # low + 1 /\ k # low + 2 /\ k \notin b..(th.sp + 2) /\ ~(k > th.sp + 2)
      BY <2>1, <2>2
    <3>2. u.bits[k] = h.bits[k]
      BY <1>7, <1>8, <1>9, <1>14, <3>1
    <3>3. h.bits[k] = (th.bits[k] /\ k < low) /\ th.bits[k] \in BOOLEAN
      BY <1>1, <1>4, <3>1
    <3> QED BY <2>1, <2>2, <3>1, <3>2, <3>3
  <2>3. CASE k >= b
    <3>1. k # low /\ k # low + 1 /\ k # low + 2 /\ ~(k < low)
      BY <2>1, <2>3
    <3>2. u.stack[k] = h.stack[k] /\ u.bits[k] = h.bits[k]
      BY <1>7, <1>8, <1>9, <1>14, <3>1
    <3>3. k > th.sp + 2 => k \notin b..(th.sp + 2)
      BY <2>1
    <3>4. k > th.sp + 2 => ~h.bits[k]
      BY <1>4, <3>1, <3>3
    <3> QED BY <1>4, <2>1, <3>1, <3>2, <3>4
  <2>4. ~(k < low) /\ ~(k >= b) => k \notin (low + 3)..(th.sp + 2) /\ ~(k > th.sp + 2)
    BY <2>1
  <2> QED BY <2>2, <2>3, <2>4
<1>24. CallWritten(u, m, o)
  <2>1. b = low + 3
    BY <1>3
  <2> QED BY <1>14, <1>15, <1>23, <2>1 DEF CallWritten, low, n, w
<1> QED BY <1>22, <1>24 DEF u

-----------------------------------------------------------------------------
(* The instructions. *)

IInv ==
  /\ TypeOK
  /\ status = "run" => Whole(th)

\* What a thread that can go on has.
LEMMA WholeFacts ==
  ASSUME NEW t, Whole(t)
  PROVE  /\ t \in Thread /\ BitsRight(t)
         /\ t.sp \in 0..LIMIT /\ t.base \in 0..LIMIT /\ t.sp \in Int /\ t.base \in Int
         /\ t.method \in Method /\ LIMIT \in Nat /\ Info[t.method].locals \in Nat
         /\ t.base + Info[t.method].locals <= t.sp /\ t.base <= t.sp
         /\ t.stack \in [Index -> Pair] /\ t.bits \in [Index -> BOOLEAN]
<1>1. t \in Thread /\ BitsRight(t) /\ t.base + Info[t.method].locals <= t.sp
  BY DEF Whole
<1>2. /\ t.sp \in 0..LIMIT /\ t.base \in 0..LIMIT /\ t.method \in Method
      /\ t.stack \in [Index -> Pair] /\ t.bits \in [Index -> BOOLEAN]
  BY <1>1 DEF Thread, Pair
<1>3. LIMIT \in Nat /\ Info[t.method].locals \in Nat
  BY <1>2, UjFramesAssumption
<1>4. t.sp \in Int /\ t.base \in Int /\ t.base <= t.sp
  BY <1>1, <1>2, <1>3
<1> QED BY <1>1, <1>2, <1>3, <1>4

\* An instruction that works on the operands.
LEMMA OperandsOnly ==
  ASSUME NEW t, Whole(t), NEW u \in Thread, BitsRight(u), SameMethod(t, u),
         NEW n \in Int, t.base <= n, SameBelow(t, u, n),
         t.base + Info[t.method].locals <= u.sp
  PROVE  Whole(u)
<1>1. t.base \in Int
  BY WholeFacts
<1>2. SameBelow(t, u, t.base)
  BY <1>1 DEF SameBelow, Index
<1> QED BY <1>2, WholeKept DEF SameMethod

\* A jump.
LEMMA PcKept ==
  ASSUME NEW t, Whole(t), NEW p \in Site
  PROVE  Whole([t EXCEPT !.pc = p]) /\ [t EXCEPT !.pc = p].base = t.base
<1> DEFINE u == [t EXCEPT !.pc = p]
<1>1. t \in Thread /\ BitsRight(t) /\ t.base + Info[t.method].locals <= t.sp
  BY DEF Whole
<1>2. /\ u \in Thread /\ u.stack = t.stack /\ u.bits = t.bits /\ u.sp = t.sp
      /\ u.base = t.base /\ u.method = t.method /\ u.hasInst = t.hasInst /\ u.inst = t.inst
  BY <1>1 DEF Thread
<1> HIDE DEF u
<1>3. BitsRight(u) /\ SameBelow(t, u, t.base)
  BY <1>1, <1>2 DEF BitsRight, SameBelow
<1>4. Whole(u)
  BY <1>1, <1>2, <1>3, WholeKept
<1> QED BY <1>2, <1>4 DEF u

\* Pop, with what was popped.
LEMMA PopKept ==
  ASSUME NEW t, Whole(t), t.sp >= t.base + Info[t.method].locals + 1
  PROVE  /\ Whole(Pop(t)) /\ Pop(t).sp = t.sp - 1 /\ SameMethod(t, Pop(t))
         /\ Peek(t, 0) \in Pair /\ PeekBit(t, 0) \in BOOLEAN
         /\ PeekBit(t, 0) => Peek(t, 0) \in RefWord
<1>1. /\ t \in Thread /\ BitsRight(t) /\ t.sp \in Int /\ t.base \in 0..LIMIT /\ LIMIT \in Nat
      /\ Info[t.method].locals \in Nat
  BY WholeFacts
<1>2. t.sp > 0 /\ t.sp - 1 \in Int /\ t.base <= t.sp - 1
      /\ t.base + Info[t.method].locals <= t.sp - 1
  BY <1>1
<1>3. /\ Pop(t) \in Thread /\ BitsRight(Pop(t)) /\ SameMethod(t, Pop(t))
      /\ Pop(t).sp = t.sp - 1 /\ SameBelow(t, Pop(t), t.sp - 1)
      /\ Peek(t, 0) \in Pair /\ PeekBit(t, 0) \in BOOLEAN
      /\ PeekBit(t, 0) => Peek(t, 0) \in RefWord
  BY <1>1, <1>2, PopOK
<1>4. Whole(Pop(t))
  BY <1>2, <1>3, OperandsOnly
<1> QED BY <1>3, <1>4

\* Push, of a number or of a reference.
LEMMA PushKept ==
  ASSUME NEW t, Whole(t), t.sp < LIMIT, NEW w \in Pair, NEW r \in BOOLEAN, r => w \in RefWord
  PROVE  Whole(Push(t, w, r)) /\ SameMethod(t, Push(t, w, r))
<1>1. /\ t \in Thread /\ BitsRight(t) /\ t.sp \in Int /\ t.base \in 0..LIMIT /\ LIMIT \in Nat
      /\ Info[t.method].locals \in Nat /\ t.base + Info[t.method].locals <= t.sp
      /\ t.base <= t.sp
  BY WholeFacts
<1>2. /\ Push(t, w, r) \in Thread /\ BitsRight(Push(t, w, r)) /\ SameMethod(t, Push(t, w, r))
      /\ Push(t, w, r).sp = t.sp + 1 /\ SameBelow(t, Push(t, w, r), t.sp)
  BY <1>1, PushOK
<1>3. t.base + Info[t.method].locals <= Push(t, w, r).sp
  BY <1>1, <1>2
<1>4. Whole(Push(t, w, r))
  BY <1>1, <1>2, <1>3, OperandsOnly
<1> QED BY <1>2, <1>4

\* The exception in place of the operands.
LEMMA CaughtOK ==
  ASSUME Whole(th), exc \in Ref, CaughtFits(th)
  PROVE  Whole(Caught(th)) /\ Caught(th).base = th.base
<1> DEFINE s == th.base + Info[th.method].locals
           v == PopTo(th, s)
<1>1. /\ th \in Thread /\ BitsRight(th) /\ th.sp \in 0..LIMIT /\ th.base \in 0..LIMIT
      /\ LIMIT \in Nat /\ Info[th.method].locals \in Nat /\ s <= th.sp
  BY WholeFacts
<1>2. s \in 0..LIMIT /\ s \in Int /\ th.base <= s /\ s < LIMIT
  BY <1>1 DEF CaughtFits
<1> HIDE DEF s
<1>3. v \in Thread /\ BitsRight(v) /\ SameMethod(th, v) /\ v.sp = s /\ SameBelow(th, v, s)
  BY <1>1, <1>2, PopToOK
<1>4. th.base + Info[th.method].locals <= v.sp
  BY <1>2, <1>3 DEF s
<1>5. Whole(v)
  <2> HIDE DEF v
  <2> QED BY <1>2, <1>3, <1>4, OperandsOnly
<1>6. Word(exc) \in Pair /\ Word(exc) \in RefWord
  BY Words
<1>7. Caught(th) = Push(v, Word(exc), TRUE)
  BY DEF Caught, v, s
<1> HIDE DEF v
<1>8. Whole(Push(v, Word(exc), TRUE)) /\ SameMethod(v, Push(v, Word(exc), TRUE))
  BY <1>2, <1>3, <1>5, <1>6, PushKept
<1> QED BY <1>3, <1>7, <1>8 DEF SameMethod

\* A step to a thread that can go on.
LEMMA GoesOn ==
  ASSUME IInv, Whole(th'), exc' \in Ref, status' \in {"run", "done", "error"}
  PROVE  IInv'
<1>1. th' \in Thread /\ th'.base <= th'.sp
  BY WholeFacts
<1> QED BY <1>1 DEF IInv, TypeOK

\* Most instructions.
LEMMA BecomesOK ==
  ASSUME IInv, NEW u, Whole(u), Becomes(u)
  PROVE  IInv'
<1>1. th' = u /\ exc' = exc /\ status' = status
  BY DEF Becomes
<1>2. exc \in Ref /\ status \in {"run", "done", "error"}
  BY DEF IInv, TypeOK
<1> QED BY <1>1, <1>2, GoesOn

\* The end of the thread.
LEMMA EndsOK ==
  ASSUME IInv, status = "run", NEW s \in {"done", "error"}, Ends(s)
  PROVE  IInv'
<1> DEFINE v == PopTo(th, 0)
<1>1. th \in Thread /\ BitsRight(th) /\ th.sp \in 0..LIMIT /\ LIMIT \in Nat
  BY WholeFacts DEF IInv
<1>2. 0 \in 0..LIMIT /\ 0 <= th.sp
  BY <1>1
<1>3. v \in Thread /\ v.sp = 0
  BY <1>1, <1>2, PopToOK
<1>4. th' = [v EXCEPT !.base = 0] /\ status' = s /\ exc' = 0
  BY DEF Ends
<1> HIDE DEF v
<1>5. th' \in Thread /\ th'.base = 0 /\ th'.sp = 0
  BY <1>2, <1>3, <1>4 DEF Thread
<1> QED BY <1>4, <1>5 DEF IInv, TypeOK, Ref

\* One lemma per instruction; a push that does not fit ends the program.
LEMMA PushNumberInv == ASSUME IInv, PushNumber PROVE IInv'
<1>1. status = "run" /\ Whole(th)
  BY DEF IInv, PushNumber, Ready
<1>2. CASE Full(th)
  BY <1>1, <1>2, EndsOK DEF PushNumber, StackSpace
<1>3. CASE ~Full(th)
  <2>1. th.sp < LIMIT
    BY <1>1, <1>3, WholeFacts DEF Full
  <2>2. Whole(Push(th, NoWord, FALSE))
    BY <1>1, <2>1, PushKept, Words
  <2> QED BY <1>3, <2>2, BecomesOK DEF PushNumber
<1> QED BY <1>2, <1>3

\* A reference that is pushed.
LEMMA PushRefInv == ASSUME IInv, NEW v \in Ref, PushRef(v) PROVE IInv'
<1>1. status = "run" /\ Whole(th)
  BY DEF IInv, PushRef, Ready
<1>2. CASE Full(th)
  BY <1>1, <1>2, EndsOK DEF PushRef, StackSpace
<1>3. CASE ~Full(th)
  <2>1. th.sp < LIMIT
    BY <1>1, <1>3, WholeFacts DEF Full
  <2>2. Whole(Push(th, Word(v), TRUE))
    BY <1>1, <2>1, PushKept, Words
  <2> QED BY <1>3, <2>2, BecomesOK DEF PushRef
<1> QED BY <1>2, <1>3

\* An operand that is popped.
LEMMA PopOperandInv == ASSUME IInv, PopOperand PROVE IInv'
<1>1. Whole(th) /\ th.sp >= th.base + Info[th.method].locals + 1
  BY DEF IInv, PopOperand, Ready, Operands, Locals
<1> QED BY <1>1, PopKept, BecomesOK DEF PopOperand

\* A local variable is in the stack, below its top.
LEMMA LoadInv == ASSUME IInv, NEW k \in Index, Load(k) PROVE IInv'
<1>1. status = "run" /\ Whole(th) /\ k \in 0..(Info[th.method].locals - 1)
  BY DEF IInv, Load, Ready, Locals
<1>2. CASE Full(th)
  BY <1>1, <1>2, EndsOK DEF Load, StackSpace
<1>3. CASE ~Full(th)
  <2>1. /\ th.sp < LIMIT /\ th.sp \in 0..LIMIT /\ th.base \in 0..LIMIT /\ LIMIT \in Nat
        /\ th.base + Info[th.method].locals <= th.sp /\ Info[th.method].locals \in Nat
        /\ th.stack \in [Index -> Pair] /\ BitsRight(th)
    BY <1>1, <1>3, WholeFacts DEF Full
  <2>2. th.base + k \in Index
    BY <1>1, <2>1 DEF Index
  <2>3. CASE th.bits[th.base + k]
    <3>1. th.stack[th.base + k] \in RefWord /\ th.stack[th.base + k] \in Pair
      BY <2>1, <2>2, <2>3 DEF BitsRight
    <3>2. Whole(Push(th, th.stack[th.base + k], TRUE))
      BY <1>1, <2>1, <3>1, PushKept
    <3> QED BY <1>3, <2>3, <3>2, BecomesOK DEF Load
  <2>4. CASE ~th.bits[th.base + k]
    <3>1. Whole(Push(th, NoWord, FALSE))
      BY <1>1, <2>1, PushKept, Words
    <3> QED BY <1>3, <2>4, <3>1, BecomesOK DEF Load
  <2> QED BY <2>3, <2>4
<1> QED BY <1>2, <1>3

\* A local variable that is assigned is still below the top.
LEMMA StoreInv == ASSUME IInv, NEW k \in Index, Store(k) PROVE IInv'
<1> DEFINE v == Pop(th)
           u == LocalStore(v, k, Peek(th, 0), PeekBit(th, 0))
<1>1. /\ Whole(th) /\ k \in 0..(Info[th.method].locals - 1)
      /\ th.sp >= th.base + Info[th.method].locals + 1 /\ Becomes(u)
  BY DEF IInv, Store, Ready, Operands, Locals
<1>2. /\ Whole(v) /\ v.sp = th.sp - 1 /\ SameMethod(th, v)
      /\ Peek(th, 0) \in Pair /\ PeekBit(th, 0) \in BOOLEAN
      /\ PeekBit(th, 0) => Peek(th, 0) \in RefWord
  BY <1>1, PopKept
<1> HIDE DEF v
<1>3. v \in Thread /\ BitsRight(v) /\ v.base \in Int /\ v.base + Info[v.method].locals <= v.sp
      /\ Info[v.method].locals \in Nat /\ v.sp \in Int
  BY <1>2, WholeFacts
<1>4. k \in Nat /\ v.base + k < v.sp
  BY <1>1, <1>2, <1>3 DEF SameMethod
<1>5. /\ u \in Thread /\ BitsRight(u) /\ SameMethod(v, u) /\ u.sp = v.sp
      /\ SameBelow(v, u, v.base)
  BY <1>2, <1>3, <1>4, LocalStoreOK
<1> HIDE DEF u
<1>6. Whole(u)
  BY <1>2, <1>3, <1>5, OperandsOnly
<1> QED BY <1>1, <1>6, BecomesOK

\* A dup works on operands only.
LEMMA DupInv == ASSUME IInv, NEW n \in 1..2, NEW m \in 0..2, Dup(n, m) PROVE IInv'
<1>1. status = "run" /\ Whole(th) /\ th.sp >= th.base + Info[th.method].locals + (n + m)
  BY DEF IInv, Dup, Ready, Operands, Locals
<1>2. CASE ~DupFits(th, n)
  BY <1>1, <1>2, EndsOK DEF Dup, StackSpace
<1>3. CASE DupFits(th, n)
  <2> DEFINE u == DupOf(th, n, m)
  <2>1. /\ th \in Thread /\ BitsRight(th) /\ th.sp \in Int /\ th.base \in 0..LIMIT /\ LIMIT \in Nat
        /\ Info[th.method].locals \in Nat /\ th.base + Info[th.method].locals <= th.sp
    BY <1>1, WholeFacts
  <2>2. /\ n + m <= th.sp /\ th.sp + n <= LIMIT /\ th.sp - (n + m) \in Int
        /\ th.base <= th.sp - (n + m)
    BY <1>1, <1>3, <2>1 DEF DupFits
  <2>3. /\ u \in Thread /\ BitsRight(u) /\ SameMethod(th, u) /\ u.sp = th.sp + n
        /\ SameBelow(th, u, th.sp - (n + m))
    BY <2>1, <2>2, DupOK
  <2>4. Becomes(u)
    BY <1>3 DEF Dup
  <2> HIDE DEF u
  <2>5. th.base + Info[th.method].locals <= u.sp
    BY <2>1, <2>3
  <2>6. Whole(u)
    BY <1>1, <2>2, <2>3, <2>5, OperandsOnly
  <2> QED BY <2>4, <2>6, BecomesOK
<1> QED BY <1>2, <1>3

\* A jump does not touch the stack.
LEMMA JumpInv == ASSUME IInv, NEW p \in Site, Jump(p) PROVE IInv'
<1>1. Whole(th)
  BY DEF IInv, Jump, Ready
<1> QED BY <1>1, PcKept, BecomesOK DEF Jump

\* The receiver of a method that is called is a handle, and null when there is none.
LEMMA InvokeInv == ASSUME IInv, NEW m \in Method, Invoke(m) PROVE IInv'
<1> DEFINE n == Info[m].params
           o == IF Info[m].isStatic THEN 0 ELSE Peek(th, n - 1)[1]
           null == ~Info[m].isStatic /\ (~PeekBit(th, n - 1) \/ o = 0)
<1>1. status = "run" /\ Whole(th) /\ Operands(n)
  BY DEF IInv, Invoke, Ready
<1>2. CASE null
  BY <1>1, <1>2, EndsOK DEF Invoke
<1>3. CASE ~null /\ ~(DupFits(th, RET) /\ GotoFits(Called(m), m))
  <2>1. StackSpace
    BY <1>3 DEF Invoke
  <2> QED BY <1>1, <2>1, EndsOK DEF StackSpace
<1>4. CASE ~null /\ DupFits(th, RET) /\ GotoFits(Called(m), m)
  <2>1. Becomes(Goto(Called(m), m, o))
    BY <1>4 DEF Invoke
  <2>2. o \in Ref
    <3>1. CASE Info[m].isStatic
      BY <3>1 DEF Ref
    <3>2. CASE ~Info[m].isStatic
      <4>1. PeekBit(th, n - 1)
        BY <1>4, <3>2
      <4>2. n \in Nat /\ n > 0
        BY <3>2, UjFramesAssumption
      <4>3. /\ th.sp \in 0..LIMIT /\ th.base \in 0..LIMIT /\ LIMIT \in Nat /\ BitsRight(th)
            /\ Info[th.method].locals \in Nat
        BY <1>1, WholeFacts
      <4>4. th.sp - ((n - 1) + 1) = th.sp - n /\ th.sp - n \in Index
        BY <1>1, <4>2, <4>3 DEF Operands, Locals, Index
      <4>5. th.stack[th.sp - n] \in RefWord
        BY <4>1, <4>3, <4>4 DEF PeekBit, BitsRight
      <4>6. PICK v \in Ref : th.stack[th.sp - n] = Word(v)
        BY <4>5 DEF RefWord
      <4>7. o = v
        BY <3>2, <4>4, <4>6 DEF Peek, Word
      <4> QED BY <4>7
    <3> QED BY <3>1, <3>2
  <2> HIDE DEF o
  <2>3. Whole(Goto(Called(m), m, o))
    BY <1>1, <1>4, <2>2, CalledOK
  <2> QED BY <2>1, <2>3, BecomesOK
<1> QED BY <1>2, <1>3, <1>4

\* A return, for which there is return information below every base but 0.
LEMMA ReturnInv == ASSUME IInv, Return PROVE IInv'
<1>1. status = "run" /\ Whole(th)
  BY DEF IInv, Return, Ready
<1>2. CASE th.base = 0
  BY <1>1, <1>2, EndsOK DEF Return
<1>3. CASE th.base # 0
  <2>1. PICK B : Chain(th, B)
    BY <1>1 DEF Whole
  <2>2. Whole(Ret(th))
    BY <1>1, <1>3, <2>1, WholeFacts, RetOK
  <2> QED BY <1>3, <2>2, BecomesOK DEF Return
<1> QED BY <1>2, <1>3

\* The value fits where the return information was.
LEMMA ReturnValueInv == ASSUME IInv, ReturnValue PROVE IInv'
<1> DEFINE v == Pop(th)
           u == Ret(v)
<1>1. /\ Whole(th) /\ th.sp >= th.base + Info[th.method].locals + 1 /\ th.base # 0
      /\ Becomes(Push(u, Peek(th, 0), PeekBit(th, 0)))
  BY DEF IInv, ReturnValue, Ready, Operands, Locals
<1>2. /\ Whole(v) /\ SameMethod(th, v)
      /\ Peek(th, 0) \in Pair /\ PeekBit(th, 0) \in BOOLEAN
      /\ PeekBit(th, 0) => Peek(th, 0) \in RefWord
  BY <1>1, PopKept
<1> HIDE DEF v
<1>3. PICK B : Chain(v, B)
  BY <1>2 DEF Whole
<1>4. v.base # 0 /\ v.base <= v.sp /\ v \in Thread /\ BitsRight(v) /\ v.base \in 0..LIMIT
      /\ LIMIT \in Nat
  BY <1>1, <1>2, WholeFacts DEF SameMethod
<1>5. Whole(u) /\ u.sp = v.base - RET
  BY <1>3, <1>4, RetOK
<1>6. u.sp < LIMIT
  BY <1>4, <1>5 DEF RET
<1> HIDE DEF u
<1>7. Whole(Push(u, Peek(th, 0), PeekBit(th, 0)))
  BY <1>2, <1>5, <1>6, PushKept
<1> QED BY <1>1, <1>7, BecomesOK

\* What is thrown is a handle.
LEMMA ThrowInv == ASSUME IInv, Throw PROVE IInv'
<1>1. /\ status = "run" /\ Whole(th) /\ th.sp >= th.base + Info[th.method].locals + 1
      /\ PeekBit(th, 0)
  BY DEF IInv, Throw, Ready, Operands, Locals
<1>2. CASE Peek(th, 0)[1] = 0
  <2>1. Ends("error")
    BY <1>2 DEF Throw
  <2> QED BY <1>1, <2>1, EndsOK
<1>3. CASE Peek(th, 0)[1] # 0
  <2>1. exc' = Peek(th, 0)[1] /\ th' = Pop(th) /\ status' = status
    BY <1>3 DEF Throw
  <2>2. Whole(Pop(th)) /\ Peek(th, 0) \in RefWord
    BY <1>1, PopKept
  <2>3. exc' \in Ref
    <3>1. PICK v \in Ref : Peek(th, 0) = Word(v)
      BY <2>2 DEF RefWord
    <3> QED BY <2>1, <3>1 DEF Word
  <2> QED BY <1>1, <2>1, <2>2, <2>3, GoesOn
<1> QED BY <1>2, <1>3

\* The frame of the handler goes on with the exception as its only operand.
LEMMA CatchInv == ASSUME IInv, NEW p \in Site, Catch(p) PROVE IInv'
<1>1. /\ status = "run" /\ Whole(th) /\ exc \in Ref /\ CaughtFits(th)
      /\ th' = [Caught(th) EXCEPT !.pc = p] /\ exc' = 0 /\ status' = status
  BY DEF IInv, TypeOK, Catch
<1>2. Whole(th')
  BY <1>1, CaughtOK, PcKept
<1> QED BY <1>1, <1>2, GoesOn DEF Ref

\* Leaving a frame on the way to a handler.
LEMMA UnwindStep ==
  ASSUME IInv, Unwind
  PROVE  IInv' /\ (exc' # 0 => th'.base < th.base)
<1>1. status = "run" /\ Whole(th) /\ exc \in Ref
  BY DEF IInv, TypeOK, Unwind
<1>2. CASE ~CaughtFits(th)
  <2>1. Ends("error")
    BY <1>2 DEF Unwind, StackSpace
  <2>2. exc' = 0
    BY <2>1 DEF Ends
  <2> QED BY <1>1, <2>1, <2>2, EndsOK
<1>3. CASE CaughtFits(th) /\ th.base = 0
  <2>1. Ends("done")
    BY <1>3 DEF Unwind
  <2>2. exc' = 0
    BY <2>1 DEF Ends
  <2> QED BY <1>1, <2>1, <2>2, EndsOK
<1>4. CASE CaughtFits(th) /\ th.base # 0
  <2> DEFINE v == Caught(th)
  <2>1. th' = Ret(v) /\ exc' = exc /\ status' = status
    BY <1>4 DEF Unwind
  <2>2. Whole(v) /\ v.base = th.base
    BY <1>1, <1>4, CaughtOK
  <2> HIDE DEF v
  <2>3. PICK B : Chain(v, B)
    BY <2>2 DEF Whole
  <2>4. v \in Thread /\ BitsRight(v) /\ v.base <= v.sp
    BY <2>2, WholeFacts
  <2>5. Whole(Ret(v)) /\ Ret(v).base < v.base
    BY <1>4, <2>2, <2>3, <2>4, RetOK
  <2> QED BY <1>1, <2>1, <2>2, <2>5, GoesOn
<1> QED BY <1>2, <1>3, <1>4

-----------------------------------------------------------------------------
(* The invariant. *)

\* Where a thread starts, in method m on o.
Started(o, m) ==
  /\ IF o = 0 THEN Info[m].isStatic ELSE ~Info[m].isStatic
  /\ Info[m].params <= 1
  /\ th.base = 0 /\ th.sp = Info[m].locals /\ th.method = m /\ th.pc = 0
  /\ th.sync = FALSE /\ th.hasInst = (o # 0) /\ th.inst = o
  /\ \A k \in Index : /\ th.bits[k] <=> (k = 0 /\ o # 0)
                      /\ th.bits[k] => th.stack[k] = Word(o)

\* A thread that starts has the frame of its first method, and no return information.
LEMMA InitInv ==
  ASSUME Init
  PROVE  IInv /\ \E o \in Ref, m \in Method : Started(o, m)
<1>1. PICK o \in Ref, m \in Method :
        /\ IF o = 0 THEN Info[m].isStatic ELSE ~Info[m].isStatic
        /\ Info[m].params <= 1
        /\ GotoFits(Fresh, m)
        /\ th = Goto(IF o = 0 THEN Fresh ELSE LocalStore(Fresh, 0, Word(o), TRUE), m, o)
  BY DEF Init
<1> DEFINE t == IF o = 0 THEN Fresh ELSE LocalStore(Fresh, 0, Word(o), TRUE)
<1>2. /\ Info[m].params \in Nat /\ Info[m].locals \in Nat /\ Info[m].cls \in Int
      /\ Info[m].params <= Info[m].locals /\ (o # 0 => Info[m].params > 0)
  BY <1>1, UjFramesAssumption
<1>3. Info[m].locals <= LIMIT /\ LIMIT \in Nat /\ (o # 0 => 0 < Info[m].locals /\ 0 \in Index)
  <2>1. LIMIT \in Nat /\ Fresh.sp + Info[m].locals <= LIMIT
    BY <1>1, UjFramesAssumption DEF GotoFits
  <2>2. Fresh.sp = 0
    BY DEF Fresh
  <2> QED BY <1>2, <2>1, <2>2 DEF Index
<1>4. /\ t.sp = 0 /\ t.sync = FALSE
      /\ t.stack \in [Index -> Pair] /\ t.bits \in [Index -> BOOLEAN]
      /\ \A k \in Index : t.bits[k] => o # 0 /\ k = 0 /\ t.stack[k] = Word(o)
      /\ o # 0 => t.bits[0]
      /\ t = [stack |-> t.stack, bits |-> t.bits, sp |-> 0, base |-> 0, hasInst |-> FALSE,
              sync |-> FALSE, cls |-> 0, inst |-> 0, method |-> 0, pc |-> 0]
  <2>1. CASE o = 0
    BY <2>1, Words DEF Fresh
  <2>2. CASE o # 0
    <3>1. t = LocalStore(Fresh, 0, Word(o), TRUE)
      BY <2>2
    <3> HIDE DEF t
    <3>2. /\ t.stack = [[k \in Index |-> NoWord] EXCEPT ![0] = Word(o)]
          /\ t.bits = [[k \in Index |-> FALSE] EXCEPT ![0] = TRUE]
      BY <3>1 DEF LocalStore, Fresh
    <3>3. t = [stack |-> t.stack, bits |-> t.bits, sp |-> 0, base |-> 0, hasInst |-> FALSE,
               sync |-> FALSE, cls |-> 0, inst |-> 0, method |-> 0, pc |-> 0]
      BY <3>1 DEF LocalStore, Fresh
    <3>4. NoWord \in Pair /\ Word(o) \in Pair
      BY Words
    <3>5. t.stack \in [Index -> Pair] /\ t.bits \in [Index -> BOOLEAN]
      BY <3>2, <3>4
    <3>6. (\A k \in Index : t.bits[k] => k = 0 /\ t.stack[k] = Word(o)) /\ t.bits[0]
      BY <1>3, <2>2, <3>2
    <3>7. t.sp = 0 /\ t.sync = FALSE
      BY <3>3
    <3> QED BY <2>2, <3>3, <3>5, <3>6, <3>7
  <2> QED BY <2>1, <2>2
<1>5. th = Goto(t, m, o)
  BY <1>1
<1> HIDE DEF t
<1>6. /\ th.stack = t.stack /\ th.bits = t.bits /\ th.sp = 0 + Info[m].locals /\ th.base = 0
      /\ th.hasInst = (o # 0) /\ th.sync = FALSE /\ th.cls = Info[m].cls /\ th.inst = o
      /\ th.method = m /\ th.pc = 0
      /\ th = [stack |-> th.stack, bits |-> th.bits, sp |-> th.sp, base |-> th.base,
               hasInst |-> th.hasInst, sync |-> th.sync, cls |-> th.cls, inst |-> th.inst,
               method |-> th.method, pc |-> th.pc]
  <2> DEFINE S == t.stack
             D == t.bits
  <2>1. t = [stack |-> S, bits |-> D, sp |-> 0, base |-> 0, hasInst |-> FALSE,
             sync |-> FALSE, cls |-> 0, inst |-> 0, method |-> 0, pc |-> 0]
    BY <1>4
  <2> HIDE DEF S, D
  <2>2. th = [stack |-> S, bits |-> D, sp |-> 0 + Info[m].locals, base |-> 0,
              hasInst |-> (o # 0), sync |-> FALSE, cls |-> Info[m].cls, inst |-> o,
              method |-> m, pc |-> 0]
    BY <1>5, <2>1 DEF Goto
  <2> QED BY <2>2 DEF S, D
<1>7. th.sp = Info[m].locals /\ th.sp \in 0..LIMIT /\ 0 \in 0..LIMIT
  BY <1>2, <1>3, <1>6
<1>8. th \in Thread
  <2>1. (o # 0) \in BOOLEAN /\ 0 \in Site
    BY UjFramesAssumption
  <2>2. th.stack \in [Index -> Pair] /\ th.bits \in [Index -> BOOLEAN]
    BY <1>4, <1>6
  <2>3. /\ th.base \in 0..LIMIT /\ th.hasInst \in BOOLEAN /\ th.sync \in BOOLEAN
        /\ th.cls \in Int /\ th.inst \in Ref /\ th.method \in Method /\ th.pc \in Site
    BY <1>2, <1>6, <1>7, <2>1
  <2> QED BY <1>6, <1>7, <2>2, <2>3 DEF Thread, Pair
<1>9. BitsRight(th)
  <2>1. \A k \in Index : th.bits[k] => o # 0 /\ k = 0 /\ th.stack[k] = Word(o)
    BY <1>4, <1>6
  <2> QED BY <1>3, <1>7, <2>1, Words DEF BitsRight
<1>10. Chain(th, {0})
  BY <1>6 DEF Chain
<1>11. Whole(th)
  <2>1. th.hasInst => th.inst \in Object
    BY <1>6 DEF Ref
  <2>2. th.base + Info[th.method].locals <= th.sp
    BY <1>2, <1>6
  <2> QED BY <1>8, <1>9, <1>10, <2>1, <2>2 DEF Whole
<1>12. exc \in Ref /\ status = "run" /\ th.base <= th.sp
  <2>1. exc = 0 /\ status = "run"
    BY DEF Init
  <2>2. th.base <= th.sp
    BY <1>11, WholeFacts
  <2> QED BY <2>1, <2>2 DEF Ref
<1>13. Started(o, m)
  <2>1. ASSUME NEW k \in Index
        PROVE  /\ th.bits[k] <=> (k = 0 /\ o # 0)
               /\ th.bits[k] => th.stack[k] = Word(o)
    BY <1>4, <1>6
  <2> QED BY <1>1, <1>6, <1>7, <2>1 DEF Started
<1> QED BY <1>8, <1>11, <1>12, <1>13 DEF IInv, TypeOK

\* The invariant is inductive.
LEMMA NextInv == ASSUME IInv, [Next]_vars PROVE IInv'
<1>1. CASE PushNumber
  BY <1>1, PushNumberInv
<1>2. CASE \E v \in Ref : PushRef(v)
  BY <1>2, PushRefInv
<1>3. CASE PopOperand
  BY <1>3, PopOperandInv
<1>4. CASE \E k \in Index : Load(k) \/ Store(k)
  BY <1>4, LoadInv, StoreInv
<1>5. CASE \E n \in 1..2, m \in 0..2 : Dup(n, m)
  BY <1>5, DupInv
<1>6. CASE \E p \in Site : Jump(p) \/ Catch(p)
  BY <1>6, JumpInv, CatchInv
<1>7. CASE \E m \in Method : Invoke(m)
  BY <1>7, InvokeInv
<1>8. CASE Return
  BY <1>8, ReturnInv
<1>9. CASE ReturnValue
  BY <1>9, ReturnValueInv
<1>10. CASE Throw
  BY <1>10, ThrowInv
<1>11. CASE Unwind
  BY <1>11, UnwindStep
<1>12. CASE UNCHANGED vars
  BY <1>12 DEF IInv, TypeOK, vars, Whole, BitsRight, Chain, RetInfo
<1> QED
  BY <1>1, <1>2, <1>3, <1>4, <1>5, <1>6, <1>7, <1>8, <1>9, <1>10, <1>11, <1>12 DEF Next

\* Whatever bytecode runs, the stack is never pushed beyond its limit or popped below
\* the base of the current method, and what a call packed is unpacked as itself.
THEOREM TypeCorrect == Spec => []TypeOK
<1>1. IInv => TypeOK
  BY DEF IInv
<1> QED BY <1>1, InitInv, NextInv, PTL DEF Spec

\* The collector can believe the reference bits of a stack: nothing that is a number,
\* return information or left behind by a frame that was popped has one.
THEOREM BitsAlwaysRight == Spec => []BitsNameHandles
<1>1. IInv => BitsNameHandles
  BY DEF IInv, BitsNameHandles, Whole, BitsRight, RefWord
<1> QED BY <1>1, InitInv, NextInv, PTL DEF Spec

\* An exception that no frame catches reaches the bottom of the stack: every turn of
\* the loop of ujThreadPrvThrow goes to a lower base.
THEOREM UnwindingAlwaysDescends == Spec => UnwindingDescends
<1>1. ASSUME IInv, [Next]_vars
      PROVE  [exc # 0 /\ exc' # 0 => th'.base < th.base]_vars
  <2> SUFFICES ASSUME Next, exc # 0, exc' # 0 PROVE th'.base < th.base
    BY <1>1
  <2>1. ~Ready /\ ~(\E p \in Site : Catch(p))
    BY DEF Ready, Catch
  <2>2. Unwind
    BY <2>1 DEF Next, PushNumber, PushRef, PopOperand, Load, Store, Dup, Jump, Invoke, Return,
                ReturnValue, Throw
  <2> QED BY <1>1, <2>2, UnwindStep
<1> QED BY <1>1, InitInv, NextInv, PTL DEF Spec, UnwindingDescends

-----------------------------------------------------------------------------
(* The frames of a packed stack. *)

\* The value of a word: its handle if it is a reference.
Cell(t, i) == IF t.bits[i] THEN t.stack[i][1] ELSE Number

\* Below n neither words nor bits have been written.
SameCells(t, u, n) ==
  \A k \in Index : k < n => u.stack[k] = t.stack[k] /\ u.bits[k] = t.bits[k]

JFrame == [this : Int, method : Int, pc : Int, sync : BOOLEAN, slots : Seq(Int)]

LEMMA CellTyped ==
  ASSUME NEW t \in Thread, NEW i \in Index
  PROVE  Cell(t, i) \in Int
<1>1. t.stack[i] \in Pair /\ t.bits[i] \in BOOLEAN
  BY DEF Thread, Pair
<1>2. t.stack[i][1] \in Int
  BY <1>1 DEF Pair
<1> QED BY <1>2 DEF Cell, Number

\* The slots between a base and a top.
LEMMA SlotsAre ==
  ASSUME NEW t \in Thread, NEW b \in Nat, NEW s \in 0..LIMIT, b <= s
  PROVE  /\ Slots(t, b, s) \in Seq(Int)
         /\ Len(Slots(t, b, s)) = s - b
         /\ \A k \in 1..(s - b) : /\ Slots(t, b, s)[k] = Cell(t, b + k - 1)
                                  /\ b + k - 1 \in Index
<1>1. s - b \in Nat /\ LIMIT \in Nat
  BY UjFramesAssumption
<1>2. \A k \in 1..(s - b) : b + k - 1 \in Index
  BY <1>1 DEF Index
<1>3. Slots(t, b, s) = [k \in 1..(s - b) |-> Cell(t, b + k - 1)]
  BY DEF Slots, Cell
<1>4. [k \in 1..(s - b) |-> Cell(t, b + k - 1)] \in [1..(s - b) -> Int]
  BY <1>2, CellTyped
<1>5. \A m \in Nat : \A q \in [1..m -> Int] : q \in Seq(Int) /\ Len(q) = m
  OBVIOUS
<1> QED BY <1>1, <1>2, <1>3, <1>4, <1>5

LEMMA SlotsSame ==
  ASSUME NEW t \in Thread, NEW u \in Thread, NEW b \in Nat, NEW s \in 0..LIMIT, b <= s,
         SameCells(t, u, s)
  PROVE  Slots(u, b, s) = Slots(t, b, s)
<1>1. \A k \in 1..(s - b) : b + k - 1 \in Index /\ b + k - 1 < s
  BY UjFramesAssumption DEF Index
<1>2. \A k \in 1..(s - b) : Cell(u, b + k - 1) = Cell(t, b + k - 1)
  BY <1>1 DEF SameCells, Cell
<1> QED BY <1>2 DEF Slots, Cell

\* A base that has return information below it.
HasCaller(t, b) == b >= RET /\ CallerBase(t, b) \in 0..(b - RET)

LEMMA CallerTyped ==
  ASSUME NEW t \in Thread, NEW b \in 0..LIMIT, HasCaller(t, b)
  PROVE  /\ Caller(t, b) \in JFrame
         /\ CallerBase(t, b) \in 0..LIMIT /\ CallerBase(t, b) < b
<1>1. /\ b \in Int /\ LIMIT \in Nat /\ b - RET \in 0..LIMIT /\ CallerBase(t, b) \in Nat
      /\ CallerBase(t, b) <= b - RET /\ CallerBase(t, b) \in 0..LIMIT /\ CallerBase(t, b) < b
      /\ b - 1 \in Index /\ b - 2 \in Index /\ b - 3 \in Index
  BY UjFramesAssumption DEF HasCaller, RET, Index
<1>2. t.stack[b - 1] \in Int \X Int /\ t.stack[b - 2] \in Int \X Int /\ t.stack[b - 3] \in Int \X Int
  BY <1>1 DEF Thread
<1>3. Slots(t, CallerBase(t, b), b - RET) \in Seq(Int)
  BY <1>1, SlotsAre
<1>4. FlagSync(t.stack[b - 1][1]) \in BOOLEAN
  BY DEF FlagSync
<1>5. Caller(t, b) \in JFrame
  BY <1>2, <1>3, <1>4 DEF Caller, JFrame
<1> QED BY <1>1, <1>5

\* Callers is the recursive function it is written as.
LEMMA CallersAre ==
  ASSUME NEW t \in Thread
  PROVE  /\ Callers(t) \in [0..LIMIT -> Seq(JFrame)]
         /\ \A b \in 0..LIMIT :
              Callers(t)[b] = IF HasCaller(t, b)
                              THEN Append(Callers(t)[CallerBase(t, b)], Caller(t, b))
                              ELSE <<>>
<1> DEFINE S == Seq(JFrame)
           D == 0..LIMIT
           F(b, f) == IF HasCaller(t, b) THEN Append(f[CallerBase(t, b)], Caller(t, b)) ELSE <<>>
           G == [b \in D |-> [f \in [D -> S] |-> F(b, f)]]
<1>1. LIMIT \in Nat /\ <<>> \in S
  BY UjFramesAssumption
<1>2. ASSUME NEW b \in D, NEW f \in [D -> S] PROVE F(b, f) \in S
  <2>1. CASE HasCaller(t, b)
    <3>1. Caller(t, b) \in JFrame /\ CallerBase(t, b) \in D
      BY <2>1, CallerTyped
    <3>2. f[CallerBase(t, b)] \in S
      BY <3>1
    <3> QED BY <2>1, <3>1, <3>2
  <2>2. CASE ~HasCaller(t, b)
    BY <1>1, <2>2
  <2> QED BY <2>1, <2>2
<1>3. ASSUME NEW b \in D, NEW f \in [D -> S], NEW g \in [D -> S],
             \A j \in D : j < b => f[j] = g[j]
      PROVE  F(b, f) = F(b, g)
  BY <1>3, CallerTyped
<1> HIDE DEF F, S
<1>4. \A b \in D : \A f \in [D -> S] : G[b][f] = F(b, f)
  OBVIOUS
<1>5. G \in [D -> [[D -> S] -> S]] /\ S # {}
  BY <1>1, <1>2
<1> HIDE DEF G
<1>6. \E f \in [D -> S] : \A b \in D : f[b] = F(b, f)
  <2>1. \A b \in D : \A f, g \in [D -> S] :
          (\A j \in D : j < b => f[j] = g[j]) => G[b][f] = G[b][g]
    <3> SUFFICES ASSUME NEW b \in D, NEW f \in [D -> S], NEW g \in [D -> S],
                        \A j \in D : j < b => f[j] = g[j]
                 PROVE  G[b][f] = G[b][g]
      OBVIOUS
    <3>1. F(b, f) = F(b, g)
      BY <1>3
    <3> QED BY <1>4, <3>1
  <2>2. \E f \in [D -> S] : \A b \in D : f[b] = G[b][f]
    <3>1. FromBelow(LIMIT, S, G)
      BY <1>1, <1>5, <2>1 DEF FromBelow
    <3> QED BY <3>1, RecursiveFunction
  <2> QED BY <1>4, <2>2
<1>7. \E f \in [D -> S] : f = [b \in D |-> F(b, f)]
  BY <1>6
<1>8. Callers(t) = CHOOSE f : f = [b \in D |-> F(b, f)]
  BY DEF Callers, F, HasCaller
<1>9. Callers(t) = [b \in D |-> F(b, Callers(t))]
  BY <1>7, <1>8
<1>10. \A b \in D : Callers(t)[b] = F(b, Callers(t))
  BY <1>9
<1>11. Callers(t) \in [D -> S]
  <2> DEFINE T == {b \in D : Callers(t)[b] \notin S}
  <2>1. SUFFICES ASSUME T # {} PROVE FALSE
    <3>1. \A b \in D : Callers(t)[b] \in S
      BY <2>1
    <3> QED BY <1>9, <3>1
  <2>2. PICK b \in T : \A y \in T : b <= y
    <3>1. T \subseteq D /\ D \subseteq Nat
      BY <1>1
    <3>2. T \in SUBSET Nat
      BY <3>1
    <3> HIDE DEF T
    <3> QED BY <2>1, <3>2, LeastNat
  <2>3. b \in D /\ Callers(t)[b] \notin S
    BY <2>2
  <2>4. CASE HasCaller(t, b)
    <3>1. Caller(t, b) \in JFrame /\ CallerBase(t, b) \in D /\ CallerBase(t, b) < b
      BY <2>3, <2>4, CallerTyped
    <3>2. Callers(t)[CallerBase(t, b)] \in S
      <4>1. CallerBase(t, b) \notin T
        BY <2>2, <2>3, <3>1
      <4> QED BY <3>1, <4>1
    <3>3. Append(Callers(t)[CallerBase(t, b)], Caller(t, b)) \in S
      BY <3>1, <3>2 DEF S
    <3> QED BY <1>10, <2>3, <2>4, <3>3 DEF F
  <2>5. CASE ~HasCaller(t, b)
    BY <1>1, <1>10, <2>3, <2>5 DEF F
  <2> QED BY <2>4, <2>5
<1> QED BY <1>10, <1>11 DEF F, S

\* What is above a base does not matter to the frames below it.
LEMMA CallersSame ==
  ASSUME NEW t \in Thread, NEW u \in Thread, NEW b \in 0..LIMIT, SameCells(t, u, b)
  PROVE  Callers(u)[b] = Callers(t)[b]
<1> DEFINE T == {d \in 0..LIMIT : d <= b /\ Callers(u)[d] # Callers(t)[d]}
<1>1. SUFFICES ASSUME T # {} PROVE FALSE
  <2>1. b \in 0..LIMIT /\ b <= b /\ b \notin T
    BY <1>1, UjFramesAssumption
  <2> QED BY <2>1
<1>2. PICK d \in T : \A y \in T : d <= y
  <2>1. T \subseteq 0..LIMIT /\ 0..LIMIT \subseteq Nat
    BY UjFramesAssumption
  <2>2. T \in SUBSET Nat
    BY <2>1
  <2> HIDE DEF T
  <2> QED BY <1>1, <2>2, LeastNat
<1>3. d \in 0..LIMIT /\ d <= b /\ Callers(u)[d] # Callers(t)[d]
  BY <1>2
<1>4. SameCells(t, u, d)
  BY <1>3, UjFramesAssumption DEF SameCells, Index
<1>5. CASE d < RET
  <2>1. ~HasCaller(t, d) /\ ~HasCaller(u, d)
    BY <1>3, <1>5, UjFramesAssumption DEF HasCaller, RET
  <2> QED BY <1>3, <2>1, CallersAre
<1>6. CASE d >= RET
  <2>1. /\ d - 1 \in Index /\ d - 2 \in Index /\ d - 3 \in Index
        /\ d - 1 < d /\ d - 2 < d /\ d - 3 < d /\ d - RET \in 0..LIMIT /\ d - RET < d
    BY <1>3, <1>6, UjFramesAssumption DEF RET, Index
  <2>2. /\ u.stack[d - 1] = t.stack[d - 1] /\ u.stack[d - 2] = t.stack[d - 2]
        /\ u.stack[d - 3] = t.stack[d - 3]
    BY <1>4, <2>1 DEF SameCells
  <2>3. CallerBase(u, d) = CallerBase(t, d) /\ (HasCaller(u, d) <=> HasCaller(t, d))
    BY <2>2 DEF CallerBase, HasCaller
  <2>4. CASE HasCaller(t, d)
    <3> DEFINE c == CallerBase(t, d)
    <3>1. c \in 0..LIMIT /\ c < d /\ c \in Nat /\ c <= d - RET
      BY <1>3, <2>4, CallerTyped, UjFramesAssumption DEF HasCaller
    <3> HIDE DEF c
    <3>2. Callers(u)[c] = Callers(t)[c]
      <4>1. c \notin T
        BY <1>2, <1>3, <3>1, UjFramesAssumption
      <4>2. c <= b
        BY <1>3, <3>1, UjFramesAssumption
      <4> QED BY <3>1, <4>1, <4>2
    <3>3. SameCells(t, u, d - RET)
      BY <1>4, <2>1, <1>3 DEF SameCells, Index
    <3>4. Slots(u, c, d - RET) = Slots(t, c, d - RET)
      BY <2>1, <3>1, <3>3, SlotsSame
    <3>5. Caller(u, d) = Caller(t, d)
      BY <2>2, <2>3, <3>4 DEF Caller, c
    <3> QED BY <1>3, <2>3, <2>4, <3>2, <3>5, CallersAre DEF c
  <2>5. CASE ~HasCaller(t, d)
    BY <1>3, <2>3, <2>5, CallersAre
  <2> QED BY <2>4, <2>5
<1>7. d \in Int
  BY <1>3
<1> QED BY <1>5, <1>6, <1>7 DEF RET

\* A sequence that has been appended to.
LEMMA Appended ==
  ASSUME NEW S, NEW s \in Seq(S), NEW e \in S
  PROVE  /\ Append(s, e) \in Seq(S) /\ Append(s, e) # <<>>
         /\ Len(Append(s, e)) = Len(s) + 1 /\ Len(s) \in Nat
         /\ Front(Append(s, e)) = s /\ Last(Append(s, e)) = e
<1>1. /\ Append(s, e) \in Seq(S) /\ Len(Append(s, e)) = Len(s) + 1 /\ Len(s) \in Nat
      /\ Append(s, e)[Len(s) + 1] = e
      /\ \A k \in 1..Len(s) : Append(s, e)[k] = s[k]
  OBVIOUS
<1> DEFINE a == Append(s, e)
<1> HIDE DEF a
<1>2. SubSeq(a, 1, Len(s)) = s
  <2>1. \A k \in 1..Len(s) : a[k] = s[k] /\ a[k] \in S
    BY <1>1 DEF a
  <2>2. /\ SubSeq(a, 1, Len(s)) \in Seq(S) /\ Len(SubSeq(a, 1, Len(s))) = Len(s)
        /\ \A k \in 1..Len(s) : SubSeq(a, 1, Len(s))[k] = a[k]
    <3>1. /\ SubSeq(a, 1, Len(s)) \in Seq(S)
          /\ Len(SubSeq(a, 1, Len(s))) = IF 1 <= Len(s) THEN Len(s) - 1 + 1 ELSE 0
          /\ \A k \in 1..(Len(s) - 1 + 1) : SubSeq(a, 1, Len(s))[k] = a[1 + k - 1]
      BY <1>1, <2>1, SubSeqProperties
    <3> QED BY <1>1, <3>1
  <2> QED BY <2>1, <2>2, SeqEqual
<1>3. Front(a) = s /\ Last(a) = e /\ a # <<>>
  BY <1>1, <1>2 DEF a, Front, Last
<1> QED BY <1>1, <1>3 DEF a

-----------------------------------------------------------------------------
(* The running frame. *)

\* What is needed of a thread to read its frames.
Readable(t) == t \in Thread /\ t.base <= t.sp

LEMMA RunningTyped ==
  ASSUME NEW t, Readable(t)
  PROVE  /\ Running(t) \in JFrame /\ Running(t).slots = Slots(t, t.base, t.sp)
         /\ Running(t).method = t.method
         /\ StackOfFrames(t) \in Seq(JFrame) /\ StackOfFrames(t) # <<>>
         /\ Front(StackOfFrames(t)) = Callers(t)[t.base]
         /\ Last(StackOfFrames(t)) = Running(t)
         /\ Len(StackOfFrames(t)) = Len(Callers(t)[t.base]) + 1
         /\ Len(Callers(t)[t.base]) \in Nat
<1>1. /\ t \in Thread /\ t.base \in 0..LIMIT /\ t.sp \in 0..LIMIT /\ t.base <= t.sp /\ t.base \in Nat
      /\ t.method \in Int /\ t.pc \in Int /\ t.sync \in BOOLEAN /\ t.inst \in Int
  <2>1. /\ t \in Thread /\ t.base <= t.sp /\ t.base \in 0..LIMIT /\ t.sp \in 0..LIMIT
        /\ t.method \in Method /\ t.pc \in Site /\ t.sync \in BOOLEAN /\ t.inst \in Ref
    BY DEF Readable, Thread
  <2>2. Method \subseteq Int /\ Site \subseteq Int /\ Ref \subseteq Int /\ 0..LIMIT \subseteq Nat
    BY UjFramesAssumption DEF Ref
  <2> QED BY <2>1, <2>2
<1>2. Slots(t, t.base, t.sp) \in Seq(Int)
  BY <1>1, SlotsAre
<1>3. Running(t) \in JFrame
  BY <1>1, <1>2 DEF Running, JFrame
<1>4. Callers(t)[t.base] \in Seq(JFrame)
  BY <1>1, CallersAre
<1> QED BY <1>3, <1>4, Appended DEF StackOfFrames, Running

\* A step that leaves what is below the base alone gives the running frame other slots.
LEMMA OtherSlots ==
  ASSUME NEW t, Readable(t), NEW u, Readable(u), SameMethod(t, u), SameCells(t, u, t.base)
  PROVE  StackOfFrames(u) = Append(Front(StackOfFrames(t)),
                                   [Last(StackOfFrames(t)) EXCEPT !.slots = Slots(u, u.base, u.sp)])
<1>1. /\ t \in Thread /\ u \in Thread /\ t.base \in 0..LIMIT /\ u.base = t.base
  BY DEF Readable, Thread, SameMethod
<1>2. Callers(u)[t.base] = Callers(t)[t.base]
  BY <1>1, CallersSame
<1>3. Running(u) = [Running(t) EXCEPT !.slots = Slots(u, u.base, u.sp)]
  BY DEF Running, SameMethod
<1> QED BY <1>1, <1>2, <1>3, RunningTyped DEF StackOfFrames

\* So slots can be compared one by one.
LEMMA SlotsEqual ==
  ASSUME NEW u, Readable(u), NEW q \in Seq(Int), Len(q) = u.sp - u.base,
         \A k \in 1..Len(q) : q[k] = Cell(u, u.base + k - 1)
  PROVE  Slots(u, u.base, u.sp) = q
<1>1. u \in Thread /\ u.base \in Nat /\ u.sp \in 0..LIMIT /\ u.base <= u.sp
  BY UjFramesAssumption DEF Readable, Thread
<1> DEFINE r == Slots(u, u.base, u.sp)
<1>2. /\ r \in Seq(Int) /\ Len(r) = u.sp - u.base
      /\ \A k \in 1..(u.sp - u.base) : r[k] = Cell(u, u.base + k - 1)
  BY <1>1, SlotsAre
<1> HIDE DEF r
<1>3. \A k \in 1..Len(r) : r[k] = q[k]
  BY <1>2
<1> QED BY <1>2, <1>3, SeqEqual DEF r

WithSlots(F, q) == Append(Front(F), [Last(F) EXCEPT !.slots = q])
TopSlots(t) == Last(StackOfFrames(t)).slots

\* What a word and a bit that are written mean.
Meant(w, r) == IF r THEN w[1] ELSE Number

LEMMA BoundsOf ==
  ASSUME NEW t, Readable(t)
  PROVE  /\ t \in Thread /\ t.sp \in 0..LIMIT /\ t.base \in 0..LIMIT /\ t.base <= t.sp
         /\ t.sp \in Int /\ t.base \in Nat /\ LIMIT \in Nat /\ t.sp - t.base \in Nat
BY UjFramesAssumption DEF Readable, Thread

LEMMA NumbersOf ==
  ASSUME NEW t, Readable(t)
  PROVE  /\ t \in Thread /\ t.sp \in 0..LIMIT /\ t.base \in 0..LIMIT /\ t.base <= t.sp
         /\ t.sp \in Int /\ t.base \in Nat /\ LIMIT \in Nat /\ t.sp - t.base \in Nat
         /\ TopSlots(t) = Slots(t, t.base, t.sp)
         /\ TopSlots(t) \in Seq(Int) /\ Len(TopSlots(t)) = t.sp - t.base
         /\ \A k \in 1..(t.sp - t.base) : /\ TopSlots(t)[k] = Cell(t, t.base + k - 1)
                                          /\ t.base + k - 1 \in Index
<1>1. /\ t \in Thread /\ t.sp \in 0..LIMIT /\ t.base \in 0..LIMIT /\ t.base <= t.sp
      /\ t.sp \in Int /\ t.base \in Nat /\ LIMIT \in Nat /\ t.sp - t.base \in Nat
  BY BoundsOf
<1>2. TopSlots(t) = Slots(t, t.base, t.sp)
  BY RunningTyped DEF TopSlots
<1>3. /\ Slots(t, t.base, t.sp) \in Seq(Int) /\ Len(Slots(t, t.base, t.sp)) = t.sp - t.base
      /\ \A k \in 1..(t.sp - t.base) : /\ Slots(t, t.base, t.sp)[k] = Cell(t, t.base + k - 1)
                                       /\ t.base + k - 1 \in Index
  BY <1>1, SlotsAre
<1> QED BY <1>1, <1>2, <1>3

\* Push appends a slot.
LEMMA PushFrames ==
  ASSUME NEW t, Readable(t), BitsRight(t), t.sp < LIMIT, NEW w \in Pair, NEW r \in BOOLEAN
  PROVE  /\ Readable(Push(t, w, r))
         /\ StackOfFrames(Push(t, w, r)) =
              WithSlots(StackOfFrames(t), Append(TopSlots(t), Meant(w, r)))
<1> DEFINE u == Push(t, w, r)
           q == Append(TopSlots(t), Meant(w, r))
<1>1. /\ u \in Thread /\ SameMethod(t, u) /\ u.sp = t.sp + 1 /\ t.sp \in Index
      /\ \A k \in Index : /\ u.stack[k] = IF k = t.sp THEN w ELSE t.stack[k]
                          /\ u.bits[k] = IF k = t.sp THEN t.bits[k] \/ r ELSE t.bits[k]
  BY PushFields, NumbersOf
<1> HIDE DEF u
<1>2. Readable(u) /\ u.base = t.base
  BY <1>1, NumbersOf DEF Readable, SameMethod
<1>3. SameCells(t, u, t.sp)
  BY <1>1 DEF SameCells, Index
<1>4. SameCells(t, u, t.base)
  BY <1>3, NumbersOf DEF SameCells, Index
<1>5. Cell(u, t.sp) = Meant(w, r)
  <2>1. ~t.bits[t.sp]
    BY <1>1, NumbersOf DEF BitsRight
  <2> QED BY <1>1, <2>1 DEF Cell, Meant
<1>6. Meant(w, r) \in Int
  BY DEF Meant, Number, Pair
<1>7. /\ q \in Seq(Int) /\ Len(q) = u.sp - u.base
      /\ \A k \in 1..Len(q) : q[k] = IF k = Len(q) THEN Meant(w, r) ELSE TopSlots(t)[k]
  BY <1>1, <1>2, <1>6, NumbersOf
<1> HIDE DEF q
<1>8. ASSUME NEW k \in 1..Len(q) PROVE q[k] = Cell(u, u.base + k - 1)
  <2>1. CASE k = Len(q)
    <3>1. u.base + k - 1 = t.sp
      BY <1>1, <1>2, <1>7, <2>1, BoundsOf
    <3> QED BY <1>5, <1>7, <2>1, <3>1
  <2>2. CASE k # Len(q)
    <3>1. k \in 1..(t.sp - t.base) /\ t.base + k - 1 < t.sp
      BY <1>1, <1>2, <1>7, <2>2, BoundsOf
    <3>2. t.base + k - 1 \in Index /\ q[k] = Cell(t, t.base + k - 1)
      BY <1>7, <2>2, <3>1, NumbersOf
    <3> QED BY <1>2, <1>3, <3>1, <3>2 DEF SameCells, Cell
  <2> QED BY <2>1, <2>2
<1>9. Slots(u, u.base, u.sp) = q
  BY <1>2, <1>7, <1>8, SlotsEqual
<1> QED BY <1>1, <1>2, <1>4, <1>9, OtherSlots DEF WithSlots, u, q

\* A step that only takes slots away from the top.
LEMMA FewerSlots ==
  ASSUME NEW t, Readable(t), NEW u \in Thread, SameMethod(t, u), t.base <= u.sp, u.sp <= t.sp,
         SameCells(t, u, u.sp)
  PROVE  /\ Readable(u)
         /\ StackOfFrames(u) =
              WithSlots(StackOfFrames(t), SubSeq(TopSlots(t), 1, u.sp - u.base))
         /\ TopSlots(u) = SubSeq(TopSlots(t), 1, u.sp - u.base)
<1> DEFINE q == SubSeq(TopSlots(t), 1, u.sp - u.base)
<1>1. Readable(u) /\ u.base = t.base /\ u.sp \in 0..LIMIT /\ u.sp - u.base \in Nat
      /\ u.sp - u.base <= t.sp - t.base
  BY NumbersOf DEF Readable, SameMethod, Thread
<1>2. SameCells(t, u, t.base)
  <2>1. \A k \in Index : k < t.base => k < u.sp
    BY <1>1, BoundsOf DEF Index
  <2> QED BY <2>1 DEF SameCells
<1>3. \A k \in 1..(u.sp - u.base) : TopSlots(t)[k] \in Int /\ t.base + k - 1 < u.sp
                                    /\ k \in 1..(t.sp - t.base)
  <2>1. \A k \in 1..(u.sp - u.base) : t.base + k - 1 < u.sp /\ k \in 1..(t.sp - t.base)
    BY <1>1, BoundsOf
  <2>2. TopSlots(t) \in Seq(Int) /\ Len(TopSlots(t)) = t.sp - t.base
    BY NumbersOf
  <2> QED BY <2>1, <2>2
<1>4. /\ q \in Seq(Int) /\ Len(q) = u.sp - u.base
      /\ \A k \in 1..Len(q) : q[k] = TopSlots(t)[k]
  <2>1. /\ q \in Seq(Int) /\ Len(q) = IF 1 <= u.sp - u.base THEN u.sp - u.base - 1 + 1 ELSE 0
        /\ \A k \in 1..(u.sp - u.base - 1 + 1) : q[k] = TopSlots(t)[1 + k - 1]
    BY <1>1, <1>3, SubSeqProperties
  <2> HIDE DEF q
  <2> QED BY <1>1, <2>1
<1> HIDE DEF q
<1>5. ASSUME NEW k \in 1..Len(q) PROVE q[k] = Cell(u, u.base + k - 1)
  <2>1. k \in 1..(t.sp - t.base) /\ t.base + k - 1 < u.sp
    BY <1>3, <1>4
  <2>2. t.base + k - 1 \in Index /\ q[k] = Cell(t, t.base + k - 1)
    BY <1>4, <2>1, NumbersOf
  <2> QED BY <1>1, <2>1, <2>2 DEF SameCells, Cell
<1>6. Slots(u, u.base, u.sp) = q
  BY <1>1, <1>4, <1>5, SlotsEqual
<1>7. TopSlots(u) = q
  BY <1>1, <1>6, NumbersOf
<1> QED BY <1>1, <1>2, <1>6, <1>7, OtherSlots DEF WithSlots, q

\* PopTo takes slots away; below it writes neither words nor bits.
LEMMA PopToCells ==
  ASSUME NEW t \in Thread, NEW s \in 0..LIMIT
  PROVE  SameCells(t, PopTo(t, s), s)
<1> DEFINE u == PopTo(t, s)
<1>1. /\ u.stack = [k \in Index |-> IF k < s THEN t.stack[k] ELSE NoWord]
      /\ u.bits = [k \in Index |-> t.bits[k] /\ k \notin s..(t.sp - 1)]
      /\ t.bits \in [Index -> BOOLEAN]
  BY DEF PopTo, Thread
<1> HIDE DEF u
<1>2. \A k \in Index : k < s => k \notin s..(t.sp - 1)
  BY DEF Index
<1> QED BY <1>1, <1>2 DEF SameCells, u

LEMMA PopToFrames ==
  ASSUME NEW t, Readable(t), BitsRight(t), NEW s \in 0..LIMIT, t.base <= s, s <= t.sp
  PROVE  /\ Readable(PopTo(t, s)) /\ BitsRight(PopTo(t, s))
         /\ StackOfFrames(PopTo(t, s)) =
              WithSlots(StackOfFrames(t), SubSeq(TopSlots(t), 1, s - t.base))
         /\ TopSlots(PopTo(t, s)) = SubSeq(TopSlots(t), 1, s - t.base)
<1> DEFINE u == PopTo(t, s)
<1>1. u \in Thread /\ BitsRight(u) /\ SameMethod(t, u) /\ u.sp = s
  BY BoundsOf, PopToOK
<1>2. SameCells(t, u, s)
  BY BoundsOf, PopToCells
<1> HIDE DEF u
<1>3. u.base = t.base
  BY <1>1 DEF SameMethod
<1> QED BY <1>1, <1>2, <1>3, FewerSlots DEF u

LEMMA PopCells ==
  ASSUME NEW t \in Thread, t.sp > 0
  PROVE  SameCells(t, Pop(t), t.sp - 1)
<1> DEFINE u == Pop(t)
<1>1. /\ u.stack = [t.stack EXCEPT ![t.sp - 1] = NoWord]
      /\ u.bits = [t.bits EXCEPT ![t.sp - 1] = FALSE]
      /\ t.bits \in [Index -> BOOLEAN] /\ t.stack \in [Index -> Pair]
  BY DEF Pop, Thread, Pair
<1> HIDE DEF u
<1>2. \A k \in Index : k < t.sp - 1 => k # t.sp - 1
  BY DEF Index, Thread
<1> QED BY <1>1, <1>2 DEF SameCells, u

LEMMA PopFrames ==
  ASSUME NEW t, Readable(t), BitsRight(t), t.base < t.sp
  PROVE  /\ Readable(Pop(t)) /\ BitsRight(Pop(t)) /\ SameMethod(t, Pop(t)) /\ Pop(t).sp = t.sp - 1
         /\ StackOfFrames(Pop(t)) =
              WithSlots(StackOfFrames(t), SubSeq(TopSlots(t), 1, t.sp - 1 - t.base))
         /\ TopSlots(Pop(t)) = SubSeq(TopSlots(t), 1, t.sp - 1 - t.base)
         /\ Meant(Peek(t, 0), PeekBit(t, 0)) = Last(TopSlots(t))
         /\ Meant(Peek(t, 0), PeekBit(t, 0)) \in Int
<1> DEFINE u == Pop(t)
<1>1. t.sp > 0 /\ t.base <= t.sp - 1 /\ t.sp - 1 \in 0..LIMIT /\ t.sp - 1 <= t.sp
  BY BoundsOf
<1>2. u \in Thread /\ BitsRight(u) /\ SameMethod(t, u) /\ u.sp = t.sp - 1
  BY <1>1, BoundsOf, PopOK
<1>3. SameCells(t, u, t.sp - 1)
  BY <1>1, BoundsOf, PopCells
<1> HIDE DEF u
<1>4. u.base = t.base
  BY <1>2 DEF SameMethod
<1>5. Readable(u)
  BY <1>1, <1>2, <1>4 DEF Readable
<1>6. t.base + (t.sp - t.base) - 1 = t.sp - 1 /\ t.sp - (0 + 1) = t.sp - 1
      /\ t.sp - t.base \in 1..(t.sp - t.base)
  BY <1>1, BoundsOf
<1>7. Last(TopSlots(t)) = Cell(t, t.sp - 1) /\ t.sp - 1 \in Index
  <2>1. Last(TopSlots(t)) = TopSlots(t)[t.sp - t.base]
    BY NumbersOf DEF Last
  <2>2. /\ TopSlots(t)[t.sp - t.base] = Cell(t, t.base + (t.sp - t.base) - 1)
        /\ t.base + (t.sp - t.base) - 1 \in Index
    BY <1>6, NumbersOf
  <2> QED BY <1>6, <2>1, <2>2
<1>8. Meant(Peek(t, 0), PeekBit(t, 0)) = Cell(t, t.sp - 1)
  BY <1>6 DEF Meant, Peek, PeekBit, Cell
<1> QED BY <1>1, <1>2, <1>3, <1>4, <1>5, <1>7, <1>8, FewerSlots, CellTyped, BoundsOf DEF u

\* A local variable is one slot.
LEMMA StoreFrames ==
  ASSUME NEW t, Readable(t), BitsRight(t), NEW k \in Nat, t.base + k < t.sp,
         NEW w \in Pair, NEW r \in BOOLEAN, r => w \in RefWord
  PROVE  /\ Readable(LocalStore(t, k, w, r))
         /\ StackOfFrames(LocalStore(t, k, w, r)) =
              WithSlots(StackOfFrames(t), [TopSlots(t) EXCEPT ![k + 1] = Meant(w, r)])
<1> DEFINE u == LocalStore(t, k, w, r)
           p == t.base + k
           q == [TopSlots(t) EXCEPT ![k + 1] = Meant(w, r)]
<1>1. /\ t.stack \in [Index -> Pair] /\ t.bits \in [Index -> BOOLEAN]
      /\ p \in Index /\ p \in Int
  BY BoundsOf DEF Thread, Pair, Index
<1>2. u \in Thread /\ SameMethod(t, u) /\ u.sp = t.sp
  BY BoundsOf, LocalStoreOK
<1>3. u.stack = [t.stack EXCEPT ![p] = w] /\ u.bits = [t.bits EXCEPT ![p] = r]
  BY BoundsOf DEF LocalStore, Thread
<1> HIDE DEF u, p
<1>4. \A j \in Index : /\ u.stack[j] = IF j = p THEN w ELSE t.stack[j]
                       /\ u.bits[j] = IF j = p THEN r ELSE t.bits[j]
  BY <1>1, <1>3
<1>5. \A j \in Index : Cell(u, j) = IF j = p THEN Meant(w, r) ELSE Cell(t, j)
  BY <1>4 DEF Cell, Meant
<1>6. SameCells(t, u, t.base)
  <2>1. \A j \in Index : j < t.base => j # p
    BY BoundsOf DEF Index, p
  <2> QED BY <1>4, <2>1 DEF SameCells
<1>7. Readable(u) /\ u.base = t.base
  BY <1>2 DEF Readable, SameMethod
<1>8. Meant(w, r) \in Int
  BY DEF Meant, Number, Pair
<1>9. k + 1 \in 1..(t.sp - t.base)
  BY BoundsOf
<1>10. /\ q \in Seq(Int) /\ Len(q) = u.sp - u.base
       /\ \A j \in 1..Len(q) : q[j] = IF j = k + 1 THEN Meant(w, r) ELSE TopSlots(t)[j]
  <2>1. TopSlots(t) \in Seq(Int) /\ Len(TopSlots(t)) = t.sp - t.base
    BY NumbersOf
  <2> QED BY <1>2, <1>7, <1>8, <1>9, <2>1, ExceptSeq
<1> HIDE DEF q
<1>11. ASSUME NEW j \in 1..Len(q) PROVE q[j] = Cell(u, u.base + j - 1)
  <2>1. j \in 1..(t.sp - t.base)
    BY <1>2, <1>7, <1>10
  <2>2. TopSlots(t)[j] = Cell(t, t.base + j - 1) /\ t.base + j - 1 \in Index
    BY <2>1, NumbersOf
  <2>3. t.base + j - 1 = p <=> j = k + 1
    BY <2>1, BoundsOf DEF p
  <2> QED BY <1>5, <1>7, <1>10, <2>2, <2>3
<1>12. Slots(u, u.base, u.sp) = q
  BY <1>7, <1>10, <1>11, SlotsEqual
<1> QED BY <1>2, <1>6, <1>7, <1>12, OtherSlots DEF WithSlots, u, q

\* The part of a frame's slots from one place to another.
LEMMA PartOf ==
  ASSUME NEW q \in Seq(Int), NEW m \in 1..(Len(q) + 1), NEW n \in 0..Len(q), m <= n + 1
  PROVE  /\ SubSeq(q, m, n) \in Seq(Int) /\ Len(SubSeq(q, m, n)) = n - m + 1
         /\ \A j \in 1..(n - m + 1) : SubSeq(q, m, n)[j] = q[m + j - 1]
<1>1. \A j \in m..n : q[j] \in Int
  <2>1. \A j \in m..n : j \in 1..Len(q)
    OBVIOUS
  <2> QED BY <2>1
<1>2. m \in Int /\ n \in Int
  OBVIOUS
<1>3. /\ SubSeq(q, m, n) \in Seq(Int)
      /\ Len(SubSeq(q, m, n)) = IF m <= n THEN n - m + 1 ELSE 0
      /\ \A j \in 1..(n - m + 1) : SubSeq(q, m, n)[j] = q[m + j - 1]
  BY <1>1, <1>2, SubSeqProperties
<1> QED BY <1>2, <1>3

\* Three sequences one after another.
LEMMA ThreeParts ==
  ASSUME NEW a \in Seq(Int), NEW b \in Seq(Int), NEW c \in Seq(Int)
  PROVE  /\ a \o b \o c \in Seq(Int) /\ Len(a \o b \o c) = Len(a) + Len(b) + Len(c)
         /\ \A j \in 1..(Len(a) + Len(b) + Len(c)) :
              (a \o b \o c)[j] = IF j <= Len(a) THEN a[j]
                                 ELSE IF j <= Len(a) + Len(b) THEN b[j - Len(a)]
                                 ELSE c[j - (Len(a) + Len(b))]
<1>1. /\ a \o b \in Seq(Int) /\ Len(a \o b) = Len(a) + Len(b)
      /\ \A j \in 1..(Len(a) + Len(b)) : (a \o b)[j] = IF j <= Len(a) THEN a[j] ELSE b[j - Len(a)]
  BY ConcatProperties
<1> DEFINE d == a \o b
<1> HIDE DEF d
<1>2. /\ d \o c \in Seq(Int) /\ Len(d \o c) = Len(d) + Len(c)
      /\ \A j \in 1..(Len(d) + Len(c)) : (d \o c)[j] = IF j <= Len(d) THEN d[j] ELSE c[j - Len(d)]
  BY <1>1, ConcatProperties DEF d
<1>3. Len(a) \in Nat /\ Len(b) \in Nat /\ Len(c) \in Nat /\ Len(d) = Len(a) + Len(b)
  BY <1>1 DEF d
<1>4. ASSUME NEW j \in 1..(Len(a) + Len(b) + Len(c))
      PROVE  (d \o c)[j] = IF j <= Len(a) THEN a[j]
                           ELSE IF j <= Len(a) + Len(b) THEN b[j - Len(a)]
                           ELSE c[j - (Len(a) + Len(b))]
  <2>1. j \in 1..(Len(d) + Len(c)) /\ (j <= Len(a) => j <= Len(d))
    BY <1>3
  <2>2. CASE j <= Len(d)
    <3>1. d[j] = IF j <= Len(a) THEN a[j] ELSE b[j - Len(a)]
      BY <1>1, <1>3, <2>2 DEF d
    <3> QED BY <1>2, <1>3, <2>1, <2>2, <3>1
  <2>3. CASE ~(j <= Len(d))
    BY <1>2, <1>3, <2>1, <2>3
  <2> QED BY <2>2, <2>3
<1> QED BY <1>2, <1>3, <1>4 DEF d

\* A dup inserts n slots again below the n + m on top.
DropOf(q, n) == SubSeq(q, 1, Len(q) - n)
LastOf(q, n) == SubSeq(q, Len(q) - n + 1, Len(q))

LEMMA DropIs ==
  ASSUME NEW q \in Seq(Int), NEW n \in Nat, n <= Len(q)
  PROVE  /\ DropOf(q, n) \in Seq(Int) /\ Len(DropOf(q, n)) = Len(q) - n
         /\ \A j \in 1..(Len(q) - n) : DropOf(q, n)[j] = q[j]
<1> DEFINE l == Len(q)
<1>1. /\ l \in Nat /\ 1 \in 1..(l + 1) /\ l - n \in 0..l /\ 1 <= l - n + 1
      /\ l - n - 1 + 1 = l - n
  OBVIOUS
<1>2. \A j \in Int : 1 + j - 1 = j
  OBVIOUS
<1>3. /\ DropOf(q, n) \in Seq(Int) /\ Len(DropOf(q, n)) = l - n - 1 + 1
      /\ \A j \in 1..(l - n - 1 + 1) : DropOf(q, n)[j] = q[1 + j - 1]
  BY <1>1, PartOf DEF DropOf
<1> HIDE DEF l
<1>4. /\ DropOf(q, n) \in Seq(Int) /\ Len(DropOf(q, n)) = l - n
      /\ \A j \in 1..(l - n) : DropOf(q, n)[j] = q[j]
  BY <1>1, <1>2, <1>3
<1> QED BY <1>4 DEF l

LEMMA LastIs ==
  ASSUME NEW q \in Seq(Int), NEW n \in Nat, n <= Len(q)
  PROVE  /\ LastOf(q, n) \in Seq(Int) /\ Len(LastOf(q, n)) = n
         /\ \A j \in 1..n : LastOf(q, n)[j] = q[Len(q) - n + j]
<1> DEFINE l == Len(q)
<1>1. /\ l \in Nat /\ l - n + 1 \in 1..(l + 1) /\ l \in 0..l /\ l - n + 1 <= l + 1
      /\ l - (l - n + 1) + 1 = n
  OBVIOUS
<1>2. \A j \in 1..n : l - n + 1 + j - 1 = l - n + j
  BY <1>1
<1>3. /\ LastOf(q, n) \in Seq(Int) /\ Len(LastOf(q, n)) = l - (l - n + 1) + 1
      /\ \A j \in 1..(l - (l - n + 1) + 1) : LastOf(q, n)[j] = q[l - n + 1 + j - 1]
  BY <1>1, PartOf DEF LastOf
<1> HIDE DEF l
<1>4. /\ LastOf(q, n) \in Seq(Int) /\ Len(LastOf(q, n)) = n
      /\ \A j \in 1..n : LastOf(q, n)[j] = q[l - n + j]
  BY <1>1, <1>2, <1>3
<1> QED BY <1>4 DEF l

LEMMA DupFrames ==
  ASSUME NEW t, Readable(t), BitsRight(t), NEW n \in 1..2, NEW m \in 0..2,
         t.base + n + m <= t.sp, t.sp + n <= LIMIT
  PROVE  /\ Readable(DupOf(t, n, m))
         /\ StackOfFrames(DupOf(t, n, m)) =
              WithSlots(StackOfFrames(t),
                        DropOf(TopSlots(t), n + m) \o LastOf(TopSlots(t), n)
                          \o LastOf(TopSlots(t), n + m))
<1> DEFINE u == DupOf(t, n, m)
           q == TopSlots(t)
           l == t.sp - t.base
           s == n + m
           a == DropOf(q, s)
           b == LastOf(q, n)
           c == LastOf(q, s)
           r == a \o b \o c
<1>1. /\ t.sp \in Int /\ t.base \in Nat /\ LIMIT \in Nat /\ n \in Nat /\ m \in Nat
      /\ s \in Nat /\ s = n + m
      /\ s <= t.sp /\ s <= l /\ l \in Nat /\ t.sp = t.base + l /\ t.sp + n <= LIMIT
  BY BoundsOf
<1>2. /\ u \in Thread /\ SameMethod(t, u) /\ u.sp = t.sp + n
      /\ \A k \in Index :
              /\ k < t.sp - s => u.stack[k] = t.stack[k] /\ u.bits[k] = t.bits[k]
              /\ k \in (t.sp - s)..(t.sp - m - 1) =>
                   k + m \in Index /\ u.stack[k] = t.stack[k + m] /\ u.bits[k] = t.bits[k + m]
              /\ k \in (t.sp - m)..(t.sp + n - 1) =>
                   k - n \in Index /\ u.stack[k] = t.stack[k - n] /\ u.bits[k] = t.bits[k - n]
  <2>1. t \in Thread /\ n + m <= t.sp /\ t.sp + n <= LIMIT
    BY <1>1, BoundsOf
  <2> QED BY <2>1, DupOK
<1>3. q \in Seq(Int) /\ Len(q) = l /\ \A k \in 1..l : q[k] = Cell(t, t.base + k - 1)
  BY NumbersOf
<1> HIDE DEF u, q, l, s
<1>4. /\ Readable(u) /\ u.base = t.base /\ u.sp - u.base = l + n
  <2>1. u.base = t.base
    BY <1>2 DEF SameMethod
  <2>2. u.base <= u.sp /\ u.sp - u.base = l + n
    BY <1>1, <1>2, <2>1
  <2> QED BY <1>2, <2>1, <2>2 DEF Readable
<1>5. SameCells(t, u, t.base)
  <2>1. \A k \in Index : k < t.base => k < t.sp - s
    BY <1>1 DEF Index
  <2> QED BY <1>2, <2>1 DEF SameCells
<1>6. /\ a \in Seq(Int) /\ Len(a) = l - s /\ \A j \in 1..(l - s) : a[j] = q[j]
      /\ b \in Seq(Int) /\ Len(b) = n /\ \A j \in 1..n : b[j] = q[l - n + j]
      /\ c \in Seq(Int) /\ Len(c) = s /\ \A j \in 1..s : c[j] = q[l - s + j]
  <2>1. n <= l /\ n \in Nat
    BY <1>1
  <2> QED BY <1>1, <1>3, <2>1, DropIs, LastIs
<1> HIDE DEF a, b, c
<1>7. /\ r \in Seq(Int) /\ Len(r) = l + n
      /\ \A j \in 1..(l + n) :
           r[j] = IF j <= l - s THEN q[j]
                  ELSE IF j <= l - m THEN q[j + m] ELSE q[j - n]
  <2>1. /\ r \in Seq(Int) /\ Len(r) = Len(a) + Len(b) + Len(c)
        /\ \A j \in 1..(Len(a) + Len(b) + Len(c)) :
              r[j] = IF j <= Len(a) THEN a[j]
                     ELSE IF j <= Len(a) + Len(b) THEN b[j - Len(a)]
                     ELSE c[j - (Len(a) + Len(b))]
    BY <1>6, ThreeParts
  <2> HIDE DEF r
  <2>2. Len(a) + Len(b) + Len(c) = l + n /\ Len(a) + Len(b) = l - m
    BY <1>1, <1>6
  <2>3. ASSUME NEW j \in 1..(l + n)
        PROVE  r[j] = IF j <= l - s THEN q[j]
                      ELSE IF j <= l - m THEN q[j + m] ELSE q[j - n]
    <3>1. CASE j <= l - s
      BY <1>1, <1>6, <2>1, <2>2, <3>1
    <3>2. CASE ~(j <= l - s) /\ j <= l - m
      <4>1. j - (l - s) \in 1..n /\ l - n + (j - (l - s)) = j + m
        BY <1>1, <3>2
      <4>2. b[j - (l - s)] = q[j + m]
        BY <1>6, <4>1
      <4> QED BY <1>6, <2>1, <2>2, <3>2, <4>2
    <3>3. CASE ~(j <= l - s) /\ ~(j <= l - m)
      <4>1. j - (l - m) \in 1..s /\ l - s + (j - (l - m)) = j - n
        BY <1>1, <3>3
      <4>2. c[j - (l - m)] = q[j - n]
        BY <1>6, <4>1
      <4> QED BY <1>6, <2>1, <2>2, <3>3, <4>2
    <3> QED BY <3>1, <3>2, <3>3
  <2> QED BY <2>1, <2>2, <2>3
<1> HIDE DEF r
<1>8. ASSUME NEW j \in 1..Len(r) PROVE r[j] = Cell(u, u.base + j - 1)
  <2> DEFINE x == t.base
             y == t.sp
             k == x + j - 1
  <2>1. /\ x \in Nat /\ y \in Int /\ l \in Nat /\ y = x + l /\ y + n <= LIMIT /\ s <= l
        /\ LIMIT \in Nat /\ n \in Nat /\ m \in Nat /\ s \in Nat /\ s = n + m
    BY <1>1
  <2>2. /\ \A i \in Index :
              /\ i < y - s => Cell(u, i) = Cell(t, i)
              /\ i \in (y - s)..(y - m - 1) => Cell(u, i) = Cell(t, i + m)
              /\ i \in (y - m)..(y + n - 1) => Cell(u, i) = Cell(t, i - n)
        /\ \A i \in 1..l : q[i] = Cell(t, x + i - 1)
        /\ u.base = x
    BY <1>2, <1>3, <1>4 DEF Cell
  <2> HIDE DEF x, y
  <2>3. j \in Int /\ 1 <= j /\ j <= l + n
    BY <1>7, <2>1
  <2>4. k \in Index /\ k \in Int /\ j \in 1..(l + n)
    BY <2>1, <2>3 DEF Index
  <2>5. r[j] = IF j <= l - s THEN q[j]
               ELSE IF j <= l - m THEN q[j + m] ELSE q[j - n]
    BY <1>7, <2>4
  <2>6. CASE j <= l - s
    <3>1. k < y - s /\ j \in 1..l
      BY <2>1, <2>3, <2>6
    <3> QED BY <2>2, <2>4, <2>5, <2>6, <3>1
  <2>7. CASE ~(j <= l - s) /\ j <= l - m
    <3>1. k \in (y - s)..(y - m - 1) /\ j + m \in 1..l /\ x + (j + m) - 1 = k + m
      BY <2>1, <2>3, <2>7
    <3> QED BY <2>2, <2>4, <2>5, <2>7, <3>1
  <2>8. CASE ~(j <= l - s) /\ ~(j <= l - m)
    <3>1. k \in (y - m)..(y + n - 1) /\ j - n \in 1..l /\ x + (j - n) - 1 = k - n
      BY <2>1, <2>3, <2>8
    <3> QED BY <2>2, <2>4, <2>5, <2>8, <3>1
  <2> QED BY <2>6, <2>7, <2>8
<1>9. Slots(u, u.base, u.sp) = r
  BY <1>4, <1>7, <1>8, SlotsEqual
<1>10. StackOfFrames(u) = WithSlots(StackOfFrames(t), r)
  BY <1>2, <1>4, <1>5, <1>9, OtherSlots DEF WithSlots
<1> QED BY <1>4, <1>10 DEF u, r, a, b, c, q, s

\* A return brings back the caller's frame.
LEMMA RetFrames ==
  ASSUME NEW t, Readable(t), BitsRight(t), t.base # 0, NEW B, Chain(t, B)
  PROVE  /\ StackOfFrames(Ret(t)) = Callers(t)[t.base]
         /\ Readable(Ret(t)) /\ BitsRight(Ret(t))
         /\ Len(StackOfFrames(t)) > 1
<1> DEFINE b == t.base
           v == PopTo(t, b)
           w == PopTo(v, v.sp - RET)
           u == Ret(t)
<1>1. /\ t \in Thread /\ b \in 0..LIMIT /\ b \in Int /\ LIMIT \in Nat /\ b >= 3
      /\ RetInfo(t, b, B) /\ B \subseteq Nat /\ b - RET \in 0..LIMIT /\ b - RET = b - 3
      /\ b <= t.sp
  <2>1. b \in B /\ B \subseteq Nat /\ RetInfo(t, b, B) /\ b >= 3
    BY DEF Chain, RetInfo, RET
  <2>2. b \in 0..LIMIT /\ b \in Int /\ LIMIT \in Nat /\ t \in Thread /\ b <= t.sp
    BY BoundsOf
  <2>3. b - RET \in 0..LIMIT /\ b - RET = b - 3
    BY <2>1, <2>2 DEF RET
  <2> QED BY <2>1, <2>2, <2>3
<1> HIDE DEF b
<1>2. PICK f \in 0..3, m \in Method, c \in B, p \in Site, x \in Int :
        /\ t.stack[b - 1] = <<f, m>>
        /\ t.stack[b - 2] = <<c, p>>
        /\ t.stack[b - 3] = Word(x)
        /\ c + Info[m].locals + RET <= b
        /\ FlagInst(f) => x \in Object
  BY <1>1 DEF RetInfo
<1>3. c \in 0..LIMIT /\ c \in 0..(b - RET) /\ c \in Nat /\ c <= b - RET /\ HasCaller(t, b)
      /\ CallerBase(t, b) = c
  <2>1. Info[m].locals \in Nat /\ c \in Nat /\ RET = 3
    BY <1>1, UjFramesAssumption DEF RET
  <2>2. c \in 0..LIMIT /\ c \in 0..(b - RET) /\ c \in Nat /\ c <= b - RET /\ b >= RET
    BY <1>1, <1>2, <2>1
  <2>3. CallerBase(t, b) = c
    BY <1>2 DEF CallerBase
  <2> QED BY <2>2, <2>3 DEF HasCaller
<1>4. v \in Thread /\ v.sp = b /\ BitsRight(v) /\ SameCells(t, v, b)
  BY <1>1, PopToOK, PopToCells
<1> HIDE DEF v
<1>5. w \in Thread /\ w.sp = b - RET /\ SameCells(v, w, b - RET)
  BY <1>1, <1>4, PopToOK, PopToCells
<1>6. Peek(v, 0) = <<f, m>> /\ Peek(v, 1) = <<c, p>> /\ Peek(v, 2) = Word(x)
  <2>1. b - 1 \in Index /\ b - 2 \in Index /\ b - 3 \in Index
    BY <1>1 DEF Index
  <2>2. /\ v.sp - (0 + 1) = b - 1 /\ v.sp - (1 + 1) = b - 2 /\ v.sp - (2 + 1) = b - 3
        /\ b - 1 < b /\ b - 2 < b /\ b - 3 < b
    BY <1>1, <1>4
  <2> QED BY <1>2, <1>4, <2>1, <2>2 DEF Peek, SameCells
<1> HIDE DEF w
<1>7. u = [w EXCEPT !.method = m, !.hasInst = FlagInst(f), !.sync = FlagSync(f),
                    !.base = c, !.pc = p,
                    !.inst = IF FlagInst(f) THEN x ELSE 0,
                    !.cls = IF FlagInst(f) THEN ClassOf[x] ELSE x]
  <2>1. <<f, m>>[1] = f /\ <<f, m>>[2] = m /\ <<c, p>>[1] = c /\ <<c, p>>[2] = p /\ Word(x)[1] = x
    BY DEF Word
  <2> QED BY <1>6, <2>1 DEF Ret, v, w, b
<1>8. /\ u.stack = w.stack /\ u.bits = w.bits /\ u.sp = b - RET /\ u.base = c /\ u.method = m
      /\ u.hasInst = FlagInst(f) /\ u.inst = (IF FlagInst(f) THEN x ELSE 0)
      /\ u.sync = FlagSync(f) /\ u.pc = p
  BY <1>5, <1>7 DEF Thread
<1> HIDE DEF u
<1>9. u \in Thread /\ BitsRight(u) /\ u.base <= u.sp
  <2>1. Whole(u)
    BY <1>1, RetOK DEF u, b
  <2> QED BY <2>1, WholeFacts
<1>10. SameCells(t, u, b - RET)
  <2>1. \A k \in Index : k < b - RET => k < b
    BY <1>1 DEF Index
  <2> QED BY <1>4, <1>5, <1>8, <2>1 DEF SameCells
<1>11. Slots(u, c, b - RET) = Slots(t, c, b - RET)
  BY <1>1, <1>3, <1>9, <1>10, SlotsSame
<1>12. Running(u) = Caller(t, b)
  <2>1. <<f, m>>[1] = f /\ <<f, m>>[2] = m /\ <<c, p>>[2] = p /\ Word(x)[1] = x
    BY DEF Word
  <2> QED BY <1>2, <1>3, <1>8, <1>11, <2>1 DEF Running, Caller
<1>13. Callers(u)[c] = Callers(t)[c]
  <2>1. SameCells(t, u, c)
    <3>1. \A k \in Index : k < c => k < b - RET
      BY <1>1, <1>3 DEF Index
    <3> QED BY <1>10, <3>1 DEF SameCells
  <2> QED BY <1>1, <1>3, <1>9, <2>1, CallersSame
<1>14. Callers(t)[b] = Append(Callers(t)[c], Caller(t, b))
  BY <1>1, <1>3, CallersAre
<1>15. StackOfFrames(u) = Callers(t)[b]
  BY <1>8, <1>12, <1>13, <1>14 DEF StackOfFrames
<1>16. Len(StackOfFrames(t)) > 1
  <2>1. Callers(t)[c] \in Seq(JFrame) /\ Caller(t, b) \in JFrame
    BY <1>1, <1>3, CallersAre, CallerTyped
  <2>2. Len(Callers(t)[b]) = Len(Callers(t)[c]) + 1 /\ Len(Callers(t)[c]) \in Nat
    BY <1>14, <2>1, Appended
  <2> QED BY <2>2, RunningTyped DEF b
<1> QED BY <1>9, <1>15, <1>16 DEF u, b, Readable

\* Sync survives being packed into flags.
LEMMA SyncPacked ==
  ASSUME NEW h \in BOOLEAN, NEW y \in BOOLEAN
  PROVE  FlagSync(Flags(h, y)) = y
BY DEF FlagSync, Flags

\* A call puts a frame on top whose first local variables are the parameters; the
\* caller's frame keeps the rest.
LEMMA InvokeFrames ==
  ASSUME Whole(th), NEW m \in Method, NEW o \in Ref, Operands(Info[m].params),
         NEW u, Whole(u), CallWritten(u, m, o)
  PROVE  StackOfFrames(u) =
           Append(WithSlots(StackOfFrames(th), DropOf(TopSlots(th), Info[m].params)),
                  [this |-> o, method |-> m, pc |-> 0, sync |-> Info[m].isSync,
                   slots |-> LastOf(TopSlots(th), Info[m].params) \o
                               [k \in 1..(Info[m].locals - Info[m].params) |-> Number]])
<1> DEFINE n == Info[m].params
           z == Info[m].locals
           q == TopSlots(th)
           x == th.base
           y == th.sp
           l == y - x
           low == y - n
           b == low + 3
           a == LastOf(q, n)
           e == [k \in 1..(z - n) |-> Number]
<1>1. /\ th \in Thread /\ u \in Thread /\ Readable(th) /\ Readable(u) /\ BitsRight(th)
      /\ th.hasInst \in BOOLEAN /\ th.sync \in BOOLEAN
      /\ u.base <= u.sp /\ u.sp \in 0..LIMIT
  BY WholeFacts DEF Readable, Thread
<1>2. /\ x \in Nat /\ y \in Nat /\ x <= y /\ y <= LIMIT /\ LIMIT \in Nat /\ n \in Nat /\ z \in Nat
      /\ n <= z /\ l \in Nat /\ l = y - x /\ low = y - n /\ b = low + 3 /\ x <= low /\ low \in Nat
      /\ n <= l /\ b \in Nat
  <2>1. /\ x \in Nat /\ y \in Nat /\ x <= y /\ y <= LIMIT /\ LIMIT \in Nat
    BY <1>1, BoundsOf
  <2>2. n \in Nat /\ z \in Nat /\ n <= z
    BY UjFramesAssumption
  <2>3. Info[th.method].locals \in Nat /\ th.sp >= th.base + Info[th.method].locals + n
    BY WholeFacts DEF Operands, Locals
  <2>4. y >= x + n
    <3> DEFINE c == Info[th.method].locals
    <3>1. c \in Nat /\ y >= x + c + n
      BY <2>3
    <3> HIDE DEF c, x, y, n
    <3> QED BY <2>1, <2>2, <3>1
  <2> HIDE DEF x, y, n, z
  <2> QED BY <2>1, <2>2, <2>4
<1>3. /\ u.base = b /\ u.sp = b + z /\ u.method = m /\ u.pc = 0
      /\ u.sync = Info[m].isSync /\ u.hasInst = (o # 0) /\ u.inst = o
      /\ \A k \in Index :
           /\ k < low => u.stack[k] = th.stack[k] /\ u.bits[k] = th.bits[k]
           /\ k = low => u.stack[k] = IF th.hasInst THEN Word(th.inst) ELSE Word(th.cls)
           /\ k = low + 1 => u.stack[k] = <<x, th.pc>>
           /\ k = low + 2 => u.stack[k] = <<Flags(th.hasInst, th.sync), th.method>>
           /\ k \in b..(y + 2) =>
                k - 3 \in Index /\ u.stack[k] = th.stack[k - 3] /\ u.bits[k] = th.bits[k - 3]
           /\ k > y + 2 => ~u.bits[k]
  BY DEF CallWritten
<1>4. q \in Seq(Int) /\ Len(q) = l /\ \A k \in 1..l : q[k] = Cell(th, x + k - 1)
  BY <1>1, NumbersOf
<1>5. StackOfFrames(th) = Append(Callers(th)[x], Running(th)) /\ Front(StackOfFrames(th)) = Callers(th)[x]
      /\ Last(StackOfFrames(th)) = Running(th)
  BY <1>1, RunningTyped DEF StackOfFrames
<1>6. /\ Running(th).this = (IF th.hasInst THEN th.inst ELSE 0) /\ Running(th).method = th.method
      /\ Running(th).pc = th.pc /\ Running(th).sync = th.sync
      /\ \A s : [Running(th) EXCEPT !.slots = s] =
                  [this |-> IF th.hasInst THEN th.inst ELSE 0, method |-> th.method,
                   pc |-> th.pc, sync |-> th.sync, slots |-> s]
  BY DEF Running
<1>7. StackOfFrames(u) = Append(Callers(u)[b], Running(u))
      /\ Running(u) = [this |-> IF u.hasInst THEN u.inst ELSE 0, method |-> u.method, pc |-> u.pc,
                       sync |-> u.sync, slots |-> Slots(u, b, u.sp)]
  BY <1>3 DEF StackOfFrames, Running
<1> HIDE DEF n, z, q, x, y, l, low, b
<1>8. b + z <= LIMIT /\ low \in Index /\ low + 1 \in Index /\ low + 2 \in Index /\ b - 1 = low + 2
      /\ b - 2 = low + 1 /\ b - 3 = low /\ b \in 0..LIMIT /\ b - RET = low /\ b >= RET
      /\ low \in 0..LIMIT /\ x \in 0..LIMIT /\ x \in 0..low
  <2>1. b + z <= LIMIT
    BY <1>1, <1>2, <1>3
  <2> QED BY <1>2, <2>1 DEF Index, RET
<1>9. SameCells(th, u, low) /\ SameCells(th, u, x)
  <2>1. \A k \in Index : k < x => k < low
    BY <1>2 DEF Index
  <2> QED BY <1>3, <2>1 DEF SameCells
<1>10. CallerBase(u, b) = x /\ HasCaller(u, b)
  <2>1. u.stack[b - 2] = <<x, th.pc>>
    BY <1>3, <1>8
  <2> QED BY <1>8, <2>1 DEF CallerBase, HasCaller
<1>11. Callers(u)[b] = Append(Callers(th)[x], Caller(u, b))
  <2>1. Callers(u)[x] = Callers(th)[x]
    BY <1>1, <1>8, <1>9, CallersSame
  <2> QED BY <1>1, <1>8, <1>10, <2>1, CallersAre
<1>12. Slots(u, x, low) = DropOf(q, n)
  <2>1. Slots(u, x, low) = Slots(th, x, low)
    BY <1>1, <1>2, <1>8, <1>9, SlotsSame
  <2> DEFINE s == Slots(th, x, low)
             d == DropOf(q, n)
  <2>2. s \in Seq(Int) /\ Len(s) = low - x /\ \A k \in 1..(low - x) : s[k] = Cell(th, x + k - 1)
      <3>1. x \in Nat /\ low \in 0..LIMIT /\ x <= low /\ th \in Thread
      BY <1>1, <1>2, <1>8
    <3> QED BY <3>1, SlotsAre
  <2>3. d \in Seq(Int) /\ Len(d) = l - n /\ \A k \in 1..(l - n) : d[k] = q[k]
    <3>1. n \in Nat /\ q \in Seq(Int) /\ n <= Len(q) /\ Len(q) = l
      BY <1>2, <1>4
    <3> QED BY <3>1, DropIs
  <2> HIDE DEF s, d
  <2>4. l - n = low - x /\ \A k \in 1..(l - n) : k \in 1..l
    BY <1>2
  <2>5. Len(s) = Len(d) /\ \A k \in 1..Len(s) : s[k] = d[k]
    BY <1>4, <2>2, <2>3, <2>4
  <2>6. s = d
    BY <2>2, <2>3, <2>5, SeqEqual
  <2> QED BY <2>1, <2>6 DEF s, d
<1>13. Caller(u, b) = [Running(th) EXCEPT !.slots = DropOf(q, n)]
  <2> DEFINE f == Flags(th.hasInst, th.sync)
             t3 == IF th.hasInst THEN Word(th.inst) ELSE Word(th.cls)
  <2>1. FlagInst(f) = th.hasInst /\ FlagSync(f) = th.sync
    BY <1>1, FlagsPacked, SyncPacked
  <2>2. u.stack[b - 1] = <<f, th.method>> /\ u.stack[b - 2] = <<x, th.pc>> /\ u.stack[b - 3] = t3
    BY <1>3, <1>8
  <2>3. th.hasInst => t3[1] = th.inst
    BY DEF Word
  <2>4. <<f, th.method>>[1] = f /\ <<f, th.method>>[2] = th.method /\ <<x, th.pc>>[2] = th.pc
    OBVIOUS
  <2> HIDE DEF f, t3
  <2>5. Caller(u, b) = [this |-> IF FlagInst(f) THEN t3[1] ELSE 0, method |-> th.method,
                        pc |-> th.pc, sync |-> FlagSync(f), slots |-> Slots(u, x, low)]
    BY <1>8, <1>10, <2>2, <2>4 DEF Caller
  <2>6. (IF FlagInst(f) THEN t3[1] ELSE 0) = (IF th.hasInst THEN th.inst ELSE 0)
    BY <2>1, <2>3
  <2> QED BY <1>6, <1>12, <2>1, <2>5, <2>6
<1>14. a \in Seq(Int) /\ Len(a) = n /\ \A j \in 1..n : a[j] = q[l - n + j]
  <2>1. n \in Nat /\ q \in Seq(Int) /\ n <= Len(q) /\ Len(q) = l
    BY <1>2, <1>4
  <2> QED BY <2>1, LastIs
<1> HIDE DEF a
<1>15. e \in Seq(Int) /\ Len(e) = z - n /\ \A j \in 1..(z - n) : e[j] = Number
  <2>1. z - n \in Nat /\ Number \in Int
    BY <1>2 DEF Number
  <2>2. \A i \in Nat : \A s \in [1..i -> Int] : s \in Seq(Int) /\ Len(s) = i
    OBVIOUS
  <2>3. e \in [1..(z - n) -> Int]
    BY <2>1
  <2> QED BY <2>1, <2>2, <2>3
<1> HIDE DEF e
<1>16. Slots(u, b, u.sp) = a \o e
  <2> DEFINE r == a \o e
  <2>1. /\ r \in Seq(Int) /\ Len(r) = z
        /\ \A j \in 1..z : r[j] = IF j <= n THEN a[j] ELSE e[j - n]
    <3>1. /\ r \in Seq(Int) /\ Len(r) = n + (z - n)
          /\ \A j \in 1..(n + (z - n)) : r[j] = IF j <= n THEN a[j] ELSE e[j - n]
      <4>1. a \in Seq(Int) /\ e \in Seq(Int) /\ Len(a) = n /\ Len(e) = z - n
        BY <1>14, <1>15
      <4>2. /\ r \in Seq(Int) /\ Len(r) = Len(a) + Len(e)
            /\ \A j \in 1..(Len(a) + Len(e)) : r[j] = IF j <= Len(a) THEN a[j] ELSE e[j - Len(a)]
        BY <4>1, ConcatProperties
      <4> HIDE DEF r
      <4> QED BY <4>1, <4>2
    <3>2. n + (z - n) = z
      BY <1>2
    <3> QED BY <3>1, <3>2
  <2> HIDE DEF r
  <2>2. ASSUME NEW j \in 1..Len(r) PROVE r[j] = Cell(u, u.base + j - 1)
    <3> DEFINE k == b + j - 1
    <3>1. j \in 1..z /\ j \in Int /\ 1 <= j /\ j <= z /\ k \in Int /\ k \in Index
      <4>1. j \in 1..z /\ j \in Int /\ 1 <= j /\ j <= z
        BY <1>2, <2>1
      <4> QED BY <1>2, <1>8, <4>1 DEF Index
    <3>2. CASE j <= n
      <4>1. /\ k \in b..(y + 2) /\ l - n + j \in 1..l /\ x + (l - n + j) - 1 = k - 3
            /\ j \in 1..n
        BY <1>2, <3>1, <3>2
      <4>2. Cell(u, k) = Cell(th, k - 3)
        BY <1>3, <3>1, <4>1 DEF Cell
      <4>3. r[j] = q[l - n + j]
        BY <1>14, <2>1, <3>1, <3>2, <4>1
      <4>4. q[l - n + j] = Cell(th, k - 3)
        BY <1>4, <4>1
      <4>5. u.base + j - 1 = k
        BY <1>3
      <4> QED BY <4>2, <4>3, <4>4, <4>5
    <3>3. CASE ~(j <= n)
      <4>1. k > y + 2 /\ j - n \in 1..(z - n)
        BY <1>2, <3>1, <3>3
      <4>2. Cell(u, k) = Number
        BY <1>3, <3>1, <4>1 DEF Cell
      <4>3. u.base + j - 1 = k
        BY <1>3
      <4>4. r[j] = Number
        BY <1>15, <2>1, <3>1, <3>3, <4>1
      <4> QED BY <4>2, <4>3, <4>4
    <3> QED BY <3>2, <3>3
  <2>3. Len(r) = u.sp - u.base
    BY <1>2, <1>3, <2>1
  <2>4. Slots(u, u.base, u.sp) = r
    BY <1>1, <2>1, <2>2, <2>3, SlotsEqual
  <2> QED BY <1>3, <2>4 DEF r
<1>17. Running(u) = [this |-> o, method |-> m, pc |-> 0, sync |-> Info[m].isSync, slots |-> a \o e]
  BY <1>3, <1>7, <1>16
<1> QED BY <1>5, <1>7, <1>11, <1>13, <1>17 DEF WithSlots, a, e, n, z, q

-----------------------------------------------------------------------------
(* The steps of the Java machine. *)

LEMMA SameEnds == \A s : Abstract!Front(s) = Front(s) /\ Abstract!Last(s) = Last(s)
BY DEF Abstract!Front, Abstract!Last, Front, Last

\* The mapping, in the terms of the lemmas above.
LEMMA Mapped ==
  ASSUME status = "run"
  PROVE  /\ Abstract!Top = Last(StackOfFrames(th)) /\ Abstract!Slots = TopSlots(th)
         /\ \A v : Abstract!WithSlots(v) = WithSlots(StackOfFrames(th), v)
         /\ \A n : Abstract!Drop(n) = DropOf(TopSlots(th), n)
         /\ \A n : Abstract!LastOf(n) = LastOf(TopSlots(th), n)
         /\ Abstract!Ready <=> Ready
<1>1. Abstract!Top = Last(StackOfFrames(th))
  BY SameEnds DEF Abstract!Top
<1>2. Abstract!Slots = TopSlots(th)
  BY <1>1 DEF Abstract!Slots, TopSlots
<1> QED BY <1>1, <1>2, SameEnds
        DEF Abstract!WithSlots, Abstract!Drop, Abstract!LastOf, WithSlots, DropOf, LastOf,
            Abstract!Ready, Ready

\* A running thread as the Java machine sees it.
LEMMA Runs ==
  ASSUME IInv, status = "run"
  PROVE  /\ Whole(th) /\ Readable(th) /\ BitsRight(th) /\ th \in Thread /\ exc \in Ref
         /\ th.sp \in 0..LIMIT /\ th.base \in 0..LIMIT /\ LIMIT \in Nat
         /\ th.base \in Int /\ th.sp \in Int
         /\ Abstract!NumLocals = Locals /\ Locals \in Nat /\ th.base + Locals <= th.sp
         /\ TopSlots(th) \in Seq(Int) /\ Len(TopSlots(th)) = th.sp - th.base
         /\ \A n \in Int : Abstract!Operands(n) <=> Operands(n)
<1>1. /\ Whole(th) /\ Readable(th) /\ BitsRight(th) /\ th \in Thread /\ exc \in Ref
      /\ th.sp \in 0..LIMIT /\ th.base \in 0..LIMIT /\ LIMIT \in Nat
      /\ th.base \in Int /\ th.sp \in Int
  BY WholeFacts DEF IInv, TypeOK, Readable
<1>2. Last(StackOfFrames(th)).method = th.method
  BY <1>1, RunningTyped
<1>3. Abstract!NumLocals = Locals
  BY <1>2, Mapped DEF Abstract!NumLocals, Locals
<1>4. Locals \in Nat /\ th.base + Locals <= th.sp
  BY <1>1, WholeFacts DEF Locals
<1>5. TopSlots(th) \in Seq(Int) /\ Len(TopSlots(th)) = th.sp - th.base
  BY <1>1, NumbersOf
<1>6. ASSUME NEW n \in Int PROVE Abstract!Operands(n) <=> Operands(n)
  <2> DEFINE x == th.base
             y == th.sp
             c == Locals
  <2>1. x \in Int /\ y \in Int /\ c \in Int
    BY <1>1, <1>4
  <2>2. Abstract!Operands(n) <=> y - x >= c + n
    BY <1>3, <1>5, Mapped DEF Abstract!Operands
  <2>3. Operands(n) <=> y >= x + c + n
    BY DEF Operands
  <2> HIDE DEF x, y, c
  <2> QED BY <2>1, <2>2, <2>3
<1> QED BY <1>1, <1>3, <1>4, <1>5, <1>6

\* Slots given twice are given once.
LEMMA WithSlotsTwice ==
  ASSUME NEW t, Readable(t), NEW q \in Seq(Int), NEW r
  PROVE  /\ WithSlots(WithSlots(StackOfFrames(t), q), r) = WithSlots(StackOfFrames(t), r)
         /\ Front(WithSlots(StackOfFrames(t), q)) = Front(StackOfFrames(t))
         /\ Last(WithSlots(StackOfFrames(t), q)) = [Last(StackOfFrames(t)) EXCEPT !.slots = q]
<1> DEFINE R == Running(t)
           C == Callers(t)[t.base]
<1>1. R \in JFrame /\ C \in Seq(JFrame) /\ Front(StackOfFrames(t)) = C /\ Last(StackOfFrames(t)) = R
  BY RunningTyped, CallersAre, BoundsOf
<1> HIDE DEF R, C
<1>2. [R EXCEPT !.slots = q] \in JFrame
      /\ [[R EXCEPT !.slots = q] EXCEPT !.slots = r] = [R EXCEPT !.slots = r]
  BY <1>1 DEF JFrame
<1>3. Front(Append(C, [R EXCEPT !.slots = q])) = C
      /\ Last(Append(C, [R EXCEPT !.slots = q])) = [R EXCEPT !.slots = q]
  BY <1>1, <1>2, Appended
<1> QED BY <1>1, <1>2, <1>3 DEF WithSlots

\* A jump changes the pc of the running frame.
LEMMA PcFrames ==
  ASSUME NEW t, Readable(t), NEW p \in Site
  PROVE  StackOfFrames([t EXCEPT !.pc = p]) =
           Append(Front(StackOfFrames(t)), [Last(StackOfFrames(t)) EXCEPT !.pc = p])
<1> DEFINE u == [t EXCEPT !.pc = p]
<1>1. t \in Thread /\ u \in Thread /\ t.base \in 0..LIMIT
  BY BoundsOf DEF Thread
<1>2. /\ u.stack = t.stack /\ u.bits = t.bits /\ u.sp = t.sp /\ u.base = t.base
      /\ u.method = t.method /\ u.hasInst = t.hasInst /\ u.inst = t.inst /\ u.sync = t.sync
      /\ u.pc = p
  BY <1>1 DEF Thread
<1> HIDE DEF u
<1>3. SameCells(t, u, t.base) /\ SameCells(t, u, t.sp)
  BY <1>2 DEF SameCells
<1>4. Callers(u)[u.base] = Callers(t)[t.base]
  BY <1>1, <1>2, <1>3, CallersSame
<1>5. Slots(u, u.base, u.sp) = Slots(t, t.base, t.sp)
  BY <1>1, <1>2, <1>3, SlotsSame, BoundsOf
<1>6. Running(u) = [Running(t) EXCEPT !.pc = p]
  BY <1>2, <1>5 DEF Running
<1> QED BY <1>4, <1>6, RunningTyped DEF StackOfFrames, u

LEMMA StopStep ==
  ASSUME status = "run", NEW s \in {"done", "error"}, Ends(s)
  PROVE  Abstract!FramesNext
<1>1. Abstract!Stop(s)
  BY DEF Ends, Abstract!Stop
<1> QED BY <1>1 DEF Abstract!FramesNext

LEMMA SpaceStep ==
  ASSUME status = "run", StackSpace
  PROVE  Abstract!FramesNext
BY StopStep DEF StackSpace

\* Pushes.
LEMMA PushStep ==
  ASSUME IInv, Ready, th.sp < LIMIT, NEW w \in Pair, NEW r \in BOOLEAN, Becomes(Push(th, w, r))
  PROVE  Abstract!Push(Meant(w, r))
<1>1. status = "run" /\ th' = Push(th, w, r) /\ status' = "run" /\ UNCHANGED <<exc, status>>
  BY DEF Ready, Becomes
<1>2. StackOfFrames(Push(th, w, r)) = WithSlots(StackOfFrames(th), Append(TopSlots(th), Meant(w, r)))
  BY <1>1, Runs, PushFrames
<1> QED BY <1>1, <1>2, Mapped DEF Abstract!Push, Abstract!Keep

LEMMA NotFull ==
  ASSUME IInv, status = "run", ~Full(th)
  PROVE  th.sp < LIMIT
BY Runs DEF Full

LEMMA PushNumberStep == ASSUME IInv, PushNumber PROVE Abstract!FramesNext
<1>1. Ready /\ status = "run"
  BY DEF PushNumber, Ready
<1>2. CASE Full(th)
  BY <1>1, <1>2, SpaceStep DEF PushNumber
<1>3. CASE ~Full(th)
  <2>1. Abstract!Push(Meant(NoWord, FALSE))
    BY <1>1, <1>3, NotFull, PushStep, Words DEF PushNumber
  <2>2. Meant(NoWord, FALSE) \in Abstract!Value
    BY DEF Meant, Number, Abstract!Value, Abstract!Number
  <2> QED BY <2>1, <2>2 DEF Abstract!FramesNext
<1> QED BY <1>2, <1>3

LEMMA PushRefStep == ASSUME IInv, NEW v \in Ref, PushRef(v) PROVE Abstract!FramesNext
<1>1. Ready /\ status = "run"
  BY DEF PushRef, Ready
<1>2. CASE Full(th)
  BY <1>1, <1>2, SpaceStep DEF PushRef
<1>3. CASE ~Full(th)
  <2>1. Abstract!Push(Meant(Word(v), TRUE))
    BY <1>1, <1>3, NotFull, PushStep, Words DEF PushRef
  <2>2. Meant(Word(v), TRUE) \in Abstract!Value
    BY DEF Meant, Word, Ref, Abstract!Value, Abstract!Ref
  <2> QED BY <2>1, <2>2 DEF Abstract!FramesNext
<1> QED BY <1>2, <1>3

\* A pop takes the last slot.
LEMMA PopStep ==
  ASSUME IInv, status = "run", Operands(1)
  PROVE  /\ Readable(Pop(th)) /\ BitsRight(Pop(th)) /\ SameMethod(th, Pop(th))
         /\ Pop(th).sp = th.sp - 1 /\ Whole(Pop(th))
         /\ StackOfFrames(Pop(th)) = WithSlots(StackOfFrames(th), DropOf(TopSlots(th), 1))
         /\ TopSlots(Pop(th)) = DropOf(TopSlots(th), 1)
         /\ DropOf(TopSlots(th), 1) \in Seq(Int)
         /\ Meant(Peek(th, 0), PeekBit(th, 0)) = Last(TopSlots(th))
         /\ Peek(th, 0) \in Pair /\ PeekBit(th, 0) \in BOOLEAN
         /\ PeekBit(th, 0) => Peek(th, 0) \in RefWord
<1> DEFINE x == th.base
           y == th.sp
           c == Locals
<1>1. /\ Whole(th) /\ Readable(th) /\ BitsRight(th) /\ x \in Int /\ y \in Int /\ c \in Nat
      /\ y >= x + c + 1 /\ TopSlots(th) \in Seq(Int) /\ Len(TopSlots(th)) = y - x
  BY Runs DEF Operands
<1> HIDE DEF x, y, c
<1>2. x < y /\ (y - x) - 1 = y - 1 - x /\ 1 <= y - x /\ y >= x + c + 1
  BY <1>1
<1>3. DropOf(TopSlots(th), 1) = SubSeq(TopSlots(th), 1, y - 1 - x)
  BY <1>1, <1>2 DEF DropOf
<1>4. DropOf(TopSlots(th), 1) \in Seq(Int)
  BY <1>1, <1>2, DropIs
<1> QED BY <1>1, <1>2, <1>3, <1>4, PopFrames, PopKept DEF x, y, c, Locals

LEMMA PopOperandStep == ASSUME IInv, PopOperand PROVE Abstract!FramesNext
<1>1. status = "run" /\ Ready /\ Operands(1) /\ th' = Pop(th) /\ UNCHANGED <<exc, status>> /\ status' = "run"
  BY DEF PopOperand, Ready, Becomes
<1>2. Abstract!Operands(1)
  BY <1>1, Runs
<1>3. Abstract!Pop
  BY <1>1, <1>2, PopStep, Mapped DEF Abstract!Pop, Abstract!Keep
<1> QED BY <1>3 DEF Abstract!FramesNext

\* A load pushes what the slot holds: its bit says whether it is a reference.
LEMMA LoadStep == ASSUME IInv, NEW k \in Index, Load(k) PROVE Abstract!FramesNext
<1>1. Ready /\ status = "run" /\ k \in 0..(Locals - 1)
  BY DEF Load, Ready
<1>2. CASE Full(th)
  BY <1>1, <1>2, SpaceStep DEF Load
<1>3. CASE ~Full(th)
  <2> DEFINE x == th.base
             y == th.sp
             c == Locals
             q == TopSlots(th)
  <2>1. /\ th \in Thread /\ x \in Int /\ y \in Int /\ c \in Nat /\ x + c <= y /\ Abstract!NumLocals = c
        /\ q \in Seq(Int) /\ Len(q) = y - x /\ k \in 0..(c - 1) /\ th.sp < LIMIT
    BY <1>1, <1>3, Runs, NotFull
  <2>2. \A j \in 1..(y - x) : q[j] = Cell(th, x + j - 1) /\ x + j - 1 \in Index
    BY <1>1, Runs, NumbersOf
  <2> HIDE DEF x, y, c, q
  <2>3. k \in Int /\ k + 1 \in 1..c /\ k + 1 \in 1..(y - x) /\ x + (k + 1) - 1 = x + k
    BY <2>1
  <2>4. q[k + 1] = Cell(th, x + k) /\ x + k \in Index
    BY <2>2, <2>3
  <2>5. th.stack[x + k] \in Pair /\ NoWord \in Pair
    BY <2>1, <2>4, Words DEF Thread, Pair
  <2>6. Abstract!Push(q[k + 1])
    <3>1. CASE th.bits[x + k]
      <4>1. Becomes(Push(th, th.stack[x + k], TRUE))
        BY <1>3, <3>1 DEF Load, x
      <4>2. Meant(th.stack[x + k], TRUE) = q[k + 1]
        BY <2>4, <3>1 DEF Meant, Cell
      <4> QED BY <1>1, <2>1, <2>5, <4>1, <4>2, PushStep
    <3>2. CASE ~th.bits[x + k]
      <4>1. Becomes(Push(th, NoWord, FALSE))
        BY <1>3, <3>2 DEF Load, x
      <4>2. Meant(NoWord, FALSE) = q[k + 1]
        BY <2>4, <3>2 DEF Meant, Cell
      <4> QED BY <1>1, <2>1, <2>5, <4>1, <4>2, PushStep
    <3> QED BY <3>1, <3>2
  <2>7. Abstract!Load(k + 1)
    BY <1>1, <2>1, <2>3, <2>6, Mapped DEF Abstract!Load, q
  <2>8. k + 1 \in 1..Len(Abstract!Slots)
    BY <1>1, <2>1, <2>3, Mapped DEF q
  <2> QED BY <2>7, <2>8 DEF Abstract!FramesNext
<1> QED BY <1>2, <1>3

LEMMA StoreStep == ASSUME IInv, NEW k \in Index, Store(k) PROVE Abstract!FramesNext
<1> DEFINE u == Pop(th)
           w == Peek(th, 0)
           r == PeekBit(th, 0)
           q == TopSlots(th)
           d == DropOf(q, 1)
<1>1. /\ Ready /\ status = "run" /\ k \in 0..(Locals - 1) /\ Operands(1)
      /\ th' = LocalStore(u, k, w, r) /\ UNCHANGED <<exc, status>> /\ status' = "run"
  BY DEF Store, Ready, Becomes
<1>2. /\ Readable(u) /\ BitsRight(u) /\ SameMethod(th, u) /\ u.sp = th.sp - 1
      /\ StackOfFrames(u) = WithSlots(StackOfFrames(th), d) /\ TopSlots(u) = d /\ d \in Seq(Int)
      /\ Meant(w, r) = Last(q) /\ w \in Pair /\ r \in BOOLEAN /\ (r => w \in RefWord)
  BY <1>1, PopStep
<1>3. k \in Nat /\ u.base + k < u.sp /\ k + 1 \in 1..Locals /\ k + 1 \in 1..Len(q)
  <2> DEFINE x == th.base
             y == th.sp
             c == Locals
  <2>1. /\ x \in Int /\ y \in Int /\ c \in Nat /\ y >= x + c + 1 /\ k \in 0..(c - 1)
        /\ u.base = x /\ u.sp = y - 1 /\ Len(q) = y - x
    BY <1>1, <1>2, Runs DEF Operands, SameMethod
  <2> HIDE DEF x, y, c, u, q
  <2>2. k \in Nat /\ x + k < y - 1 /\ k + 1 \in 1..c /\ k + 1 \in 1..(y - x)
    BY <2>1
  <2> QED BY <2>1, <2>2 DEF c
<1> HIDE DEF u, w, r, d
<1>4. StackOfFrames(LocalStore(u, k, w, r)) =
        WithSlots(StackOfFrames(u), [TopSlots(u) EXCEPT ![k + 1] = Meant(w, r)])
  BY <1>2, <1>3, StoreFrames
<1>5. StackOfFrames(th') = WithSlots(StackOfFrames(th), [d EXCEPT ![k + 1] = Last(q)])
  BY <1>1, <1>2, <1>4, Runs, WithSlotsTwice
<1>6. Abstract!Operands(1) /\ k + 1 \in 1..Abstract!NumLocals /\ k + 1 \in 1..Len(Abstract!Slots)
  BY <1>1, <1>3, Runs, Mapped
<1>7. Abstract!Store(k + 1)
  BY <1>1, <1>5, <1>6, Mapped, SameEnds DEF Abstract!Store, Abstract!Keep, d
<1> QED BY <1>6, <1>7 DEF Abstract!FramesNext

LEMMA DupStep == ASSUME IInv, NEW n \in 1..2, NEW m \in 0..2, Dup(n, m) PROVE Abstract!FramesNext
<1>1. Ready /\ status = "run" /\ Operands(n + m)
  BY DEF Dup, Ready
<1>2. CASE ~DupFits(th, n)
  BY <1>1, <1>2, SpaceStep DEF Dup
<1>3. CASE DupFits(th, n)
  <2> DEFINE x == th.base
             y == th.sp
             c == Locals
  <2>1. /\ x \in Int /\ y \in Int /\ c \in Nat /\ y >= x + c + (n + m) /\ y + n <= LIMIT
        /\ Readable(th) /\ BitsRight(th)
    BY <1>1, <1>3, Runs DEF Operands, DupFits
  <2> HIDE DEF x, y, c
  <2>2. x + n + m <= y
    BY <2>1
  <2>3. StackOfFrames(DupOf(th, n, m)) =
          WithSlots(StackOfFrames(th), DropOf(TopSlots(th), n + m) \o LastOf(TopSlots(th), n)
                                         \o LastOf(TopSlots(th), n + m))
    BY <2>1, <2>2, DupFrames DEF x, y
  <2>4. th' = DupOf(th, n, m) /\ UNCHANGED <<exc, status>> /\ status' = "run"
    BY <1>1, <1>3 DEF Dup, Becomes
  <2>5. Abstract!Operands(n + m)
    <3>1. n + m \in Int
      OBVIOUS
    <3> QED BY <1>1, <3>1, Runs
  <2>6. Abstract!Dup(n, m)
    BY <1>1, <2>3, <2>4, <2>5, Mapped DEF Abstract!Dup, Abstract!Keep
  <2>7. n \in 0..2
    OBVIOUS
  <2> QED BY <2>6, <2>7 DEF Abstract!FramesNext
<1> QED BY <1>2, <1>3

LEMMA JumpStep == ASSUME IInv, NEW p \in Site, Jump(p) PROVE Abstract!FramesNext
<1>1. Ready /\ status = "run" /\ th' = [th EXCEPT !.pc = p] /\ UNCHANGED <<exc, status>>
      /\ status' = "run"
  BY DEF Jump, Ready, Becomes
<1>2. Abstract!Jump(p)
  BY <1>1, Runs, PcFrames, Mapped, SameEnds DEF Abstract!Jump, Abstract!Keep
<1> QED BY <1>2 DEF Abstract!FramesNext

\* The receiver is the first parameter.
LEMMA InvokeStep == ASSUME IInv, NEW m \in Method, Invoke(m) PROVE Abstract!FramesNext
<1> DEFINE n == Info[m].params
           o == IF Info[m].isStatic THEN 0 ELSE Peek(th, n - 1)[1]
           null == ~Info[m].isStatic /\ (~PeekBit(th, n - 1) \/ o = 0)
           u == Goto(Called(m), m, o)
           a == LastOf(TopSlots(th), n)
<1>1. status = "run" /\ Ready /\ Operands(n) /\ Whole(th)
  BY Runs DEF Invoke, Ready
<1>2. CASE null
  <2>1. Ends("error")
    BY <1>2 DEF Invoke
  <2> QED BY <1>1, <2>1, StopStep
<1>3. CASE ~null /\ ~(DupFits(th, RET) /\ GotoFits(Called(m), m))
  <2>1. StackSpace
    BY <1>3 DEF Invoke
  <2> QED BY <1>1, <2>1, SpaceStep
<1>4. CASE ~null /\ DupFits(th, RET) /\ GotoFits(Called(m), m)
  <2>1. th' = u /\ UNCHANGED <<exc, status>> /\ status' = "run"
    BY <1>1, <1>4 DEF Invoke, Becomes
  <2>2. /\ o \in Ref
        /\ o = (IF Info[m].isStatic THEN 0 ELSE a[1])
        /\ Info[m].isStatic \/ o \in Object
    <3>1. CASE Info[m].isStatic
      BY <3>1 DEF Ref
    <3>2. CASE ~Info[m].isStatic
      <4> DEFINE x == th.base
                 y == th.sp
                 c == Locals
                 q == TopSlots(th)
      <4>1. PeekBit(th, n - 1) /\ o # 0
        BY <1>4, <3>2
      <4>2. n \in Nat /\ n > 0
        BY <3>2, UjFramesAssumption
      <4>3. /\ x \in 0..LIMIT /\ y \in 0..LIMIT /\ LIMIT \in Nat /\ BitsRight(th) /\ c \in Nat
            /\ x \in Int /\ y \in Int /\ y >= x + c + n
            /\ q \in Seq(Int) /\ Len(q) = y - x
        BY <1>1, Runs DEF Operands
      <4>4. \A j \in 1..(y - x) : q[j] = Cell(th, x + j - 1)
        BY <1>1, Runs, NumbersOf
      <4> HIDE DEF x, y, c, q, n
      <4>5. /\ y - ((n - 1) + 1) = y - n /\ y - n \in Index /\ n <= Len(q) /\ 1 \in 1..n
            /\ Len(q) - n + 1 \in 1..(y - x) /\ x + (Len(q) - n + 1) - 1 = y - n
        BY <4>2, <4>3 DEF Index
      <4>6. a[1] = q[Len(q) - n + 1]
        BY <4>2, <4>3, <4>5, LastIs DEF q
      <4>7. q[Len(q) - n + 1] = Cell(th, y - n)
        BY <4>4, <4>5
      <4>8. th.bits[y - n] /\ Peek(th, n - 1) = th.stack[y - n]
        BY <4>1, <4>5 DEF PeekBit, Peek, y
      <4>9. th.stack[y - n] \in RefWord
        BY <4>3, <4>5, <4>8 DEF BitsRight
      <4>10. PICK v \in Ref : th.stack[y - n] = Word(v)
        BY <4>9 DEF RefWord
      <4>11. o = v /\ a[1] = v
        BY <3>2, <4>6, <4>7, <4>8, <4>10 DEF Cell, Word
      <4> QED BY <3>2, <4>1, <4>11 DEF Ref
    <3> QED BY <3>1, <3>2
  <2> HIDE DEF o
  <2>3. Whole(u) /\ CallWritten(u, m, o)
    BY <1>1, <1>4, <2>2, CalledOK
  <2> HIDE DEF u
  <2>4. StackOfFrames(u) =
          Append(WithSlots(StackOfFrames(th), DropOf(TopSlots(th), n)),
                 [this |-> o, method |-> m, pc |-> 0, sync |-> Info[m].isSync,
                  slots |-> a \o [k \in 1..(Info[m].locals - n) |-> Number]])
    BY <1>1, <2>2, <2>3, InvokeFrames
  <2>5. DropOf(TopSlots(th), n) \in Seq(Int) /\ n \in Nat
    <3> DEFINE x == th.base
               y == th.sp
               c == Locals
    <3>1. x \in Int /\ y \in Int /\ c \in Nat /\ y >= x + c + n /\ n \in Nat
          /\ TopSlots(th) \in Seq(Int) /\ Len(TopSlots(th)) = y - x
      BY <1>1, Runs, UjFramesAssumption DEF Operands
    <3> HIDE DEF x, y, c, n
    <3>2. n <= Len(TopSlots(th))
      BY <3>1
    <3> QED BY <3>1, <3>2, DropIs
  <2> DEFINE F == [this |-> o, method |-> m, pc |-> 0, sync |-> Info[m].isSync,
                   slots |-> a \o [k \in 1..(Info[m].locals - n) |-> Number]]
             W == WithSlots(StackOfFrames(th), DropOf(TopSlots(th), n))
  <2>6. W \o <<F>> = Append(W, F)
    <3>1. W \in Seq(JFrame)
      <4>1. Callers(th)[th.base] \in Seq(JFrame) /\ Running(th) \in JFrame
            /\ Front(StackOfFrames(th)) = Callers(th)[th.base] /\ Last(StackOfFrames(th)) = Running(th)
        BY <1>1, Runs, CallersAre, RunningTyped
      <4>2. [Running(th) EXCEPT !.slots = DropOf(TopSlots(th), n)] \in JFrame
        BY <2>5, <4>1 DEF JFrame
      <4> QED BY <4>1, <4>2, Appended DEF WithSlots
    <3> HIDE DEF W, F
    <3> QED BY <3>1
  <2>7. StackOfFrames(u) = W \o <<F>>
    BY <2>4, <2>6
  <2>8. Abstract!Operands(n) /\ Abstract!LastOf(n) = a /\ Abstract!WithSlots(Abstract!Drop(n)) = W
    BY <1>1, <2>5, Runs, Mapped
  <2>9. Abstract!Invoke(m)
    BY <1>1, <2>1, <2>2, <2>7, <2>8, Mapped
       DEF Abstract!Invoke, Abstract!Keep, Abstract!Frame, Abstract!Number, Number
  <2> QED BY <2>9 DEF Abstract!FramesNext
<1> QED BY <1>2, <1>3, <1>4

LEMMA ReturnStep == ASSUME IInv, Return PROVE Abstract!FramesNext
<1>1. status = "run" /\ Ready
  BY DEF Return, Ready
<1>2. CASE th.base = 0
  BY <1>1, <1>2, StopStep DEF Return
<1>3. CASE th.base # 0
  <2>1. PICK B : Chain(th, B)
    BY <1>1, Runs DEF Whole
  <2>2. StackOfFrames(Ret(th)) = Front(StackOfFrames(th)) /\ Len(StackOfFrames(th)) > 1
    BY <1>1, <1>3, <2>1, Runs, RetFrames, RunningTyped
  <2>3. th' = Ret(th) /\ UNCHANGED <<exc, status>> /\ status' = "run"
    BY <1>1, <1>3 DEF Return, Becomes
  <2>4. Abstract!Return
    BY <1>1, <2>2, <2>3, Mapped, SameEnds DEF Abstract!Return, Abstract!Keep
  <2> QED BY <2>4 DEF Abstract!FramesNext
<1> QED BY <1>2, <1>3

\* What is below the base is the same without the value that is returned.
LEMMA ReturnValueStep == ASSUME IInv, ReturnValue PROVE Abstract!FramesNext
<1> DEFINE v == Pop(th)
           u == Ret(v)
           w == Peek(th, 0)
           r == PeekBit(th, 0)
           d == DropOf(TopSlots(th), 1)
<1>1. /\ status = "run" /\ Ready /\ Operands(1) /\ th.base # 0 /\ th' = Push(u, w, r)
      /\ UNCHANGED <<exc, status>> /\ status' = "run"
  BY DEF ReturnValue, Ready, Becomes
<1>2. /\ Readable(v) /\ BitsRight(v) /\ v.base = th.base /\ Whole(v)
      /\ StackOfFrames(v) = WithSlots(StackOfFrames(th), d) /\ d \in Seq(Int)
      /\ Meant(w, r) = Last(TopSlots(th)) /\ w \in Pair /\ r \in BOOLEAN
  BY <1>1, PopStep DEF SameMethod
<1> HIDE DEF v, w, r, d
<1>3. PICK B : Chain(v, B)
  BY <1>2 DEF Whole
<1>4. v.base # 0 /\ v.base \in 0..LIMIT /\ LIMIT \in Nat /\ v.base <= v.sp /\ v \in Thread
  BY <1>1, <1>2, BoundsOf
<1>5. Whole(u) /\ u.sp = v.base - RET
  BY <1>2, <1>3, <1>4, RetOK
<1>6. /\ StackOfFrames(u) = Callers(v)[v.base] /\ Readable(u) /\ BitsRight(u)
      /\ Len(StackOfFrames(v)) > 1
  BY <1>2, <1>3, <1>4, RetFrames
<1>7. u.sp < LIMIT
  BY <1>4, <1>5 DEF RET
<1> HIDE DEF u
<1>8. StackOfFrames(th') = WithSlots(StackOfFrames(u), Append(TopSlots(u), Last(TopSlots(th))))
  BY <1>1, <1>2, <1>6, <1>7, PushFrames
<1>9. Callers(v)[v.base] = Front(StackOfFrames(th)) /\ Len(StackOfFrames(th)) = Len(StackOfFrames(v))
  <2>1. Front(StackOfFrames(v)) = Front(StackOfFrames(th))
    BY <1>1, <1>2, Runs, WithSlotsTwice
  <2> QED BY <1>1, <1>2, <2>1, Runs, RunningTyped
<1>10. StackOfFrames(u) = Front(StackOfFrames(th)) /\ Len(StackOfFrames(th)) > 1
  BY <1>6, <1>9
<1>11. Abstract!Operands(1)
  BY <1>1, Runs
<1>12. Abstract!ReturnValue
  <2> DEFINE caller == Front(StackOfFrames(th))
  <2>1. StackOfFrames(th') =
          Append(Front(caller), [Last(caller) EXCEPT !.slots = Append(@, Last(TopSlots(th)))])
    BY <1>8, <1>10 DEF WithSlots, TopSlots
  <2> QED BY <1>1, <1>10, <1>11, <2>1, Mapped, SameEnds DEF Abstract!ReturnValue, Abstract!Keep
<1> QED BY <1>12 DEF Abstract!FramesNext

LEMMA ThrowStep == ASSUME IInv, Throw PROVE Abstract!FramesNext
<1> SUFFICES ASSUME Peek(th, 0)[1] # 0 PROVE Abstract!FramesNext
  <2>1. ASSUME Peek(th, 0)[1] = 0 PROVE Abstract!FramesNext
    <3>1. status = "run" /\ Ends("error")
      BY <2>1 DEF Throw, Ready
    <3> QED BY <3>1, StopStep
  <2> QED BY <2>1
<1>1. /\ status = "run" /\ Ready /\ Operands(1) /\ PeekBit(th, 0) /\ Peek(th, 0)[1] # 0
      /\ exc' = Peek(th, 0)[1] /\ th' = Pop(th) /\ status' = status
  BY DEF Throw, Ready
<1>2. /\ StackOfFrames(Pop(th)) = WithSlots(StackOfFrames(th), DropOf(TopSlots(th), 1))
      /\ Meant(Peek(th, 0), PeekBit(th, 0)) = Last(TopSlots(th)) /\ Peek(th, 0) \in RefWord
  BY <1>1, PopStep
<1>3. Last(TopSlots(th)) = Peek(th, 0)[1] /\ Peek(th, 0)[1] \in Object
  <2>1. PICK v \in Ref : Peek(th, 0) = Word(v)
    BY <1>2 DEF RefWord
  <2> QED BY <1>1, <1>2, <2>1 DEF Meant, Word, Ref
<1>4. Abstract!Operands(1)
  BY <1>1, Runs
<1>5. Abstract!Throw
  BY <1>1, <1>2, <1>3, <1>4, Mapped, SameEnds DEF Abstract!Throw
<1> QED BY <1>5 DEF Abstract!FramesNext

\* The operands give way to the exception.
LEMMA CaughtFrames ==
  ASSUME IInv, status = "run", CaughtFits(th)
  PROVE  /\ Whole(Caught(th)) /\ Caught(th).base = th.base /\ Readable(Caught(th))
         /\ Append(SubSeq(TopSlots(th), 1, Locals), exc) \in Seq(Int)
         /\ StackOfFrames(Caught(th)) =
              WithSlots(StackOfFrames(th), Append(SubSeq(TopSlots(th), 1, Locals), exc))
<1> DEFINE x == th.base
           y == th.sp
           c == Locals
           s == x + c
           v == PopTo(th, s)
           q == SubSeq(TopSlots(th), 1, c)
<1>1. /\ x \in Int /\ y \in Int /\ c \in Nat /\ x + c <= y /\ x + c < LIMIT /\ LIMIT \in Nat
      /\ x \in 0..LIMIT /\ Readable(th) /\ BitsRight(th) /\ Whole(th) /\ exc \in Ref
      /\ TopSlots(th) \in Seq(Int) /\ Len(TopSlots(th)) = y - x
  BY Runs DEF CaughtFits, Locals
<1>2. Caught(th) = Push(v, Word(exc), TRUE)
  BY DEF Caught, Locals
<1>3. Whole(Caught(th)) /\ Caught(th).base = th.base
  BY <1>1, CaughtOK
<1>4. Readable(Caught(th))
  BY <1>3, WholeFacts DEF Readable
<1> HIDE DEF x, y, c
<1>5. s \in 0..LIMIT /\ x <= s /\ s <= y /\ s - x = c /\ s < LIMIT
  BY <1>1
<1> HIDE DEF s
<1>6. /\ Readable(v) /\ BitsRight(v) /\ v.sp = s
      /\ StackOfFrames(v) = WithSlots(StackOfFrames(th), q) /\ TopSlots(v) = q
  <2>1. v.sp = s
    BY DEF PopTo
  <2>2. /\ Readable(v) /\ BitsRight(v)
        /\ StackOfFrames(v) = WithSlots(StackOfFrames(th), SubSeq(TopSlots(th), 1, s - th.base))
        /\ TopSlots(v) = SubSeq(TopSlots(th), 1, s - th.base)
    BY <1>1, <1>5, PopToFrames DEF x, y
  <2> QED BY <1>5, <2>1, <2>2 DEF x
<1> HIDE DEF v
<1>7. Word(exc) \in Pair /\ Meant(Word(exc), TRUE) = exc /\ exc \in Int
  BY <1>1, Words, UjFramesAssumption DEF Meant, Word, Ref
<1>8. StackOfFrames(Push(v, Word(exc), TRUE)) = WithSlots(StackOfFrames(v), Append(q, exc))
  BY <1>5, <1>6, <1>7, PushFrames
<1>9. q \in Seq(Int)
  BY <1>6, NumbersOf
<1>10. Append(q, exc) \in Seq(Int)
  BY <1>7, <1>9
<1> HIDE DEF q
<1>11. StackOfFrames(Caught(th)) = WithSlots(StackOfFrames(th), Append(q, exc))
  <2>1. WithSlots(WithSlots(StackOfFrames(th), q), Append(q, exc)) =
          WithSlots(StackOfFrames(th), Append(q, exc))
    BY <1>1, <1>9, WithSlotsTwice
  <2> QED BY <1>2, <1>6, <1>8, <2>1
<1> QED BY <1>3, <1>4, <1>10, <1>11 DEF q, c

LEMMA CatchStep == ASSUME IInv, NEW p \in Site, Catch(p) PROVE Abstract!FramesNext
<1> DEFINE q == Append(SubSeq(TopSlots(th), 1, Locals), exc)
<1>1. /\ status = "run" /\ exc # 0 /\ CaughtFits(th) /\ th' = [Caught(th) EXCEPT !.pc = p]
      /\ exc' = 0 /\ status' = status
  BY DEF Catch
<1>2. /\ Readable(Caught(th)) /\ q \in Seq(Int)
      /\ StackOfFrames(Caught(th)) = WithSlots(StackOfFrames(th), q)
  BY <1>1, CaughtFrames
<1> HIDE DEF q
<1>3. StackOfFrames(th') =
        Append(Front(StackOfFrames(th)), [[Last(StackOfFrames(th)) EXCEPT !.slots = q] EXCEPT !.pc = p])
  <2>1. StackOfFrames([Caught(th) EXCEPT !.pc = p]) =
          Append(Front(StackOfFrames(Caught(th))), [Last(StackOfFrames(Caught(th))) EXCEPT !.pc = p])
    BY <1>2, PcFrames
  <2>2. /\ Front(WithSlots(StackOfFrames(th), q)) = Front(StackOfFrames(th))
        /\ Last(WithSlots(StackOfFrames(th), q)) = [Last(StackOfFrames(th)) EXCEPT !.slots = q]
    BY <1>1, <1>2, Runs, WithSlotsTwice
  <2> QED BY <1>1, <1>2, <2>1, <2>2
<1>4. [[Last(StackOfFrames(th)) EXCEPT !.slots = q] EXCEPT !.pc = p]
        = [Last(StackOfFrames(th)) EXCEPT !.slots = q, !.pc = p]
  OBVIOUS
<1>5. Abstract!NumLocals = Locals
  BY <1>1, Runs
<1>6. Abstract!Catch(p)
  BY <1>1, <1>3, <1>4, <1>5, Mapped, SameEnds DEF Abstract!Catch, q
<1> QED BY <1>6 DEF Abstract!FramesNext

LEMMA UnwindsStep == ASSUME IInv, Unwind PROVE Abstract!FramesNext
<1>1. status = "run" /\ exc # 0
  BY DEF Unwind
<1>2. CASE ~CaughtFits(th)
  BY <1>1, <1>2, SpaceStep DEF Unwind
<1>3. CASE CaughtFits(th) /\ th.base = 0
  BY <1>1, <1>3, StopStep DEF Unwind
<1>4. CASE CaughtFits(th) /\ th.base # 0
  <2> DEFINE v == Caught(th)
             q == Append(SubSeq(TopSlots(th), 1, Locals), exc)
  <2>1. th' = Ret(v) /\ UNCHANGED <<exc, status>> /\ status' = "run"
    BY <1>1, <1>4 DEF Unwind
  <2>2. /\ Whole(v) /\ v.base = th.base /\ Readable(v) /\ q \in Seq(Int)
        /\ StackOfFrames(v) = WithSlots(StackOfFrames(th), q)
    BY <1>1, <1>4, CaughtFrames
  <2> HIDE DEF v, q
  <2>3. PICK B : Chain(v, B)
    BY <2>2 DEF Whole
  <2>4. BitsRight(v)
    BY <2>2, WholeFacts
  <2>5. StackOfFrames(Ret(v)) = Callers(v)[v.base] /\ Len(StackOfFrames(v)) > 1
    BY <1>4, <2>2, <2>3, <2>4, RetFrames
  <2>6. Front(StackOfFrames(v)) = Front(StackOfFrames(th))
    BY <1>1, <2>2, Runs, WithSlotsTwice
  <2>7. StackOfFrames(Ret(v)) = Front(StackOfFrames(th)) /\ Len(StackOfFrames(th)) > 1
    BY <1>1, <2>2, <2>5, <2>6, Runs, RunningTyped
  <2>8. Abstract!Unwind
    BY <1>1, <2>1, <2>7, SameEnds DEF Abstract!Unwind
  <2> QED BY <2>8 DEF Abstract!FramesNext
<1> QED BY <1>2, <1>3, <1>4

-----------------------------------------------------------------------------
(* The refinement. *)

\* A thread starts with one frame.
LEMMA InitFrames == ASSUME Init PROVE Abstract!FramesInit
<1>1. IInv /\ exc = 0 /\ status = "run"
  BY InitInv DEF Init
<1>2. PICK o \in Ref, m \in Method : Started(o, m)
  BY InitInv
<1> DEFINE z == Info[m].locals
           e == [k \in 1..z |-> IF k = 1 /\ o # 0 THEN o ELSE Number]
<1>3. /\ IF o = 0 THEN Info[m].isStatic ELSE ~Info[m].isStatic
      /\ Info[m].params <= 1 /\ th.base = 0 /\ th.sp = z /\ th.method = m /\ th.pc = 0
      /\ th.sync = FALSE /\ th.hasInst = (o # 0) /\ th.inst = o
      /\ \A k \in Index : /\ th.bits[k] <=> (k = 0 /\ o # 0)
                          /\ th.bits[k] => th.stack[k] = Word(o)
  BY <1>2 DEF Started
<1>4. th \in Thread /\ LIMIT \in Nat /\ z \in Nat /\ z <= LIMIT
  BY <1>1, <1>3, Runs, UjFramesAssumption
<1>5. Callers(th)[0] = <<>>
  <2>1. 0 \in 0..LIMIT /\ ~HasCaller(th, 0)
    BY <1>4 DEF HasCaller, RET
  <2> QED BY <1>4, <2>1, CallersAre
<1>6. Slots(th, 0, z) = e
  <2>1. ASSUME NEW k \in 1..(z - 0)
        PROVE  Cell(th, 0 + k - 1) = IF k = 1 /\ o # 0 THEN o ELSE Number
    <3>1. 0 + k - 1 \in Index /\ (0 + k - 1 = 0 <=> k = 1)
      BY <1>4 DEF Index
    <3>2. Word(o)[1] = o
      BY DEF Word
    <3> QED BY <1>3, <3>1, <3>2 DEF Cell
  <2>2. Slots(th, 0, z) = [k \in 1..(z - 0) |-> Cell(th, 0 + k - 1)]
    BY DEF Slots, Cell
  <2>3. z - 0 = z
    BY <1>4
  <2> HIDE DEF z
  <2> QED BY <2>1, <2>2, <2>3
<1>7. Running(th) = [this |-> o, method |-> m, pc |-> 0, sync |-> FALSE, slots |-> e]
  BY <1>3, <1>6 DEF Running
<1>8. StackOfFrames(th) = <<Abstract!Start(o, m)>>
  <2>1. StackOfFrames(th) = Append(<<>>, Running(th))
    BY <1>3, <1>5 DEF StackOfFrames
  <2>2. Append(<<>>, Running(th)) = <<Running(th)>>
    <3> HIDE DEF e
    <3> QED OBVIOUS
  <2>3. Running(th) = Abstract!Start(o, m)
    BY <1>7 DEF Abstract!Start, Abstract!Frame, Abstract!Number, Number
  <2> QED BY <2>1, <2>2, <2>3
<1>9. Abstract!Starts(o, m) /\ o \in Abstract!Ref
  BY <1>3 DEF Abstract!Starts, Abstract!Ref, Ref
<1> QED BY <1>1, <1>3, <1>8, <1>9 DEF Abstract!FramesInit

LEMMA NextFrames ==
  ASSUME IInv, [Next]_vars
  PROVE  [Abstract!FramesNext]_<<IF status = "run" THEN StackOfFrames(th) ELSE <<>>, exc, status>>
<1>1. CASE PushNumber
  BY <1>1, PushNumberStep
<1>2. CASE \E v \in Ref : PushRef(v)
  BY <1>2, PushRefStep
<1>3. CASE PopOperand
  BY <1>3, PopOperandStep
<1>4. CASE \E k \in Index : Load(k) \/ Store(k)
  BY <1>4, LoadStep, StoreStep
<1>5. CASE \E n \in 1..2, m \in 0..2 : Dup(n, m)
  BY <1>5, DupStep
<1>6. CASE \E p \in Site : Jump(p) \/ Catch(p)
  BY <1>6, JumpStep, CatchStep
<1>7. CASE \E m \in Method : Invoke(m)
  BY <1>7, InvokeStep
<1>8. CASE Return
  BY <1>8, ReturnStep
<1>9. CASE ReturnValue
  BY <1>9, ReturnValueStep
<1>10. CASE Throw
  BY <1>10, ThrowStep
<1>11. CASE Unwind
  BY <1>11, UnwindsStep
<1>12. CASE UNCHANGED vars
  BY <1>12 DEF vars
<1> QED
  BY <1>1, <1>2, <1>3, <1>4, <1>5, <1>6, <1>7, <1>8, <1>9, <1>10, <1>11, <1>12 DEF Next

\* The packed stack is a stack of Java frames: whatever bytecode runs, a call's
\* parameters are its first local variables and the caller keeps the rest of its slots,
\* a return brings back this, pc, the flags and every slot, and unwinding keeps the
\* handler's local variables.
THEOREM ImplementsJavaFrames == Spec => FramesSpec
<1>1. IInv /\ [Next]_vars
        => [Abstract!FramesNext]_<<IF status = "run" THEN StackOfFrames(th) ELSE <<>>, exc, status>>
  BY NextFrames
<1>2. Init => IInv /\ Abstract!FramesInit
  BY InitInv, InitFrames
<1>3. IInv /\ [Next]_vars => IInv'
  BY NextInv
<1> QED BY <1>1, <1>2, <1>3, PTL DEF Spec, FramesSpec, Abstract!FramesSpec

===============================================================================
