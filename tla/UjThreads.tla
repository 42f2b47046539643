------------------------------ MODULE UjThreads ------------------------------
(***************************************************************************)
(* The green threads of the uJ virtual machine (uJ/uj.c): the list of      *)
(* threads, the round robin of ujInstr with its quantum, the monitors of   *)
(* objects and classes, and the two loops that drive ujInstr, class        *)
(* initialisation and the main program.                                    *)
(*                                                                         *)
(* A thread executes what javac makes of a program: synchronized blocks    *)
(* and synchronized methods nest, and a block releases its monitor on the  *)
(* way of an exception.  calls holds, per thread, what it is inside of.    *)
(***************************************************************************)
EXTENDS Integers, Sequences, SequencesExt

CONSTANTS
  NT,        \* handles a thread may get; they are used again
  Monitor,   \* objects and classes
  Starts,    \* what a thread's first method may be synchronized on, or "none"
  QUANTUM,   \* UJ_THREAD_QUANTUM
  NC,        \* number of classes
  MaxNest    \* bound: blocks and synchronized calls a thread is inside of

ASSUME ThreadsAssumption ==
  /\ NT \in Nat \ {0}
  /\ QUANTUM \in Nat \ {0}
  /\ NC \in Nat
  /\ MaxNest \in Nat
  /\ Starts \subseteq Monitor \cup {"none"}

VARIABLES
  list,      \* the threads from gFirstThread on
  cur,       \* gCurThread
  i,         \* instructions executed in the quantum
  calls,     \* thread -> blocks and synchronized methods it is inside of
  top,       \* thread -> what the method it started with is synchronized on
  retry,     \* thread -> the instruction it must execute again, or Nothing
  mon,       \* monitor -> its holder and numHolds
  phase,     \* which loop runs
  left,      \* classes still to be initialised
  spare      \* ujInitAllClasses: threadH, a thread not yet used, or 0

vars == <<list, cur, i, calls, top, retry, mon, phase, left, spare>>

Thread == 1..NT
None == "none"
Nothing == [kind |-> "", mon |-> None]
Entry(k, m) == [kind |-> k, mon |-> m]
Instrs == {Entry(k, m) : k \in {"block", "method"}, m \in Monitor}

Listed == Range(list)
CanRun == list # <<>>

Init ==
  /\ list = <<>> /\ cur = 0 /\ i = 0
  /\ calls = [t \in Thread |-> <<>>]
  /\ top = [t \in Thread |-> None]
  /\ retry = [t \in Thread |-> Nothing]
  /\ mon = [m \in Monitor |-> [holder |-> 0, numHolds |-> 0]]
  /\ phase = "classes" /\ left = NC /\ spare = 0

-----------------------------------------------------------------------------
(* Monitors. *)

\* (Mutant: holder, which is never reset, is looked at even when the monitor is
\* free.)
CanEnter_HolderOnly(t, m) == mon[m].holder \in {0, t}

CanEnter(t, m) == mon[m].numHolds = 0 \/ mon[m].holder = t

\* ujThreadPrvMonEnter and ujThreadPrvMonExit when they succeed
Enter(t, m) == [mon EXCEPT ![m] = [holder |-> t, numHolds |-> @.numHolds + 1]]
Exit(t, m) == [mon EXCEPT ![m].numHolds = @ - 1]

CanExit(t, m) == mon[m].numHolds # 0 /\ mon[m].holder = t

-----------------------------------------------------------------------------
(* The list of threads. *)

\* ujThreadCreate: a new thread is the first of the list.
\* (Mutant: gCurThread is set only when there has never been a thread.)
FirstCur_OnlyOnce(h) == IF cur = 0 THEN h ELSE cur

FirstCur(h) == IF ~CanRun THEN h ELSE cur

Create(h, m) ==
  /\ h \in Thread \ Listed
  /\ list' = <<h>> \o list
  /\ cur' = FirstCur(h)
  /\ calls' = [calls EXCEPT ![h] = <<>>]
  /\ top' = [top EXCEPT ![h] = m]
  /\ retry' = [retry EXCEPT ![h] = Nothing]

PlaceOf(l, t) == CHOOSE k \in DOMAIN l : l[k] = t

\* The thread behind t: t->nextThread, or gFirstThread when there is none.
\* (Mutant: the list is begun again behind every thread but the first.)
NextThread_First(l, t) == IF t = l[1] /\ Len(l) > 1 THEN l[2] ELSE l[1]

NextThread(l, t) ==
  IF PlaceOf(l, t) = Len(l) THEN l[1] ELSE l[PlaceOf(l, t) + 1]

\* ujThreadDestroy: the one before t is linked to the one behind it.
Unlinked(l, t) == RemoveAt(l, PlaceOf(l, t))

-----------------------------------------------------------------------------
(* One instruction of the running thread, in ujInstr. *)

\* phases in which ujCanRun is tested and ujInstr called
Loops == {"clinit", "main"}

Runs(t) == phase \in Loops /\ CanRun /\ cur = t
Free(t) == Runs(t) /\ retry[t] = Nothing

\* The quantum goes on, unless it is used up or the instruction ends it.
\* (Mutant: the next thread does not get a quantum of its own.)
Continue_NoReset(t, l, ends) ==
  /\ i' = i + 1
  /\ cur' = IF ends \/ i + 1 >= QUANTUM THEN NextThread(l, t) ELSE cur

Continue(t, l, ends) ==
  IF ends \/ i + 1 = QUANTUM
  THEN i' = 0 /\ cur' = NextThread(l, t)
  ELSE i' = i + 1 /\ cur' = cur

\* An instruction that ends well.
Goes(t) ==
  /\ Continue(t, list, FALSE)
  /\ UNCHANGED <<list, top, phase, left, spare>>

\* The thread has returned from its first method: ujThreadDestroy.  gCurThread
\* is taken before it is destroyed, and names it if there is no other.
Dies(t) ==
  /\ Continue(t, list, TRUE)
  /\ list' = Unlinked(list, t)
  /\ top' = [top EXCEPT ![t] = None]
  /\ UNCHANGED <<left, spare>>

Failed == phase' = IF phase = "main" THEN "halted" ELSE "broken"

\* Any instruction that concerns no monitor.
Other(t) ==
  /\ Free(t)
  /\ Goes(t)
  /\ UNCHANGED <<calls, retry, mon>>

\* An instruction fails: the main loop ends the program.  ujInitAllClasses goes
\* on with the thread as the failed instruction left it, which is not modelled.
Fail(t) ==
  /\ Free(t)
  /\ Failed
  /\ Continue(t, list, TRUE)
  /\ UNCHANGED <<list, calls, top, retry, mon, left, spare>>

MayExecute(t, e) == Runs(t) /\ retry[t] \in {Nothing, e} /\ Len(calls[t]) < MaxNest

Inside(t, e) ==
  /\ mon' = Enter(t, e.mon)
  /\ calls' = [calls EXCEPT ![t] = Append(@, e)]
  /\ retry' = [retry EXCEPT ![t] = Nothing]

\* monitorenter
MonitorEnter(t, m) ==
  LET e == Entry("block", m)
  IN  /\ MayExecute(t, e)
      /\ CanEnter(t, m)
      /\ Inside(t, e)
      /\ Goes(t)

\* ... of a monitor that is held: the reference is pushed again, pc put back, and
\* the thread tries again for the rest of its quantum.
MonitorSpin(t, m) ==
  LET e == Entry("block", m)
  IN  /\ MayExecute(t, e)
      /\ ~CanEnter(t, m)
      /\ retry' = [retry EXCEPT ![t] = e]
      /\ Goes(t)
      /\ UNCHANGED <<calls, mon>>

\* Invocation of a synchronized method
SyncInvoke(t, m) ==
  LET e == Entry("method", m)
  IN  /\ MayExecute(t, e)
      /\ CanEnter(t, m)
      /\ Inside(t, e)
      /\ Goes(t)

\* ... whose frame does not fit: the monitor has been entered already.
SyncInvokeOverflow(t, m) ==
  /\ MayExecute(t, Entry("method", m))
  /\ CanEnter(t, m)
  /\ mon' = Enter(t, m)
  /\ Failed
  /\ Continue(t, list, TRUE)
  /\ UNCHANGED <<list, calls, top, retry, left, spare>>

\* ... whose monitor is held: UJ_ERR_RETRY_LATER ends the quantum.
SyncInvokeLater(t, m) ==
  LET e == Entry("method", m)
  IN  /\ MayExecute(t, e)
      /\ ~CanEnter(t, m)
      /\ retry' = [retry EXCEPT ![t] = e]
      /\ Continue(t, list, TRUE)
      /\ UNCHANGED <<list, calls, top, mon, phase, left, spare>>

\* monitorexit of the innermost block
MonitorExit(t) ==
  /\ Free(t) /\ calls[t] # <<>> /\ Last(calls[t]).kind = "block"
  /\ CanExit(t, Last(calls[t]).mon)
  /\ mon' = Exit(t, Last(calls[t]).mon)
  /\ calls' = [calls EXCEPT ![t] = Front(@)]
  /\ Goes(t)
  /\ UNCHANGED retry

\* monitorexit of a monitor the thread does not hold: UJ_ERR_MON_STATE_ERR is
\* dropped, the instruction ends well.
MonitorExitUnheld(t, m) ==
  /\ Free(t)
  /\ ~CanExit(t, m)
  /\ Goes(t)
  /\ UNCHANGED <<calls, retry, mon>>

\* Return from a synchronized method.
SyncReturn(t) ==
  /\ Free(t) /\ calls[t] # <<>> /\ Last(calls[t]).kind = "method"
  /\ CanExit(t, Last(calls[t]).mon)
  /\ mon' = Exit(t, Last(calls[t]).mon)
  /\ calls' = [calls EXCEPT ![t] = Front(@)]
  /\ Goes(t)
  /\ UNCHANGED retry

\* Return from the method the thread started with: its monitor is not released.
TopReturn(t) ==
  /\ Free(t) /\ calls[t] = <<>>
  /\ Dies(t)
  /\ UNCHANGED <<calls, retry, mon, phase>>

\* ujThreadPrvThrow unwinds to depth n: every frame on the way is a synchronized
\* method, left by ujThreadPrvRet, since a block has a handler for everything.
Released(s) ==
  [m \in Monitor |->
     Cardinality({k \in DOMAIN s : s[k] = Entry("method", m)})]

\* (Mutant: monitors stay held when an exception leaves a method.)
UnwoundMon_Kept(s) == mon

UnwoundMon(s) ==
  [m \in Monitor |-> [mon[m] EXCEPT !.numHolds = @ - Released(s)[m]]]

Unwinds(t, n) ==
  /\ Free(t) /\ n \in 0..Len(calls[t])
  /\ \A k \in (n + 1)..Len(calls[t]) : calls[t][k].kind = "method"
  /\ mon' = UnwoundMon(SubSeq(calls[t], n + 1, Len(calls[t])))
  /\ calls' = [calls EXCEPT ![t] = SubSeq(@, 1, n)]
  /\ UNCHANGED retry

Throw(t, n) ==
  /\ Unwinds(t, n)
  /\ Goes(t)

\* No handler in any frame: the thread dies with UJ_ERR_USER_EXCEPTION.
ThrowUncaught(t) ==
  /\ Unwinds(t, 0)
  /\ Dies(t)
  /\ phase' = IF phase = "main" THEN "halted" ELSE phase

\* RT.threadCreate of an object whose run() may be synchronized (m).
ThreadCreate(t, h, m) ==
  /\ Free(t)
  /\ h \in Thread \ Listed
  /\ list' = <<h>> \o list
  /\ top' = [top EXCEPT ![h] = m]
  /\ Continue(t, <<h>> \o list, FALSE)
  /\ UNCHANGED <<calls, retry, mon, phase, left, spare>>

-----------------------------------------------------------------------------
(* The loops around ujInstr. *)

\* ujInitAllClasses makes a thread unless it still has one.
SpareThread(h) ==
  IF spare # 0
  THEN h = spare /\ UNCHANGED <<list, cur, calls, top, retry>>
  ELSE Create(h, None)

\* A class without <clinit>: the thread is kept for the next one.
ClassWithout(h) ==
  /\ phase = "classes" /\ left > 0
  /\ SpareThread(h)
  /\ spare' = h /\ left' = left - 1
  /\ UNCHANGED <<i, mon, phase>>

\* A class with <clinit>: it runs, and every thread it creates.
ClassInit(h) ==
  /\ phase = "classes" /\ left > 0
  /\ SpareThread(h)
  /\ spare' = 0 /\ phase' = "clinit"
  /\ UNCHANGED <<i, mon, left>>

ClassDone ==
  /\ phase = "clinit" /\ ~CanRun
  /\ phase' = "classes" /\ left' = left - 1
  /\ UNCHANGED <<list, cur, i, calls, top, retry, mon, spare>>

DestroySpare ==
  /\ phase = "classes" /\ left = 0 /\ spare # 0
  /\ list' = Unlinked(list, spare)
  /\ spare' = 0
  /\ UNCHANGED <<cur, i, calls, top, retry, mon, phase, left>>

\* run_uj creates the main thread; main() may be synchronized, too.
StartMain(h, m) ==
  /\ phase = "classes" /\ left = 0 /\ spare = 0
  /\ Create(h, m)
  /\ phase' = "main"
  /\ UNCHANGED <<i, mon, left, spare>>

End ==
  /\ phase = "main" /\ ~CanRun
  /\ phase' = "ended"
  /\ UNCHANGED <<list, cur, i, calls, top, retry, mon, left, spare>>

Instr(t) ==
  \/ Other(t) \/ Fail(t)
  \/ \E m \in Monitor :
       \/ MonitorEnter(t, m) \/ MonitorSpin(t, m) \/ MonitorExitUnheld(t, m)
       \/ SyncInvoke(t, m) \/ SyncInvokeOverflow(t, m) \/ SyncInvokeLater(t, m)
  \/ MonitorExit(t) \/ SyncReturn(t) \/ TopReturn(t)
  \/ \E n \in 0..MaxNest : Throw(t, n)
  \/ ThrowUncaught(t)
  \/ \E h \in Thread, m \in Starts : ThreadCreate(t, h, m)

Next ==
  \/ \E t \in Thread : Instr(t)
  \/ \E h \in Thread : ClassWithout(h) \/ ClassInit(h)
  \/ ClassDone \/ DestroySpare
  \/ \E h \in Thread, m \in Starts : StartMain(h, m)
  \/ End

Spec == Init /\ [][Next]_vars

\* The loops call ujInstr for as long as there is a thread.
FairSpec == Spec /\ WF_vars(Next)

-----------------------------------------------------------------------------
(* Properties. *)

TypeOK ==
  /\ list \in Seq(Thread) /\ IsInjective(list)
  /\ cur \in {0} \cup Thread
  /\ i \in 0..(QUANTUM - 1)
  /\ calls \in [Thread -> Seq(Instrs)]
  /\ \A t \in Thread : Len(calls[t]) <= MaxNest
  /\ top \in [Thread -> Monitor \cup {None}]
  /\ retry \in [Thread -> Instrs \cup {Nothing}]
  /\ mon \in [Monitor -> [holder : {0} \cup Thread, numHolds : Nat]]
  /\ phase \in {"classes", "clinit", "main", "ended", "halted", "broken"}
  /\ left \in 0..NC
  /\ spare \in {0} \cup Thread

\* A monitor counts exactly the blocks and synchronized calls its holder is inside
\* of, and no other thread is inside of one: through blocking and retries, returns,
\* exceptions, and the death of a thread whose handle is used again.
Holds(t, m) == Cardinality({k \in DOMAIN calls[t] : calls[t][k].mon = m})

MonitorsMatch ==
  phase \in {"classes", "clinit", "main", "ended"} =>
    \A m \in Monitor :
      /\ mon[m].numHolds # 0 => mon[m].holder \in Listed
      /\ \A t \in Listed :
           Holds(t, m) = IF mon[m].holder = t THEN mon[m].numHolds ELSE 0

\* gCurThread names a listed thread whenever ujInstr is called, though it is left
\* dangling each time the last thread dies.
CurIsListed == phase \in Loops /\ CanRun => cur \in Listed

\* Every thread gets its turn, whatever the others do and however many are created.
EveryThreadRuns ==
  \A t \in Thread :
    t \in Listed /\ phase \in Loops ~> cur = t \/ t \notin Listed \/ phase \notin Loops

\* A thread waits for a monitor only as long as others hold it now and again.
WaitsFor(t, m) == phase \in Loops /\ retry[t].mon = m

WaiterGetsFreeMonitor ==
  \A t \in Thread, m \in Monitor :
    <>[]WaitsFor(t, m) => []<>(mon[m].numHolds # 0 /\ mon[m].holder # t)

\* What uj.h says of JAVA_ACC_SYNCHRONIZED, "invocation is wrapped in a monitor
\* lock": two threads are never inside of code synchronized on the same monitor,
\* the method a thread starts with included.
InsideOf(t, m) == t \in Listed /\ (top[t] = m \/ Holds(t, m) > 0)

SynchronizedExcludes ==
  phase \in Loops =>
    \A m \in Monitor, t, u \in Thread : InsideOf(t, m) /\ InsideOf(u, m) => t = u

=============================================================================
