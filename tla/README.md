# uJ, verified in parts

uJ (microjava) is a Java virtual machine for microcontrollers: an interpreter
with a compacting heap and green threads (`src/uJ`), a port of it to RIOT-OS that
adds events, CoAP and over-the-air updates (`src/riot`), and a tool that converts
class files to a compact format (`src/classCvt`). These modules specify them, check
them with TLC and prove what matters most about them with TLAPS.

## 1. The system

| Component | Source | State | Operations | What is hard | What makes it correct |
|---|---|---|---|---|---|
| heap | `uJ/ujHeap.c` | handle table; chunks with size, waste, free, lock, mark | new, free, lock, release, non-movable allocation, unmark, free unmarked, compact | merging and moving after any history; handles that follow; locks held across a collection | chunks tile the heap; handles name their own chunk; a locked chunk stays; contents survive; the slow path ends |
| garbage collector | `uJ/uj.c` 4430-4605 | marks | `ujGC`, called by an allocation | called from the middle of an instruction or native; any object graph; chunks that are no objects | exactly the reachable is kept; nothing that is being worked on is lost |
| threads, monitors | `uJ/uj.c` 336-352, 875-910, 2347-2391, 4206-4405 | thread list, `gCurThread`, monitors | create, destroy, `ujInstr`, monitorenter/exit, synchronized calls | handles used again; death during a quantum; exceptions that leave monitors; retries | mutual exclusion, monitors balanced, nobody starves |
| frames, exceptions | `uJ/uj.c` 1046-1384, 1620-1720, 2197-2391, 2742-2814 | stack words, reference bits, `UjThread` | push, pop, dup, locals, invoke, return, throw | return information packed between frames; bits that are not written by every push | behaves as the frames of the Java machine; the collector's bits are right |
| instructions | `uJ/uj.c` 2820-4305 | none of their own | decode, arithmetic, arrays, fields | numeric edges, operands lost on an error | results as in Java |
| classes | `uJ/uj.c` 548-1032, 2648-2739 | list of classes, field offsets | load, register native, find class, find method, instanceof | order of dependencies; native and converted and plain classes mixed | every class after its superclass; the most derived method is found |
| builtin classes | `uJ/uj.c` 4607-5088 | natives of Object, MiniString, RT | | allocation while parameters are off the stack | see collector |
| soft numbers | `uJ/long64_*.c`, `uJ/double64_soft.c` | none | 64-bit arithmetic on 32 bits | carries, shifts, division | equal to 64-bit arithmetic |
| event queue, timers | `riot/events.c`, `riot/nat_riot.c` | message queue of 32, last message, current event, events on the C heap | post, post and wait, reply, wait, set timeout | interrupts, a full queue, late timeouts, replies to the wrong request, ownership of events | each event has one owner; each request gets its own reply; events are lost only when an interrupt finds the queue full |
| CoAP bridge | `riot/nat/gcoap/nat_gcoap_uj.c` | resources | request handler, register, send request | the CoAP thread blocks until the program replies | no deadlock with a program that replies |
| updates | `riot/nat/gcoap/nat_gcoap_native.c`, `riot/nat_uj.c`, `riot/main.c` | files `update.ujcpak.part`, `update.ujcpak`, `default.ujcpak` | start, write, abort, finish, apply, load, reboot | a crash between two steps, requests in any order | a program can always be loaded |
| peripherals, boards | `riot/nat/*` | driver handles | thin wrappers | GPIO interrupts post events | see event queue |
| class converter | `classCvt/*` | basic blocks, exception entries, constants with marks, sizes of sections | cut code into blocks, rewrite instructions, mark, move and fix constants, write | addresses that change while others refer to them; padding of switches; indices in a byte | each jump and each reference means what it did |

The interpreter is one C thread. `ujInitAllClasses` and then `run_uj` call
`ujInstr`, which runs the current green thread for a quantum. An instruction
pushes and pops words of that thread's stack and calls the heap for memory;
`ujHeapHandleNew` may call back into `ujGC`, which walks class variables, the
stacks of all threads and the objects, and then compact. So the collector runs
inside of an instruction or a native that may hold handles in C variables, and raw
pointers under a lock. That callback, not preemption, is the concurrency of the
core; preemption begins with the RIOT port, where interrupts and the CoAP thread
post events to the interpreter's thread.

## 2. The modules

| Module | Models |
|---|---|
| `HeapStore` | abstract: what a heap promises, a store of objects by handle |
| `UjHeap` | `ujHeap.c`; implements `HeapStore` |
| `MCUjHeap` | its small instance |
| `UjHeap_proofs` | its theorems |
| `UjGC` | `ujGC`, the instructions that move references, all that allocate |
| `UjGC_proofs` | its theorems |
| `UjThreads` | thread list, quantum, monitors, class initialisation, main loop |
| `UjThreads_proofs` | its theorems |
| `JavaFrames` | abstract: a stack of frames as the Java machine has it |
| `UjFrames` | `UjThread`'s packed stack; implements `JavaFrames` |
| `UjFrames_proofs` | its theorems |
| `MCUjFrames` | its small instance |
| `RiotEvents` | `events.c`, the natives of class RIOT that use it, timers, GPIO interrupts, the CoAP thread, the loop of `Default.java` |
| `UjUpdate` | the handlers under `/uj/update`, the installation and the loading of a package, power failures, clients |
| `Riot_proofs` | the theorems of `RiotEvents` and `UjUpdate` |
| `UjClasses` | registration and loading of classes, layout, lookup, instanceof, slots of a call |
| `UjClasses_proofs` | its theorems |
| `MCUjClasses` | its hierarchies |
| `BasicBlocks` | `bb.c`: the blocks of a method |
| `ClassConvert` | `classOptimize` and `classExport`, on `BasicBlocks` |
| `ClassConvert_proofs` | its theorems |
| `MCClassConvert` | its classes |
| `Recursion` | lemmas about recursion along the natural numbers, for the proofs |

Each splits at a boundary of the code: `UjHeap` does not know what objects are and
takes any set of unlocked handles for garbage; `UjGC` does not know where objects
are and lets an allocation find no room at any time; `UjThreads` abstracts frames
to what a thread is inside of; `UjFrames` has one thread and no monitors;
`RiotEvents` takes the Java program for a sequence of natives, `UjUpdate` for
something that runs, fails or returns. `UjUpdate` ends where the package is open and
`UjClasses` begins there; the event that ends an update is in `RiotEvents`.
`ClassConvert` extends `BasicBlocks` as `classOptimizer.c` includes `bb.h`.

### UjHeap

`table` is the handle table, `chunk` a function from the addresses of headers to
headers (`size`, `wsze`, `free`, `lock`, `mark`, and what its data stands for), so
that "the next chunk" is computed from sizes as in `ujHeapPrvGetNextChunk` and a
wrong size really loses the chain. `pc` follows `ujHeapHandleNew` through its slow
path: `Collect` (any set of handles is what the collector marks), `Sweep`, one
handle per step as in `ujHeapFreeUnmarked`, `Compact`, one move per step, `Retry`,
and its four ways to end. A header takes `HDR` bytes, requests come from
`Requests` and are rounded to `ALIGN`; a chunk that cannot be split keeps `wsze`.
`FreeChunk` merges with both neighbours and gives up the waste of its predecessor.
`SetLock` covers lock and release; `HandleNew` with `nonmovable` is
`ujHeapAllocNonmovable`, which gives the handle back at once. `Round`
wraps at `SIZES` (2^16) as the parameter of `ujHeapPrvAllocChunk` does, so a request
of 65533 gets a chunk of nothing, and the proofs cover that; no property says that
a chunk is as large as was asked, and the truncation of `len * size` in
`ujThreadPrvNewArray` is left to a later module.

### UjGC

Objects have kinds, of which "raw" (characters) and "thread" have no class pointer.
`Collect`, `Trace`, `TraceDone`, `Sweep` are `ujHeapUnmarkAll` with step 1 of
`ujGC`, one iteration of step 2, its end, and `ujHeapFreeUnmarked`. A `Request`
suspends the instruction or native (`op` says which and what handle is in its C
variables); `Granted` is the rest of it. `lost` records what a collection freed
although `op` could still reach it; what the C code does after that is undefined,
and the model stops. One static field stands for all class variables.

### UjThreads

`list`, `cur`, `i` are `gFirstThread` and the `nextThread` chain, `gCurThread` and
the counter of the quantum. `calls` holds the blocks and synchronized calls a
thread is inside of, `retry` the instruction it must execute again. `monitorenter`
that fails is executed again within the quantum, a synchronized call that fails
ends it (`UJ_ERR_RETRY_LATER`). A thread's handle is taken again after its death,
and `mon[m].holder` keeps naming it. Bytecode is what javac makes: a block has a
handler that releases its monitor, so an exception leaves a block only through
`MonitorExit`. `MonitorExitUnheld` is other bytecode, whose failure the code drops.
Phase "broken" is `ujInitAllClasses` after an instruction failed: the code goes on
with a thread in the middle of an instruction; the model stops there.

### UjFrames

A word holds a value or the two numbers that are packed into it. `bits` are the
reference bits for all words up to the limit: those above the top count, since
`ujThreadPrvPush` of a number writes none. `Shift` is step 1 of `ujThreadPrvDup`,
which invocation uses with a negative distance to make room for `PushRetInfo`
below its parameters. `Throw`, `Catch` and `Unwind` are `athrow` and the turns of
the loop in `ujThreadPrvThrow`; any frame may have a handler. A monitor that cannot be
left while unwinding, whose error that loop ignores (`uj.c` 2807), is not followed:
frames here have no monitors, and `MonitorsMatch` of `UjThreads` excludes it. Bytecode is verified:
operands are there, a load follows a store. Refinement: `Callers` reads the
frames from the return information down to base 0.

### RiotEvents

`event` maps addresses to what `make_event_raw` has put there; `queue`, `last`,
`cur` are `msg_queue`, `last_msg`, `cur_event`. `pc` is the uj thread: "recv" inside
of a reception, "got" with a message in `last_msg` and `wait_event` not yet
returned. `g` is the CoAP thread; `waiter` a sender that RIOT has blocked because
the queue is full. `Deliver`, `TakeFirst`, `Send`, `Full` and `CanReply` are RIOT's
messages as `events.c` uses them (external: not in the repository), `Timeout` is the
message with which xtimer ends `xtimer_msg_receive_timeout`; it may arrive after
the wait has got another message, and then meets a later wait. `prog = "any"` calls
natives in any order; `prog = "default"` is the loop of `Default.main`, which
replies to each request and ends for `EVT_UPD_RDY`. `buf` numbers the packets in
the CoAP thread's one buffer, so that `Payload` can say which packet a program reads.
A reply while the CoAP thread's message still waits for room is not followed
(`waiter = <<>>` in `ReplyEvent`): RIOT's `msg_reply` to a thread in that state is
undefined here.

### UjUpdate

The three files are functions from blocks to versions, so a file of old and new
blocks can be told from a whole one. `boot` goes through `loadPackedUjcClasses`:
look, unlink, rename, load. The handlers run in the CoAP thread between these
steps; abort is two steps, since it removes two files. `Restart` is a power failure
in any state. `Loads` says which packages start: complete ones do, those without a
class do not, mixtures may. Two kinds of file systems are told apart, those whose
rename replaces (littlefs) and those whose does not (SPIFFS), and boards with and
without a program in constfs. `client = "any"` sends anything; `CarefulTakesOver`
begins a careful update: abort, start, write each block, finish, switch off and on,
each repeated until answered. `careful` and `raced` are history variables.

### UjClasses

A class is its position in `classes`; `FindClass` takes the newest of a name as the
list from `gFirstClass` does. Loading goes class by class (`LoadClass`, `Skip`,
`NextRound`). The search of `ujThreadPrvInstanceof` is one step per turn of its
loop, with `mark` and `q.at` for `cls`. Lookups of methods and fields are operators:
they change nothing. In a field access by name, `Matches` compares with the string
that the file of the *executing* class has at the address, as the code does, and
the hash of the declaring one. What `ujRegisterNativeClass` leaves in a native
class's flags is not defined; asking for instances of one as of an interface is one
of two outcomes. Hashes are taken to tell all names apart.

### BasicBlocks and ClassConvert

`gCode` has instructions by address; `Decode` and `ExtraSz` are the cases of
`bbPrvDisasm`, `ExportLen` is `bbPrvInstrExport` without a buffer. `bbPrvRun` takes
one address from `Q` and cuts a block, `bbFinishLoading` turns addresses into blocks
(here: their positions in `bbList`), `bbPass` rewrites, `BlockAddr` and `Finalized`
are `bbFinalizeChanges`. Opcodes that the converter treats alike are one `op`.
`ClassConvert` goes through `classOptimize`: each method with code and its
exceptions, first to optimize and mark, then, after `MarkOthers` and `Reorder`, to
correct indices; `classExport` computes addresses and writes. `ClassesAssumption` says
what a Java compiler sees to and the converter relies on: the code of a method is
instructions one behind the other (`WellFormed`), targets and exception entries are at
instructions, or at the end of the code for the end of an entry; a constant refers to
constants of the right types, and an instruction to what it needs (`Constant`,
`Instruction`): an `ldc` to an index that fits in a byte, an access to a field of the
class itself is static if the field is. A class file has none of the forms that only
the converter makes. What an instruction holds in place of a reference is its `val`: the
number of a `push_raw`, the type and offset of a local field, the index and slots of a
local method. `Items` is what the two loops that write constants write, turn by turn;
`Written` is the same by address, and the addresses themselves come from other loops
(`StringAddr`, `CrefAddr`), as in the code. `exit` holds why the converter gave up: it does so by design for `new` of
anything but String and StringBuilder, a member that is inherited, and a branch out
of reach.

## 3. What is checked

| Run | Bounds | Shows |
|---|---|---|
| `heap` | 16 bytes, four chunks at most, three handles | `Tiled`, `NoSlack`, `HandlesNameOwnChunk`, `SweepExact`, `CompactionCoalesces`, `Pinned`, `AllocationReturns`, and `StoreSpec`: the heap implements `HeapStore` |
| `gc` | 4 handles, 2 threads, arrays to 2, 3 slots, 2 frames, 6 instructions | `MarkExact`, `NeverParsesRaw`, `NoDangling`, `NativesKeepWhatTheyNeed`, `MarkingEnds` |
| `gc_lost` | 3 handles, 1 thread, arrays to 1, 2 slots, 1 frame, 3 instructions | a violation, see 5 |
| `threads` | 3 handles for threads, 1 monitor, quantum 3, 2 classes, nesting 2 | `MonitorsMatch`, `CurIsListed`, `EveryThreadRuns`, `WaiterGetsFreeMonitor` |
| `threads_sync` | 2 handles for threads, 1 monitor, quantum 2, no classes, nesting 1; a thread may start with a synchronized method | a violation, see 5 |
| `frames` | stack of 8 words, 3 methods, 1 object, 2 positions | `BitsNameHandles`, `UnwindingDescends`, and `FramesSpec`: the stack implements `JavaFrames` |
| `frames_class` | stack of 7 words, the rest as for `frames` | a violation, see 5 |
| `riot` | 4 events (one kept for the program), a queue of 2, 3 packets between two starts | `OwnedOnce`, `RequestTracked`, `OnlyKnownLeaks`, `CoapThreadReturns` |
| `update` | packages of 2 blocks, 2 versions and a builtin one, both kinds of file systems and boards | `AlwaysWhole`, `LostOnlyByAbort`, `RunsInstalled`, `Recoverable` |
| `classes` | 2 native classes, 2 classes, 2 interfaces, 162 hierarchies in 3 orders | `LoaderResolves`, `LayoutSound`, `MembersFound`, `InstanceofAnswers`, `InstanceofEnds` |
| `classes_slots` | those of `classes`, but 4 parameter lists instead of 2 | a violation, see 5 |
| `convert` | 2490 classes: methods of 4 instructions with jumps, switches and exceptions, 28 constants in 2 orders; a byte of 14, a reach of 4 | `TargetsKept`, `ReferencesKept` |

Why the bounds are enough. *heap*: a move needs a chunk in use between two others,
one of them free; four chunks give every neighbourhood, including a pinned chunk on
either side, waste before and behind, and all handles in use while there is room.
*gc*: four handles hold a thread, an object, what it refers to and what is being
allocated; children with lower handles than their parents occur, and cycles. Six
instructions reach every operation with a collection in it. *threads*: three
handles and two threads that die and are created again show a reused handle that
once held the monitor; quantum 3 is longer than an enter and an exit. *frames*: 8
words hold main, a call below one operand and a call from there, each call taking
three words of return information; `dup2_x2` fits; overflow is reached in push, dup,
invocation and unwinding. *riot*: a queue of 2 is full with a blocked sender behind
it; four events are those of the queue, the one in hand and one more, so that an
event freed too early is taken by another; three packets let a late reply meet the
next request. Probes reach a late timeout received by the next wait, a timer lost to
a full queue and a reply without receiver. *update*: two blocks are enough for a
file of two versions and for one with a hole; the handlers look at no more than the
presence of three files. *classes*: chains of two above a native class in all
orders, an interface reached through one that is loaded before or after it, a class
or interface that is missing. *convert*: a byte of 14 lies inside of the pool, so
constants that an `ldc` cannot name are there, before and behind its own; a reach of 4 is crossed when
instructions grow; padding occurs with all four remainders; all ways to give up but
broken bytecode happen.

Deadlock is not checked where the program ends: `gc` (the bound on instructions, a
lost object), `threads` (the program ends or fails), `frames` (the thread ends),
`riot` (an "any" program that waits forever, without a packet left), `update` (never
stuck in fact), `classes` (the start failed), `convert` (done or given up).

Fairness. The heap and the collector are straight-line code run by the caller:
once `ujHeapHandleNew` is called its steps follow, so `UjHeap` has weak fairness of
its slow path and `UjGC` of `Trace \/ TraceDone`. The loops of `ujInitAllClasses`
and `run_uj` call `ujInstr` as long as a thread exists: weak fairness of `Next` in
`UjThreads`, with no assumption on which instruction is executed. `frames` needs
none: `UnwindingDescends` says instead that each turn of the loop gets lower.
`riot`: threads of RIOT run by priority and none above these two runs forever, so
the uj thread and the CoAP thread's answer are weakly fair, and a timeout that has
been set comes; requests, interrupts and timers need not come. `update`: both
threads go on (weak fairness of the steps of the start and of the abort handler); a
careful client goes on, and since it repeats a request only a few times the answer
is strongly fair; `Recoverable` starts from a power that has become stable.
`classes`: one thread, weak fairness of loading and of the search.

## 4. What is proved

`UjHeap_proofs` proves for every heap size, number of handles and set of request
sizes: `TypeCorrect`, `HeapTiled`, `HeapNoSlack`, `HandlesSound`, `SweepIsExact`,
`LockedPinned`, and `HeapRefinesStore`, each a theorem of `Spec`. The assumptions
are those of `UjHeap` (`HeapAssumption`: `FIRST`, `HDR`, `ALIGN`, `SIZES` and `NH`
are positive, the heap holds at least one header, requests are natural numbers;
nothing depends on alignment).

The argument. `Tiled` alone is not inductive: freeing and moving write a header at
an address computed from the sizes and the waste of up to three chunks. The
inductive invariant `IInv` (theorem `Invariant`) is the conjunction of `TypeOK`,
`Tiled`, `NoSlack`, `HandlesNameOwnChunk`, `SweepExact` and `SweepInv`. `NoSlack`
is needed because a move copies a header with its `wsze`, and because a span that is
freed may swallow one free neighbour only; `HandlesNameOwnChunk` because a handle is
freed and repointed through its chunk; `SweepInv` says that during the sweep the
marked chunks are those of the rooted handles, and that of the handles already
passed only rooted or locked ones are left. Lemmas about `FreeChunk`, `AllocChunk`
and `Move`, stated for a chunk map that is not tied to the state, say that each
yields a valid map and leaves the chunks in use that it is not about alone; the step
theorem has one case per action. `LockedPinned` and the refinement follow from the
invariant before a step and the same lemmas. `CompactionIsComplete` adds to the
invariant only that no chunk can be moved when compaction is over (`CompactedInv`): with
nothing locked, the chunk in front of a second free chunk would be in use, as free chunks
are merged, and would have a chunk in front of it (`PrevExists`, by the least number
principle of `Recursion`), hence be movable.

`Riot_proofs` proves about `UjUpdate`, for packages of any size, any set of versions and both
kinds of boards `AlwaysRunsInstalled`, `AlwaysLostOnlyByAbort` and
`AlwaysAlwaysWhole`, from `UpdateAssumption` (at least one block; versions, the
builtin package and a hole are different). `RunsInstalled` is inductive: only the
start writes `default.ujcpak`. `LostOnlyByAbort` needs that while the old program is
about to be removed the update is there or was aborted (`KeptInv`). `AlwaysWhole`
needs `CarefulInv`: the order of the careful client's requests says which files can
be there (no update before finish, a whole part at finish), that an installation in
progress has its update, and that `default.ujcpak` is only ever a whole version.

`UjThreads_proofs` proves for any number of threads, monitors and classes and any
quantum and depth `TypeCorrect`, `MonitorsAlwaysMatch` and `CurAlwaysListed`, and from
the second of them `BlocksAlwaysExclude`, the mutual exclusion of blocks and called
methods, under `ThreadsAssumption`. `MonitorsMatch` is not inductive alone: a thread's
handle is used again, so a handle that is not listed must be inside of nothing
(`LeftAll`); `ujInstr` must run a listed thread (`CurListed`), or the one that dies is
not taken off the list; and between two classes at most the spare thread is listed
(`SpareIdle`). `Agree` says for any set of threads that they and the monitors agree;
`EnterAgrees`, `LeaveAgrees`, `IdleComes` and `IdleGoes` are its steps, the second by
counting what is above and below the depth an exception unwinds to (`OnSplit`).

`UjFrames_proofs` proves for a stack of any size, any methods and objects and any
verified bytecode `TypeCorrect` (no instruction goes beyond the limit or below the
base), `BitsAlwaysRight` and `UnwindingAlwaysDescends`, from `UjFramesAssumption`.
None is inductive alone: a return believes the three words below the base, so the
invariant says for every base of a set of bases (`Chain`), the current one the largest,
that what is packed below it is the flags and the method of a caller, a base of the set
that is lower by more than the caller's local variables, and the caller's instance if
it has one (`RetInfo`). One lemma per primitive says which fields, words and bits it
changes; `CalledOK` follows an invocation through its shift and its three pushes, whose
last two write no bit and rely on the shift for having cleared it; `RetOK` is the way
back.

Its theorem `ImplementsJavaFrames` is the refinement: the frames that `Callers` reads
from the packed words take the steps of `JavaFrames`. `Callers` is recursive in the
base, and each base is below the one it is reached from, so `Recursion` gives its
equation; a frame whose words a step does not write reads as before, by induction from
base 0 upwards. Then there is one lemma per instruction: what it does to the words and
bits of the running frame, and, for a call, a return and a turn of the unwinding loop,
that one frame is pushed on or popped from those read.

`UjGC_proofs` proves for any number of objects and threads, any length of objects and
any order in which handles are found `MarkingIsExact`, `NeverParsesThreads`,
`NothingDangles`, `NativesAlwaysKeep` and `TypeCorrect`, from `GCAssumption`. The invariant is `Sound`
until an operation has lost an object; then the model has stopped in that operation.
`Sound` says of every stack, class variable and object what it may refer to
(`Referable`): any object with a class pointer but the String that
`ujThreadPrvNewConstString` is making, which only a C variable names until its
characters are there. `OpNeeds` says of each operation that allocates what it holds
meanwhile and that this is on a stack or locked, which is why a sweep keeps it; for
`multianewarray` and `RT.threadCreate` it does not say so, and these are the exceptions
of `NativesAlwaysKeep`. `MarksRight` is the marking: nothing is marked that is not
reached, the roots are marked, and what an object marked 2 refers to is marked; when no
object is marked 1 those marked are closed under reference, and `ReachLeast` makes them
all that is reached. The types need `Fits` beside it: what an instruction found out about
the stack when it began must hold until, after any number of steps of the collector and
of more requests, its result is pushed, and the counter of `multianewarray` must not pass
the length of the outer array. After a loss the model has stopped, and `TypeOK` holds on
its own.

`Riot_proofs` proves about `RiotEvents`, for any number of events, any part of them kept in reserve,
any length of the queue and any number of requests `TypeCorrect`,
`EventsAlwaysOwnedOnce`, `RequestsAlwaysTracked` and `OnlyKnownLeaksEver`, from
`EventsAssumption`. The first two hold under any program. `States` says when something
can be held at all: a sender waits only while the queue is full, the program holds no
event while it waits for one, the CoAP thread holds one exactly when it was answered.
`Own` says that the five places where a pointer to an event can be are apart; each
action moves an event from one place to another, takes one that is nobody's, or frees
its own. `Track` is about the default program: there is one request not yet answered
while the CoAP thread waits for a reply, with the number of its packet, owned, and
wherever a message about it is it comes from that thread, so that the reply goes to it;
otherwise there is none. Which events are lost follows from all of them and `Known`,
by counting for each action what was owned before.

`UjClasses_proofs` proves for any native classes, any packages in any order and any
questions `LoaderResolvesAlways`, `LayoutIsSound`, `MembersAreFound` and
`InstanceofIsRight`. What is assumed is what the rest of the program sees to.
`NativesAssumption`: `Object` is registered first, as `ujInitBuiltinClasses` does it,
has no class data, and nothing else has its name. `PackagesAssumption`: a Java compiler
compiled the package, so that what a class implements is an interface if it is there, an
interface extends `Object`, and no class has two fields of a name; the package has no
class `Object` of its own, and implements no native class. A superclass or an interface
may still be missing, be named twice, come later or form a cycle.

`IInv` says of each class where its record comes from (`FromFile`), that its data begin
behind its superclass's (`LaidOut`), that in a round in which nothing was loaded the
classes already passed all wait for a superclass (`Progress`), and of a search in
progress that the marks are types of the object, closed under superclasses, and under
interfaces for the classes marked as done, and that what the search has passed is done or
not marked (`Marking`). `Resolvable`, `Supertypes`, `Chain`, `DataSize` and
`GetMethodAddr` are recursive. `Recursion` proves by the least number principle that a
function defined from smaller arguments satisfies its equation (`RecursiveFunction`,
`StepFunction`), strong induction over a set of numbers (`StrongInduction`), and that
extending a subset of a finite set as often as it has elements reaches the least fixed
point (`LeastFixpoint`); none of them needs an operator as a parameter, the function is a
value and the property a set. So `Resolvable` is the least set that contains what can be
loaded next, which the rounds approach from below and, when one loads nothing, contain;
`Supertypes` is the least set closed under `Near`, which the marks approach in the same
way. A type that is reached only through an interface is an interface, hence "no" at
once if the class asked for is none. `DataSize` is a sum of prefixes, so offsets of
fields are ordered as the fields are, and those of a superclass lie below the class's
own.

`ClassConvert_proofs` proves for any set of classes that meets `ClassesAssumption`, with
any number of methods, instructions, branches, switches and exception entries, and any
reach of a branch, `AlwaysTargetsKept`. Instructions are known by their numbers in the
order of addresses (`Number`), which no pass changes, and blocks by the numbers at which
they begin and end. `Inv` says of each method that it is as it was read or, once written,
that its code and entries mean what they meant (`Carried`), and of the method in work what
its blocks are. While `bbPrvRun` runs (`Loaded`): either the queue holds only the start of
the code, or the blocks are a partition of all instructions (`Cuts`, `BlocksCut`), every
target of an instruction is the start of a block or in the queue (`Reached`), and so are
the addresses of the entries added so far. That the blocks cover the whole code from the
first turn on is why one address can only cut a block in two (`BlockHalved`), and why
only the end of the code falls behind all blocks and gets its empty one in front of them
(`FrontInserted`). With the queue empty, `bbFinishLoading` finds a block for each target
(`FinishStep`), so the converter gives up for no other reason than the three allowed.
From there on (`Resolved`) a target is the number of a block; a pass changes instructions
but neither their targets nor their number (`PassedBlocks`). In `bbExport` the blocks are
written one behind the other (`Joined`), so `bbFinalizeChanges`'s address of a block is
that of its first instruction (`BlockAddrIs`, which holds only because the padding of a
switch is counted from the start of the method), addresses rise (`PlacedRises`), and
what is written is again `WellFormed`, with the same numbers and targets (`ExportFacts`,
`RewriteStep`). The second pass starts from there, and `CarriedOn` composes the two.
`Disasm`, `Kept`, `Place` and the addresses of blocks are recursive functions; their
equations come from `Recursion`, and what they compute from induction over the number of
an instruction.

`AlwaysReferencesKept`, of the same module and under the same assumptions (and `Byte` a
natural number), is about the constants, for any pool in any order. Its argument has
three parts. *The file.* `Total` is a sum of sizes along the numbers; `TotalFacts`,
`TotalRises` and `TotalSum` say what it computes. Once the constants are in their new
order (`Laid`), the sizes that `classExport` adds up before it writes are those of what
it writes (`ItemTotals`, `ConstsIs`), turns that write something begin at different
addresses (`PositionsDiffer`), and so what is read at the address that `StringAddr` or
`CrefAddr` has computed is the constant (`StringRead`, `OtherRead`). *The order.*
`NewIndex` counts the constants that come first, so it is one to one and onto, and those
with an address come before those that are just placed (`NewIndexFacts`,
`NewIndexOneToOne`, `NewIndexOnto`); the index of an `ldc` can only become smaller, and
its byte holds it. With every string that an addressed constant needs placed
(`Complete`), each addressed constant is found under its new index and means what it
meant (`ConstantFound`), and the file of such a class keeps every reference
(`ExportKeeps`). *The way there.* `ReferencesKept` says nothing before the end, so the
invariant `NamesInv` says of every state what instructions and exception entries name:
the constant they named, at its old or its new index and marked (`Names`), or, in its
place, what it meant (`Holds`): a number, or a member of the class that the offset or the
index stands for, unambiguously since offsets of fields of a kind differ
(`OffsetsDiffer`). The constants are those of the class file and some of them marked
(`SamePool`) until `FixOthers` moves them (`Ready`). `NamesInv` rests on `Inv`: a pass
gives each instruction the number it had, which is how the instruction that named a
constant is found again. Addresses are numbers without a bound in this theorem; the
file's have 24 bits, and its sizes the defect of section 5.

Only model-checked: all liveness (`AllocationReturns`, `MarkingEnds`, `EveryThreadRuns`,
`WaiterGetsFreeMonitor`, `CoapThreadReturns`, `Recoverable`, `InstanceofEnds`), since it
rests on fairness and on ENABLED. The four properties of section 5 that are violated are
no theorems. Every invariant of a passing run is proved.

## 5. What was found

* `gc_lost`: `multianewarray` keeps the array it builds in a C variable only
  (`uj.c` 1835-1849); the collection that the allocation of an inner array may
  start frees it. The comment at `uj.c` 4609 warns of just that. The
  same run would show `RT.threadCreate` lose objects only its argument refers to:
  the argument is locked, and so kept, but not marked, and so not followed.
* `threads_sync`: a method that a thread starts with (`run()`, `main()`) never
  enters its monitor if it is synchronized (`uj.c` 4966-4977), against `uj.h` 66.
* `frames_class`: after a return to an inherited method the thread has the class of
  the instance, not of the method (`uj.c` 1707-1711); instructions and constants
  are read through it.

* `classes_slots`: in a call by name an array of objects leaves the flag cleared
  that '[' has cleared, so the parameter after it is not counted (`uj.c`
  2247-2259), against the comments at 2219 and 2368. In the wide form the converter
  counts each '[' of a multi-dimensional array (`classOptimizer.c` 120-124).

Stated by properties that hold, as exceptions they name:

* An update can be lost: an abort that arrives while the board starts may remove
  the new program after the old one was removed (`LostOnlyByAbort`); a board without
  a builtin program then has none until it is updated again over CoAP, which
  `Recoverable` says is always possible.
* Events leak: an interrupt that finds the queue full forgets its event
  (`nat_gpio.c` 71, and timers), a reply without receiver forgets the event and frees
  only its buffer (`nat_riot.c` 168-170), finish forgets `EVT_UPD_RDY`
  (`nat_gcoap_native.c` 58) (`OnlyKnownLeaks`).
* An exception entry whose range ends with the code gets its end block in front of
  all others, because `bbPrvRun` inserts after the head of the list when nothing
  follows (`bb.c` 694-698), and its end becomes 0 (`TargetsKept`).
* A field of another class accessed by name is found only if both files have its
  name at the same address (`uj.c` 2491 and 2506) (`MembersFound`).

Seen while modelling and outside of what the runs state: `ujRegisterNativeClass`
allocates class data without the size of its superclass's (`uj.c` 599), which no
native class here notices; sizes of constants are added in 16 bits (`classAccess.c`
903 and 965); a request of 65533 bytes is rounded to nothing (`ujHeap.c` 208);
`ujInitAllClasses` ignores errors of `ujInstr` (`uj.c` 4395), also one that leaves a
synchronized method's monitor entered (2376); `randomRange` of an empty range never
ends (`nat_riot.c` 298); `registerResource` moves the table that the CoAP thread may
be reading (`nat_gcoap_uj.c` 88); a member inherited from a superclass but named
through the class itself ends the converter (`classOptimizer.c` 75).

Seen and without consequence for a property here: the compactor
never moves the first chunk, although its comment (`ujHeap.c` 277-278) speaks of
the case; a failed `monitorexit` is ignored (`uj.c` 4224-4238).

## 6. What is not modelled

Arithmetic and decoding: about two hundred instructions of a line or two on numbers.
Soft 64-bit integers and doubles: pure functions, the doubles out of a model
checker's reach at a useful width. Reading class files in the converter
(`classAccess.c` up to 860) and its dumps; Java text and console; drivers, file
systems and boards (pure I/O); the desktop driver, whose loops are those of the RIOT
port. Of the CoAP bridge: sending requests and the table of resources, which are
calls into gcoap. Of the parts that are modelled: the width of array sizes before
they reach the heap, native classes with hooks of their own, `long`s and `double`s as
such (two numbers), the plain class format in `UjClasses`, collisions of name
hashes, lengths of strings beyond small numbers in `ClassConvert`, and there the 16 bits
of an address in an exception entry, too few for code that grows beyond 65535 bytes, and
names that are only a beginning of `java/lang/String` or `java/lang/StringBuilder`, which
`bbVerifyNewType` takes for them (`bb.c` 97-98).

## 7. Plan

In this order:

1. `UjSizes`, 16-bit arithmetic of allocation and constant sizes, and `Long64`, the
   soft integers at a width of 4 bits per limb, both against plain integers.
2. The plain class format in `UjClasses`, and a package that the converter has written
   read by the lookups of the machine.
