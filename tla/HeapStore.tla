------------------------------ MODULE HeapStore ------------------------------
(***************************************************************************)
(* What the uJ heap promises its users, with addresses, fragmentation and  *)
(* collection left out: a handle names an object, and for as long as it    *)
(* does, the object keeps its contents and its room.  The one thing that   *)
(* changes under the holder of a handle is the lock bit.                   *)
(***************************************************************************)
EXTENDS Naturals

CONSTANTS
  Handle,   \* the handles the table has a slot for
  Rooms     \* the sizes an object may be given

VARIABLE store   \* per handle: the object it names, or NoObject

NoObject == [room |-> 0, lock |-> FALSE, data |-> 0]

Live == {h \in Handle : store[h] # NoObject}

StoreInit == store = [h \in Handle |-> NoObject]

\* ujHeapHandleNew: an unused handle gets an unlocked object of its own.
New(h, r) ==
  /\ h \notin Live
  /\ store' = [store EXCEPT ![h] = [room |-> r, lock |-> FALSE, data |-> h]]

\* ujHeapHandleFree, or the sweep of ujHeapFreeUnmarked: never a locked object.
Drop(h) ==
  /\ h \in Live
  /\ ~store[h].lock
  /\ store' = [store EXCEPT ![h] = NoObject]

\* ujHeapHandleLock and ujHeapHandleRelease.
SetLock(h, l) ==
  /\ h \in Live
  /\ store' = [store EXCEPT ![h].lock = l]

StoreNext ==
  \E h \in Handle :
    \/ \E r \in Rooms : New(h, r)
    \/ Drop(h)
    \/ \E l \in BOOLEAN : SetLock(h, l)

StoreSpec == StoreInit /\ [][StoreNext]_store
==============================================================================
