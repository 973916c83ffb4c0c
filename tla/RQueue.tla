------------------------------- MODULE RQueue -------------------------------
(***************************************************************************)
(* The ring buffer rqueue_quick of src/rqueue.h, one action per access to  *)
(* shared memory.  Every slot carries a flag free[i] (1: may be written,   *)
(* 0: holds an item).  A producer fills the slot at writeit and clears its *)
(* flag BEFORE it advances writeit; a consumer copies the slot at readit   *)
(* and sets its flag BEFORE it advances readit.  No lock is needed between *)
(* one producer and one consumer; with several of either, that side calls  *)
(* with useLock and holds _sync_lock.                                      *)
(*                                                                         *)
(* `queue' is a history variable: the items published and not released.    *)
(***************************************************************************)
EXTENDS Naturals, Sequences, FiniteSets

CONSTANTS
    Producers,  \* threads that call push
    Consumers,  \* threads that call pop, popq, or get and moveReadit
    Items,      \* values of typeItem
    Length,     \* number of slots
    PushLock,   \* push is called with useLock
    PopLock,    \* pop is called with useLock
    NoItem,     \* no value of typeItem
    NoThread    \* the value of a lock nobody holds

ASSUME LengthAssumption == Length \in Nat \ {0}

\* A side that several threads use is called with useLock, as cHeapItemsPointerStack
\* does with push_queues_max > 1 and pop_queues_max > 1 (src/tools.h:3652, 3674).
ASSUME ThreadsAssumption ==
    /\ Producers \cap Consumers = {}
    /\ NoThread \notin Producers \cup Consumers
    /\ NoItem \notin Items
    /\ PushLock \in BOOLEAN
    /\ PopLock \in BOOLEAN
    /\ \A p, q \in Producers : p # q => PushLock
    /\ \A c, d \in Consumers : c # d => PopLock

VARIABLES
    buffer, free, readit, writeit,  \* the fields of rqueue_quick
    lock,       \* _sync_lock: the thread that holds it, or NoThread
    pc,         \* where each thread is in its call
    item,       \* the argument of each producer's push
    got,        \* what each consumer has copied from the ring
    queue       \* history: the items published and not yet released

vars == <<buffer, free, readit, writeit, lock, pc, item, got, queue>>

Slots == 0 .. Length - 1

\* Mutant of NextSlot: it wraps one slot too late.
NextSlotTooLate(i) == IF i = Length THEN 0 ELSE i + 1

\* (i + 1) == length ? 0 : i + 1, the code's way to step an index.
NextSlot(i) == IF i + 1 = Length THEN 0 ELSE i + 1

\* The slot that is n <= Length places after slot i.
Place(i, n) == IF i + n < Length THEN i + n ELSE i + n - Length

\* Mutant of Size: equal indices always mean an empty ring.
SizeNeverFull ==
    IF writeit >= readit THEN writeit - readit ELSE writeit + Length - readit

\* size(): the number of items, computed from the two indices and one flag.
Size ==
    IF writeit > readit THEN writeit - readit
    ELSE IF writeit < readit THEN writeit + Length - readit
    ELSE IF free[writeit] # 0 THEN 0 ELSE Length

Init ==
    /\ buffer = [i \in Slots |-> NoItem]
    /\ free = [i \in Slots |-> 1]
    /\ readit = 0
    /\ writeit = 0
    /\ lock = NoThread
    /\ pc = [t \in Producers \cup Consumers |-> "idle"]
    /\ item = [p \in Producers |-> NoItem]
    /\ got = [c \in Consumers |-> NoItem]
    /\ queue = <<>>

-----------------------------------------------------------------------------
(* push(item, waitForFree, useLock) *)

PushCall(p, x) ==
    /\ pc[p] = "idle"
    /\ item' = [item EXCEPT ![p] = x]
    /\ pc' = [pc EXCEPT ![p] = IF PushLock THEN "lock" ELSE "test"]
    /\ UNCHANGED <<buffer, free, readit, writeit, lock, got, queue>>

\* Mutant of PushFree: the flag of the slot is not looked at.
PushFreeUnchecked(p) ==
    /\ pc[p] = "test"
    /\ pc' = [pc EXCEPT ![p] = "copy"]
    /\ UNCHANGED <<buffer, free, readit, writeit, lock, item, got, queue>>

\* while(free[writeit] != 1) is left.
PushFree(p) ==
    /\ pc[p] = "test"
    /\ free[writeit] = 1
    /\ pc' = [pc EXCEPT ![p] = "copy"]
    /\ UNCHANGED <<buffer, free, readit, writeit, lock, item, got, queue>>

\* Mutant of PushWait: push sleeps with the lock.
PushWaitLocked(p) ==
    /\ pc[p] = "test"
    /\ free[writeit] # 1
    /\ PushLock
    /\ pc' = [pc EXCEPT ![p] = "lock"]
    /\ UNCHANGED <<buffer, free, readit, writeit, lock, item, got, queue>>

\* The slot is taken and waitForFree is set: push sleeps without the lock.
PushWait(p) ==
    /\ pc[p] = "test"
    /\ free[writeit] # 1
    /\ PushLock
    /\ pc' = [pc EXCEPT ![p] = "lock"]
    /\ lock' = NoThread
    /\ UNCHANGED <<buffer, free, readit, writeit, item, got, queue>>

\* The slot is taken and waitForFree is not set, or term_rqueue is: return false.
PushFail(p) ==
    /\ pc[p] = "test"
    /\ free[writeit] # 1
    /\ pc' = [pc EXCEPT ![p] = "idle"]
    /\ item' = [item EXCEPT ![p] = NoItem]
    /\ lock' = IF PushLock THEN NoThread ELSE lock
    /\ UNCHANGED <<buffer, free, readit, writeit, got, queue>>

PushCopy(p) ==
    /\ pc[p] = "copy"
    /\ buffer' = [buffer EXCEPT ![writeit] = item[p]]
    /\ pc' = [pc EXCEPT ![p] = "publish"]
    /\ UNCHANGED <<free, readit, writeit, lock, item, got, queue>>

\* __SYNC_NULL(free[writeit]): from here on a consumer may copy the slot.
PushPublish(p) ==
    /\ pc[p] = "publish"
    /\ free' = [free EXCEPT ![writeit] = 0]
    /\ queue' = Append(queue, item[p])
    /\ pc' = [pc EXCEPT ![p] = "advance"]
    /\ UNCHANGED <<buffer, readit, writeit, lock, item, got>>

\* __SYNC_INCR(writeit, length), unlock, return true.
PushAdvance(p) ==
    /\ pc[p] = "advance"
    /\ writeit' = NextSlot(writeit)
    /\ pc' = [pc EXCEPT ![p] = "idle"]
    /\ item' = [item EXCEPT ![p] = NoItem]
    /\ lock' = IF PushLock THEN NoThread ELSE lock
    /\ UNCHANGED <<buffer, free, readit, got, queue>>

-----------------------------------------------------------------------------
(* pop and popq; get followed by moveReadit takes the same steps *)

PopCall(c) ==
    /\ pc[c] = "idle"
    /\ pc' = [pc EXCEPT ![c] = IF PopLock THEN "lock" ELSE "test"]
    /\ UNCHANGED <<buffer, free, readit, writeit, lock, item, got, queue>>

\* Mutant of PopFull: equal indices are taken for an empty ring.
PopFullByIndex(c) ==
    /\ pc[c] = "test"
    /\ free[readit] = 0
    /\ readit # writeit
    /\ pc' = [pc EXCEPT ![c] = "copy"]
    /\ UNCHANGED <<buffer, free, readit, writeit, lock, item, got, queue>>

\* while(free[readit] != 0) is left.
PopFull(c) ==
    /\ pc[c] = "test"
    /\ free[readit] = 0
    /\ pc' = [pc EXCEPT ![c] = "copy"]
    /\ UNCHANGED <<buffer, free, readit, writeit, lock, item, got, queue>>

\* Nothing to take: every caller in the repository passes waitForFree = false.
PopFail(c) ==
    /\ pc[c] = "test"
    /\ free[readit] # 0
    /\ pc' = [pc EXCEPT ![c] = "idle"]
    /\ lock' = IF PopLock THEN NoThread ELSE lock
    /\ UNCHANGED <<buffer, free, readit, writeit, item, got, queue>>

PopCopy(c) ==
    /\ pc[c] = "copy"
    /\ got' = [got EXCEPT ![c] = buffer[readit]]
    /\ pc' = [pc EXCEPT ![c] = "got"]
    /\ UNCHANGED <<buffer, free, readit, writeit, lock, item, queue>>

\* get without moveReadit: pcap_block_store_queue::pop(false).
GetReturn(c) ==
    /\ pc[c] = "got"
    /\ ~PopLock
    /\ got' = [got EXCEPT ![c] = NoItem]
    /\ pc' = [pc EXCEPT ![c] = "idle"]
    /\ UNCHANGED <<buffer, free, readit, writeit, lock, item, queue>>

\* __SYNC_SET(free[readit]), an atomic add: from here on a producer may write.
PopRelease(c) ==
    /\ pc[c] = "got"
    /\ free' = [free EXCEPT ![readit] = @ + 1]
    /\ queue' = Tail(queue)
    /\ got' = [got EXCEPT ![c] = NoItem]
    /\ pc' = [pc EXCEPT ![c] = "advance"]
    /\ UNCHANGED <<buffer, readit, writeit, lock, item>>

\* __SYNC_INCR(readit, length), unlock, return true.
PopAdvance(c) ==
    /\ pc[c] = "advance"
    /\ readit' = NextSlot(readit)
    /\ pc' = [pc EXCEPT ![c] = "idle"]
    /\ lock' = IF PopLock THEN NoThread ELSE lock
    /\ UNCHANGED <<buffer, free, writeit, item, got, queue>>

\* Mutant of Lock: it does not wait for the holder.
LockUnchecked(t) ==
    /\ pc[t] = "lock"
    /\ lock' = t
    /\ pc' = [pc EXCEPT ![t] = "test"]
    /\ UNCHANGED <<buffer, free, readit, writeit, item, got, queue>>

\* __SYNC_LOCK(_sync_lock), by either side.
Lock(t) ==
    /\ pc[t] = "lock"
    /\ lock = NoThread
    /\ lock' = t
    /\ pc' = [pc EXCEPT ![t] = "test"]
    /\ UNCHANGED <<buffer, free, readit, writeit, item, got, queue>>

-----------------------------------------------------------------------------
Push(p) ==
    \/ \E x \in Items : PushCall(p, x)
    \/ PushFree(p)
    \/ PushWait(p)
    \/ PushFail(p)
    \/ PushCopy(p)
    \/ PushPublish(p)
    \/ PushAdvance(p)

Pop(c) ==
    \/ PopCall(c)
    \/ PopFull(c)
    \/ PopFail(c)
    \/ PopCopy(c)
    \/ GetReturn(c)
    \/ PopRelease(c)
    \/ PopAdvance(c)

Next ==
    \/ \E p \in Producers : Push(p)
    \/ \E c \in Consumers : Pop(c)
    \/ \E t \in Producers \cup Consumers : Lock(t)

Spec == Init /\ [][Next]_vars

\* The fairness of the threads: a scheduled producer goes on with its push and its wait,
\* and gets a lock that is free again and again; a consumer thread polls for ever and,
\* having seen an item, goes on to remove it.  Nobody is obliged to give up.
FairSpec ==
    /\ Spec
    /\ \A p \in Producers :
          /\ WF_vars(PushFree(p) \/ PushWait(p) \/ PushCopy(p) \/ PushPublish(p) \/ PushAdvance(p))
          /\ SF_vars(Lock(p))
    /\ \A c \in Consumers :
          /\ WF_vars(PopCall(c) \/ PopFull(c) \/ PopFail(c) \/ PopCopy(c) \/ PopAdvance(c))
          /\ SF_vars(PopRelease(c))

-----------------------------------------------------------------------------
(* What holds in every reachable state *)

Pushing(p) == pc[p] \in {"test", "copy", "publish", "advance"}
Popping(c) == pc[c] \in {"test", "copy", "got", "advance"}

\* Every field and every thread's position keeps its type; a flag is only ever 0 or 1,
\* although it is set with an atomic add (src/rqueue.h:99).
TypeOK ==
    /\ buffer \in [Slots -> Items \cup {NoItem}]
    /\ free \in [Slots -> {0, 1}]
    /\ readit \in Slots
    /\ writeit \in Slots
    /\ lock \in Producers \cup Consumers \cup {NoThread}
    /\ pc \in [Producers \cup Consumers ->
                {"idle", "lock", "test", "copy", "publish", "got", "advance"}]
    /\ item \in [Producers -> Items \cup {NoItem}]
    /\ got \in [Consumers -> Items \cup {NoItem}]
    /\ queue \in Seq(Items)

\* Whoever is inside a locked call is the thread that holds the lock, and no call that
\* does not lock ever touches it.
LockInv ==
    /\ \A p \in Producers :
          IF PushLock THEN Pushing(p) <=> lock = p
                      ELSE lock # p /\ pc[p] # "lock"
    /\ \A c \in Consumers :
          IF PopLock THEN Popping(c) <=> lock = c
                     ELSE lock # c /\ pc[c] # "lock"
    /\ \A p \in Producers : pc[p] # "got" /\ (pc[p] \notin {"idle"} <=> item[p] \in Items)
    /\ \A c \in Consumers : pc[c] # "publish"

\* A thread between its flag update and its index update makes the index lag by one.
Front == IF \E c \in Consumers : pc[c] = "advance" THEN NextSlot(readit) ELSE readit
Back == IF \E p \in Producers : pc[p] = "advance" THEN NextSlot(writeit) ELSE writeit

\* The occupied slots are the Len(queue) ones from Front on, they hold the queue in
\* order, every other slot is free, and Back is the slot after them.
RingInv ==
    /\ Len(queue) <= Length
    /\ Back = Place(Front, Len(queue))
    /\ \A k \in Slots : free[Place(Front, k)] = (IF k < Len(queue) THEN 0 ELSE 1)
    /\ \A k \in Slots : k < Len(queue) => buffer[Place(Front, k)] = queue[k + 1]

\* What a thread found out before its last step still holds: the slot a producer is
\* about to fill is free, the one a consumer copies is occupied, and what the producer
\* publishes and the consumer removes is what the slot contains.
StepInv ==
    /\ \A p \in Producers :
          /\ pc[p] \in {"copy", "publish"} => free[writeit] = 1
          /\ pc[p] = "publish" => buffer[writeit] = item[p]
    /\ \A c \in Consumers :
          /\ pc[c] \in {"copy", "got"} => free[readit] = 0
          /\ got[c] = IF pc[c] = "got" THEN buffer[readit] ELSE NoItem

\* The inductive invariant.
IndInv == TypeOK /\ LockInv /\ RingInv /\ StepInv

\* No slot is written while it is read: a producer filling its slot and a consumer
\* copying one are never at the same slot, whichever of them runs first.
NoSlotRace ==
    \A p \in Producers, c \in Consumers :
        pc[p] \in {"copy", "publish"} /\ pc[c] \in {"copy", "got"} => writeit # readit

\* size() is exact whenever no thread is between its flag and its index update.
SizeExactAtRest ==
    (\A t \in Producers \cup Consumers : pc[t] # "advance") => Size = Len(queue)

\* The ring is a bounded FIFO queue: it takes effect at the flag updates.
Fifo == INSTANCE BoundedFifo WITH held <- got

\* Every behaviour of the ring is one of the bounded FIFO.
RefinesFifo == Fifo!Spec

\* A published item is removed in the end: the ring does not stay at n items when it is
\* full, nor at any other length.
Drains == \A n \in 1 .. Length : Len(queue) = n ~> Len(queue) # n

\* In push, but without a slot of its own yet: asleep, at the lock, or before the test.
Waiting(p) == pc[p] \in {"lock", "test"}

\* A producer that waits for ever in push (waitForFree, src/rqueue.h:46-54) is overtaken
\* for ever: another one gets a slot again and again.  Otherwise the wait ends, with the
\* slot or a refusal.  Nothing in push orders the producers that wait.
WaitEnds ==
    \A p \in Producers :
        <>[]Waiting(p) => \E q \in Producers \ {p} : []<>(pc[q] = "copy")
=============================================================================
