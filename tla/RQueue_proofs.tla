--------------------------- MODULE RQueue_proofs ---------------------------
(* Proofs about RQueue for every number of slots, threads and items. *)
EXTENDS RQueue, TLAPS

USE LengthAssumption

-----------------------------------------------------------------------------
(* The arithmetic of the ring *)

\* Walking from a slot ends at a slot.
LEMMA PlaceType ==
    ASSUME NEW i \in Slots, NEW k \in Slots
    PROVE  Place(i, k) \in Slots
  BY DEF Place, Slots

\* Stepping an index is walking one place, and walks add up.
LEMMA PlaceNext ==
    ASSUME NEW i \in Slots
    PROVE  /\ NextSlot(i) \in Slots
           /\ NextSlot(i) = Place(i, 1)
           /\ Place(i, 0) = i
           /\ Place(i, Length) = i
           /\ \A k \in Slots : Place(NextSlot(i), k) = Place(i, k + 1)
           /\ \A k \in Slots : NextSlot(Place(i, k)) = Place(i, k + 1)
  BY DEF Place, NextSlot, Slots

\* Walks of different lengths below Length end at different slots.
LEMMA PlaceInjective ==
    ASSUME NEW i \in Slots, NEW j \in Slots, NEW k \in Slots,
           Place(i, j) = Place(i, k)
    PROVE  j = k
  BY DEF Place, Slots

-----------------------------------------------------------------------------
(* Consequences of the invariant *)

\* At most one thread of each side is inside a call.
LEMMA Mutex ==
    ASSUME LockInv
    PROVE  /\ \A p, q \in Producers : Pushing(p) /\ Pushing(q) => p = q
           /\ \A c, d \in Consumers : Popping(c) /\ Popping(d) => c = d
  BY ThreadsAssumption DEF LockInv

\* The front and the back are slots.
LEMMA EndsType ==
    ASSUME TypeOK
    PROVE  Front \in Slots /\ Back \in Slots /\ Len(queue) \in Nat
  <1>1. NextSlot(readit) \in Slots /\ NextSlot(writeit) \in Slots
    BY PlaceNext DEF TypeOK
  <1>2. Len(queue) \in Nat
    BY DEF TypeOK
  <1> QED BY <1>1, <1>2 DEF TypeOK, Front, Back

\* A slot that is free for the producer means that there is room.
LEMMA RoomForPush ==
    ASSUME TypeOK, RingInv, Back = writeit, free[writeit] = 1
    PROVE  Len(queue) < Length
  <1>1. Front \in Slots /\ Len(queue) \in Nat
    BY EndsType
  <1>2. SUFFICES ASSUME Len(queue) = Length PROVE FALSE
    BY <1>1 DEF RingInv
  <1>3. writeit = Place(Front, 0)
    BY <1>1, <1>2, PlaceNext DEF RingInv
  <1>4. 0 \in Slots /\ 0 < Len(queue)
    BY <1>2 DEF Slots
  <1>5. free[Place(Front, 0)] = 0
    BY <1>4 DEF RingInv
  <1> QED BY <1>3, <1>5

\* A slot that is occupied for the consumer means that there is an item: the oldest.
LEMMA ItemForPop ==
    ASSUME TypeOK, RingInv, Front = readit, free[readit] = 0
    PROVE  Len(queue) > 0 /\ buffer[readit] = Head(queue)
  <1>1. Front \in Slots /\ Len(queue) \in Nat
    BY EndsType
  <1>2. readit = Place(Front, 0) /\ 0 \in Slots
    BY <1>1, PlaceNext DEF Slots
  <1>3. Len(queue) > 0
    BY <1>1, <1>2 DEF RingInv
  <1>4. buffer[readit] = queue[1]
    BY <1>2, <1>3 DEF RingInv
  <1> QED BY <1>3, <1>4 DEF TypeOK

\* Where a thread of one side stands says where that side's end is.
LEMMA Ends ==
    ASSUME LockInv
    PROVE  /\ \A p \in Producers : pc[p] \in {"test", "copy", "publish"} => Back = writeit
           /\ \A p \in Producers : pc[p] = "advance" => Back = NextSlot(writeit)
           /\ \A c \in Consumers : pc[c] \in {"test", "copy", "got"} => Front = readit
           /\ \A c \in Consumers : pc[c] = "advance" => Front = NextSlot(readit)
  BY Mutex DEF Pushing, Popping, Front, Back

-----------------------------------------------------------------------------
(* Type correctness *)

\* Every step keeps the types; that a flag stays 0 or 1 needs the ring invariant.
LEMMA TypeStep ==
    ASSUME IndInv, [Next]_vars
    PROVE  TypeOK'
  <1> USE DEF IndInv
  <1>1. ASSUME NEW p \in Producers, Push(p) PROVE TypeOK'
    <2>1. ASSUME NEW x \in Items, PushCall(p, x) PROVE TypeOK'
      BY <2>1 DEF PushCall, TypeOK
    <2>2. CASE PushFree(p)
      BY <2>2 DEF PushFree, TypeOK
    <2>3. CASE PushWait(p)
      BY <2>3 DEF PushWait, TypeOK
    <2>4. CASE PushFail(p)
      BY <2>4 DEF PushFail, TypeOK
    <2>5. CASE PushCopy(p)
      BY <2>5 DEF PushCopy, TypeOK
    <2>6. CASE PushPublish(p)
      BY <2>6 DEF PushPublish, TypeOK, LockInv
    <2>7. CASE PushAdvance(p)
      <3>1. NextSlot(writeit) \in Slots
        BY PlaceNext DEF TypeOK
      <3> QED BY <2>7, <3>1 DEF PushAdvance, TypeOK
    <2> QED BY <1>1, <2>1, <2>2, <2>3, <2>4, <2>5, <2>6, <2>7 DEF Push
  <1>2. ASSUME NEW c \in Consumers, Pop(c) PROVE TypeOK'
    <2>1. CASE PopCall(c)
      BY <2>1 DEF PopCall, TypeOK
    <2>2. CASE PopFull(c)
      BY <2>2 DEF PopFull, TypeOK
    <2>3. CASE PopFail(c)
      BY <2>3 DEF PopFail, TypeOK
    <2>4. CASE PopCopy(c)
      BY <2>4 DEF PopCopy, TypeOK
    <2>5. CASE GetReturn(c)
      BY <2>5 DEF GetReturn, TypeOK
    <2>6. CASE PopRelease(c)
      <3>1. free[readit] = 0 /\ Len(queue) > 0
        BY <2>6, Ends, ItemForPop DEF PopRelease, StepInv
      <3>2. Tail(queue) \in Seq(Items)
        BY <3>1 DEF TypeOK
      <3> QED BY <2>6, <3>1, <3>2 DEF PopRelease, TypeOK
    <2>7. CASE PopAdvance(c)
      <3>1. NextSlot(readit) \in Slots
        BY PlaceNext DEF TypeOK
      <3> QED BY <2>7, <3>1 DEF PopAdvance, TypeOK
    <2> QED BY <1>2, <2>1, <2>2, <2>3, <2>4, <2>5, <2>6, <2>7 DEF Pop
  <1>3. ASSUME NEW t \in Producers \cup Consumers, Lock(t) PROVE TypeOK'
    BY <1>3 DEF Lock, TypeOK
  <1>4. CASE UNCHANGED vars
    BY <1>4 DEF vars, TypeOK
  <1> QED BY <1>1, <1>2, <1>3, <1>4 DEF Next

-----------------------------------------------------------------------------
(* Mutual exclusion *)

\* Every step keeps the correspondence between positions and the lock.
LEMMA LockStep ==
    ASSUME TypeOK, LockInv, [Next]_vars
    PROVE  LockInv'
  <1> USE ThreadsAssumption DEF TypeOK, LockInv, Pushing, Popping
  <1>1. ASSUME NEW p \in Producers, Push(p) PROVE LockInv'
    <2>1. ASSUME NEW x \in Items, PushCall(p, x) PROVE LockInv'
      BY <2>1 DEF PushCall
    <2>2. CASE PushFree(p)
      BY <2>2 DEF PushFree
    <2>3. CASE PushWait(p)
      BY <2>3 DEF PushWait
    <2>4. CASE PushFail(p)
      BY <2>4 DEF PushFail
    <2>5. CASE PushCopy(p)
      BY <2>5 DEF PushCopy
    <2>6. CASE PushPublish(p)
      BY <2>6 DEF PushPublish
    <2>7. CASE PushAdvance(p)
      BY <2>7 DEF PushAdvance
    <2> QED BY <1>1, <2>1, <2>2, <2>3, <2>4, <2>5, <2>6, <2>7 DEF Push
  <1>2. ASSUME NEW c \in Consumers, Pop(c) PROVE LockInv'
    <2>1. CASE PopCall(c)
      BY <2>1 DEF PopCall
    <2>2. CASE PopFull(c)
      BY <2>2 DEF PopFull
    <2>3. CASE PopFail(c)
      BY <2>3 DEF PopFail
    <2>4. CASE PopCopy(c)
      BY <2>4 DEF PopCopy
    <2>5. CASE GetReturn(c)
      BY <2>5 DEF GetReturn
    <2>6. CASE PopRelease(c)
      BY <2>6 DEF PopRelease
    <2>7. CASE PopAdvance(c)
      BY <2>7 DEF PopAdvance
    <2> QED BY <1>2, <2>1, <2>2, <2>3, <2>4, <2>5, <2>6, <2>7 DEF Pop
  <1>3. ASSUME NEW t \in Producers \cup Consumers, Lock(t) PROVE LockInv'
    <2>1. CASE t \in Producers
      BY <1>3, <2>1 DEF Lock
    <2>2. CASE t \in Consumers
      BY <1>3, <2>2 DEF Lock
    <2> QED BY <2>1, <2>2
  <1>4. CASE UNCHANGED vars
    BY <1>4 DEF vars
  <1> QED BY <1>1, <1>2, <1>3, <1>4 DEF Next

-----------------------------------------------------------------------------
(* The ring *)

\* A step that moves neither end and touches no slot keeps the ring.
LEMMA RingUnchanged ==
    ASSUME RingInv, Front' = Front, Back' = Back, UNCHANGED <<buffer, free, queue>>
    PROVE  RingInv'
  BY DEF RingInv, Place

\* The front depends on the consumers only, the back on the producers only.
LEMMA EndsUnchanged ==
    ASSUME TypeOK, TypeOK'
    PROVE  /\ readit' = readit
              /\ (\A c \in Consumers : pc'[c] = "advance" <=> pc[c] = "advance")
              => Front' = Front
           /\ writeit' = writeit
              /\ (\A p \in Producers : pc'[p] = "advance" <=> pc[p] = "advance")
              => Back' = Back
  BY DEF Front, Back, NextSlot

\* Publishing an item extends the ring at its back.
LEMMA RingPublish ==
    ASSUME IndInv, TypeOK', LockInv', NEW p \in Producers, PushPublish(p)
    PROVE  RingInv'
  <1> DEFINE n == Len(queue)
  <1>1. Front \in Slots /\ n \in Nat /\ TypeOK /\ writeit \in Slots
    BY EndsType DEF IndInv, TypeOK
  <1>2. Back = writeit /\ free[writeit] = 1 /\ buffer[writeit] = item[p]
    BY Ends DEF IndInv, PushPublish, StepInv
  <1>3. n < Length
    BY <1>2, RoomForPush DEF IndInv
  <1>4. Front' = Front
    BY <1>1, EndsUnchanged, ThreadsAssumption DEF PushPublish, TypeOK
  <1>5. pc'[p] = "advance"
    BY <1>1 DEF PushPublish, TypeOK
  <1>6. Back' = NextSlot(writeit)
    BY <1>5 DEF Back, NextSlot, PushPublish
  <1>7. Len(queue') = n + 1 /\ \A k \in 1 .. n + 1 :
            queue'[k] = IF k = n + 1 THEN item[p] ELSE queue[k]
    BY <1>1 DEF PushPublish, TypeOK
  <1>8. n \in Slots /\ writeit = Place(Front, n)
    BY <1>1, <1>2, <1>3 DEF Slots, IndInv, RingInv
  <1>9. Back' = Place(Front, n + 1)
    <2>1. NextSlot(Place(Front, n)) = Place(Front, n + 1)
      BY <1>1, <1>8, PlaceNext
    <2> QED BY <1>6, <1>8, <2>1
  <1>10. ASSUME NEW k \in Slots
         PROVE  /\ Place(Front, k) \in Slots
                /\ free'[Place(Front, k)] = IF k < n + 1 THEN 0 ELSE 1
                /\ k < n + 1 => buffer'[Place(Front, k)] = queue'[k + 1]
    <2>1. Place(Front, k) \in Slots
      BY <1>1, PlaceType
    <2>2. CASE k = n
      BY <1>1, <1>2, <1>7, <1>8, <2>1, <2>2 DEF PushPublish, TypeOK
    <2>3. CASE k # n
      <3>1. Place(Front, k) # writeit
        BY <1>1, <1>8, <2>3, PlaceInjective
      <3>2. free'[Place(Front, k)] = free[Place(Front, k)] /\ buffer' = buffer
        BY <1>1, <2>1, <3>1 DEF PushPublish, TypeOK
      <3>3. k < n + 1 <=> k < n
        BY <1>1, <2>3 DEF Slots
      <3>4. k < n => k + 1 \in 1 .. n
        BY <1>1 DEF Slots
      <3> QED BY <1>1, <1>7, <2>1, <3>2, <3>3, <3>4 DEF IndInv, RingInv
    <2> QED BY <2>2, <2>3
  <1> QED BY <1>1, <1>3, <1>4, <1>7, <1>9, <1>10 DEF RingInv, Place, Slots

\* Releasing the oldest item shortens the ring at its front.
LEMMA RingRelease ==
    ASSUME IndInv, TypeOK', LockInv', NEW c \in Consumers, PopRelease(c)
    PROVE  RingInv'
  <1> DEFINE n == Len(queue)
  <1>1. Front \in Slots /\ n \in Nat /\ TypeOK /\ readit \in Slots
    BY EndsType DEF IndInv, TypeOK
  <1>2. Front = readit /\ free[readit] = 0
    BY Ends DEF IndInv, PopRelease, StepInv
  <1>3. n > 0 /\ n <= Length
    BY <1>2, ItemForPop DEF IndInv, RingInv
  <1>4. Back' = Back
    BY <1>1, EndsUnchanged, ThreadsAssumption DEF PopRelease, TypeOK
  <1>5. pc'[c] = "advance"
    BY <1>1 DEF PopRelease, TypeOK
  <1>6. Front' = NextSlot(Front)
    BY <1>2, <1>5 DEF Front, NextSlot, PopRelease
  <1>7. Len(queue') = n - 1 /\ \A k \in 1 .. n - 1 : queue'[k] = queue[k + 1]
    BY <1>1, <1>3 DEF PopRelease, TypeOK
  <1>8. Back' = Place(NextSlot(Front), n - 1)
    <2>1. n - 1 \in Slots
      BY <1>1, <1>3 DEF Slots
    <2> QED BY <1>1, <1>4, <2>1, PlaceNext DEF IndInv, RingInv
  <1>9. ASSUME NEW k \in Slots
        PROVE  /\ free'[Place(NextSlot(Front), k)] = IF k < n - 1 THEN 0 ELSE 1
               /\ k < n - 1 => buffer'[Place(NextSlot(Front), k)] = queue'[k + 1]
    <2>1. Place(NextSlot(Front), k) = Place(Front, k + 1)
      BY <1>1, PlaceNext
    <2>2. CASE k + 1 = Length
      <3>1. Place(Front, k + 1) = readit
        BY <1>1, <1>2, <2>2, PlaceNext
      <3>2. ~(k < n - 1)
        BY <1>1, <1>3, <2>2 DEF Slots
      <3> QED BY <1>1, <1>2, <2>1, <3>1, <3>2 DEF PopRelease, TypeOK
    <2>3. CASE k + 1 # Length
      <3>1. k + 1 \in Slots /\ 0 \in Slots /\ k + 1 # 0
        BY <2>3 DEF Slots
      <3>2. Place(Front, k + 1) # readit
        BY <1>1, <1>2, <3>1, PlaceNext, PlaceInjective
      <3>3. Place(Front, k + 1) \in Slots
        BY <1>1, <3>1, PlaceType
      <3>4. free'[Place(Front, k + 1)] = free[Place(Front, k + 1)] /\ buffer' = buffer
        BY <1>1, <3>2, <3>3 DEF PopRelease, TypeOK
      <3>5. k < n - 1 <=> k + 1 < n
        BY <1>1 DEF Slots
      <3>6. k < n - 1 => k + 1 \in 1 .. n - 1
        BY <1>1 DEF Slots
      <3> QED BY <1>7, <2>1, <3>1, <3>4, <3>5, <3>6 DEF IndInv, RingInv
    <2> QED BY <2>2, <2>3
  <1> QED BY <1>1, <1>3, <1>6, <1>7, <1>8, <1>9 DEF RingInv, Place, Slots

\* Every step keeps the ring.
LEMMA RingStep ==
    ASSUME IndInv, TypeOK', LockInv', [Next]_vars
    PROVE  RingInv'
  <1>1. TypeOK /\ LockInv /\ RingInv
    BY DEF IndInv
  <1>2. ASSUME NEW p \in Producers, Push(p) PROVE RingInv'
    <2>1. CASE PushPublish(p)
      BY <2>1, RingPublish
    <2>2. CASE PushAdvance(p)
      <3>1. Front' = Front
        BY <1>1, <2>2, EndsUnchanged, ThreadsAssumption DEF PushAdvance, TypeOK
      <3>2. Back = NextSlot(writeit)
        BY <1>1, <2>2, Ends DEF PushAdvance
      <3>3. \A q \in Producers : pc'[q] # "advance"
        BY <1>1, <2>2, Mutex DEF PushAdvance, TypeOK, Pushing
      <3>4. Back' = writeit'
        BY <3>3 DEF Back
      <3> QED BY <1>1, <2>2, <3>1, <3>2, <3>4, RingUnchanged DEF PushAdvance
    <2>3. CASE PushCopy(p)
      <3>1. Front' = Front /\ Back' = Back
        BY <1>1, <2>3, EndsUnchanged, ThreadsAssumption DEF PushCopy, TypeOK
      <3>2. Front \in Slots
        BY <1>1, EndsType
      <3>3. free[writeit] = 1
        BY <2>3 DEF PushCopy, IndInv, StepInv
      <3>4. ASSUME NEW k \in Slots, k < Len(queue)
            PROVE  buffer'[Place(Front, k)] = buffer[Place(Front, k)]
        <4>1. Place(Front, k) \in Slots
          BY <3>2, PlaceType
        <4>2. free[Place(Front, k)] = 0
          BY <1>1, <3>4 DEF RingInv
        <4> QED BY <1>1, <2>3, <3>3, <4>1, <4>2 DEF PushCopy, TypeOK
      <3>5. UNCHANGED <<free, queue>>
        BY <2>3 DEF PushCopy
      <3> QED BY <1>1, <3>1, <3>4, <3>5 DEF RingInv, Place
    <2>4. CASE \/ \E x \in Items : PushCall(p, x)
               \/ PushFree(p) \/ PushWait(p) \/ PushFail(p)
      <3>1. UNCHANGED <<buffer, free, queue, readit, writeit>>
        BY <2>4 DEF PushCall, PushFree, PushWait, PushFail
      <3>2. \A t \in Producers \cup Consumers : pc'[t] = "advance" <=> pc[t] = "advance"
        BY <1>1, <2>4 DEF TypeOK, PushCall, PushFree, PushWait, PushFail
      <3>3. Front' = Front /\ Back' = Back
        BY <1>1, <3>1, <3>2, EndsUnchanged
      <3> QED BY <1>1, <3>1, <3>3, RingUnchanged
    <2> QED BY <1>2, <2>1, <2>2, <2>3, <2>4 DEF Push
  <1>3. ASSUME NEW c \in Consumers, Pop(c) PROVE RingInv'
    <2>1. CASE PopRelease(c)
      BY <2>1, RingRelease
    <2>2. CASE PopAdvance(c)
      <3>1. Back' = Back
        BY <1>1, <2>2, EndsUnchanged, ThreadsAssumption DEF PopAdvance, TypeOK
      <3>2. Front = NextSlot(readit)
        BY <1>1, <2>2, Ends DEF PopAdvance
      <3>3. \A d \in Consumers : pc'[d] # "advance"
        BY <1>1, <2>2, Mutex DEF PopAdvance, TypeOK, Popping
      <3>4. Front' = readit'
        BY <3>3 DEF Front
      <3> QED BY <1>1, <2>2, <3>1, <3>2, <3>4, RingUnchanged DEF PopAdvance
    <2>3. CASE \/ PopCall(c) \/ PopFull(c)
               \/ PopFail(c) \/ PopCopy(c) \/ GetReturn(c)
      <3>1. UNCHANGED <<buffer, free, queue, readit, writeit>>
        BY <2>3 DEF PopCall, PopFull, PopFail, PopCopy, GetReturn
      <3>2. \A t \in Producers \cup Consumers : pc'[t] = "advance" <=> pc[t] = "advance"
        BY <1>1, <2>3 DEF TypeOK, PopCall, PopFull, PopFail, PopCopy, GetReturn
      <3>3. Front' = Front /\ Back' = Back
        BY <1>1, <3>1, <3>2, EndsUnchanged
      <3> QED BY <1>1, <3>1, <3>3, RingUnchanged
    <2> QED BY <1>3, <2>1, <2>2, <2>3 DEF Pop
  <1>4. ASSUME NEW t \in Producers \cup Consumers, Lock(t) PROVE RingInv'
    <2>1. \A u \in Producers \cup Consumers : pc'[u] = "advance" <=> pc[u] = "advance"
      BY <1>1, <1>4 DEF TypeOK, Lock
    <2>2. Front' = Front /\ Back' = Back
      BY <1>1, <1>4, <2>1, EndsUnchanged DEF Lock
    <2> QED BY <1>1, <1>4, <2>2, RingUnchanged DEF Lock
  <1>5. CASE UNCHANGED vars
    <2>1. Front' = Front /\ Back' = Back
      BY <1>1, <1>5, EndsUnchanged DEF vars
    <2> QED BY <1>1, <1>5, <2>1, RingUnchanged DEF vars
  <1> QED BY <1>2, <1>3, <1>4, <1>5 DEF Next

-----------------------------------------------------------------------------
(* What a thread knows between two of its steps *)

\* No step of another thread invalidates what a thread has found out.
LEMMA StepStep ==
    ASSUME IndInv, [Next]_vars
    PROVE  StepInv'
  <1>1. TypeOK /\ LockInv /\ RingInv /\ StepInv
    BY DEF IndInv
  <1>2. /\ \A p, q \in Producers : Pushing(p) /\ Pushing(q) => p = q
        /\ \A c, d \in Consumers : Popping(c) /\ Popping(d) => c = d
    BY <1>1, Mutex
  <1> USE ThreadsAssumption DEF TypeOK, LockInv, StepInv, Pushing, Popping
  <1>3. ASSUME NEW p \in Producers, Push(p) PROVE StepInv'
    <2>1. ASSUME NEW x \in Items, PushCall(p, x) PROVE StepInv'
      BY <1>1, <2>1 DEF PushCall
    <2>2. CASE PushFree(p)
      BY <1>1, <2>2 DEF PushFree
    <2>3. CASE PushWait(p)
      BY <1>1, <2>3 DEF PushWait
    <2>4. CASE PushFail(p)
      BY <1>1, <2>4 DEF PushFail
    <2>5. CASE PushCopy(p)
      BY <1>1, <1>2, <2>5 DEF PushCopy
    <2>6. CASE PushPublish(p)
      BY <1>1, <1>2, <2>6 DEF PushPublish
    <2>7. CASE PushAdvance(p)
      BY <1>1, <1>2, <2>7 DEF PushAdvance
    <2> QED BY <1>3, <2>1, <2>2, <2>3, <2>4, <2>5, <2>6, <2>7 DEF Push
  <1>4. ASSUME NEW c \in Consumers, Pop(c) PROVE StepInv'
    <2>1. CASE PopCall(c)
      BY <1>1, <2>1 DEF PopCall
    <2>2. CASE PopFull(c)
      BY <1>1, <2>2 DEF PopFull
    <2>3. CASE PopFail(c)
      BY <1>1, <2>3 DEF PopFail
    <2>4. CASE PopCopy(c)
      BY <1>1, <2>4 DEF PopCopy
    <2>5. CASE GetReturn(c)
      BY <1>1, <2>5 DEF GetReturn
    <2>6. CASE PopRelease(c)
      BY <1>1, <1>2, <2>6 DEF PopRelease
    <2>7. CASE PopAdvance(c)
      BY <1>1, <1>2, <2>7 DEF PopAdvance
    <2> QED BY <1>4, <2>1, <2>2, <2>3, <2>4, <2>5, <2>6, <2>7 DEF Pop
  <1>5. ASSUME NEW t \in Producers \cup Consumers, Lock(t) PROVE StepInv'
    BY <1>1, <1>5 DEF Lock
  <1>6. CASE UNCHANGED vars
    BY <1>1, <1>6 DEF vars
  <1> QED BY <1>3, <1>4, <1>5, <1>6 DEF Next

-----------------------------------------------------------------------------
(* The theorems *)

\* The empty ring satisfies the invariant.
LEMMA InitInv == Init => IndInv
  <1> SUFFICES ASSUME Init PROVE IndInv
    OBVIOUS
  <1>1. TypeOK
    BY DEF Init, TypeOK, Slots
  <1>2. LockInv
    BY ThreadsAssumption DEF Init, LockInv, Pushing, Popping
  <1>3. Front = 0 /\ Back = 0 /\ Len(queue) = 0
    BY ThreadsAssumption DEF Init, Front, Back
  <1>4. RingInv
    BY <1>1, <1>3 DEF Init, RingInv, Place, Slots
  <1>5. StepInv
    BY ThreadsAssumption DEF Init, StepInv
  <1> QED BY <1>1, <1>2, <1>4, <1>5 DEF IndInv

\* Every step keeps the invariant.
LEMMA NextInv == IndInv /\ [Next]_vars => IndInv'
  <1> SUFFICES ASSUME IndInv, [Next]_vars PROVE IndInv'
    OBVIOUS
  <1>1. TypeOK'
    BY TypeStep
  <1>2. LockInv'
    BY LockStep DEF IndInv
  <1>3. RingInv'
    BY <1>1, <1>2, RingStep
  <1>4. StepInv'
    BY StepStep
  <1> QED BY <1>1, <1>2, <1>3, <1>4 DEF IndInv

\* For any number of slots, threads and values the ring of rqueue_quick keeps its
\* invariant: types, lock, order and contents of the slots, and what a thread saw.
THEOREM Invariance == Spec => []IndInv
  <1>1. Init => IndInv
    BY InitInv
  <1>2. IndInv /\ [Next]_vars => IndInv'
    BY NextInv
  <1> QED BY <1>1, <1>2, PTL DEF Spec

\* rqueue_quick never lets a producer write a slot that a consumer is copying.
THEOREM SlotSafety == Spec => []NoSlotRace
  <1>1. IndInv => NoSlotRace
    BY DEF IndInv, StepInv, NoSlotRace
  <1> QED BY <1>1, Invariance, PTL

\* size() of rqueue_quick is exact when no call is in its last step.
THEOREM SizeCorrect == Spec => []SizeExactAtRest
  <1>1. IndInv => SizeExactAtRest
    <2> SUFFICES ASSUME IndInv, \A t \in Producers \cup Consumers : pc[t] # "advance"
                 PROVE  Size = Len(queue)
      BY DEF SizeExactAtRest
    <2>1. Front = readit /\ Back = writeit
      BY DEF Front, Back
    <2>2. readit \in Slots /\ writeit \in Slots /\ Len(queue) \in Nat
      BY DEF IndInv, TypeOK
    <2>3. writeit = Place(readit, Len(queue)) /\ Len(queue) <= Length
      BY <2>1 DEF IndInv, RingInv
    <2>4. 0 \in Slots /\ Place(readit, 0) = readit
      BY <2>2, PlaceNext DEF Slots
    <2>5. free[readit] = IF 0 < Len(queue) THEN 0 ELSE 1
      BY <2>1, <2>4 DEF IndInv, RingInv
    <2> QED BY <2>2, <2>3, <2>5 DEF Size, Place, Slots
  <1> QED BY <1>1, Invariance, PTL

\* Each step of the ring is a step of the bounded FIFO or leaves it unchanged.
LEMMA FifoStep ==
    ASSUME IndInv, [Next]_vars
    PROVE  [Fifo!Next]_(Fifo!vars)
  <1>1. TypeOK /\ LockInv /\ RingInv /\ StepInv
    BY DEF IndInv
  <1>2. ASSUME NEW p \in Producers, PushPublish(p) PROVE Fifo!Next
    <2>1. Back = writeit /\ free[writeit] = 1 /\ item[p] \in Items
      BY <1>1, <1>2, Ends DEF PushPublish, StepInv, LockInv
    <2>2. Len(queue) < Length
      BY <1>1, <2>1, RoomForPush
    <2>3. Fifo!Put(item[p])
      BY <1>2, <2>2 DEF PushPublish, Fifo!Put
    <2> QED BY <2>1, <2>3 DEF Fifo!Next
  <1>3. ASSUME NEW c \in Consumers, pc[c] \in {"copy", "got"}
        PROVE  queue # <<>> /\ buffer[readit] = Head(queue)
    BY <1>1, <1>3, Ends, ItemForPop DEF StepInv, TypeOK
  <1>4. ASSUME NEW c \in Consumers, PopCopy(c) PROVE Fifo!Next
    <2>1. Fifo!Peek(c)
      BY <1>3, <1>4 DEF PopCopy, Fifo!Peek
    <2> QED BY <2>1 DEF Fifo!Next
  <1>5. ASSUME NEW c \in Consumers, PopRelease(c) PROVE Fifo!Next
    <2>1. got[c] = Head(queue) /\ queue # <<>>
      BY <1>1, <1>3, <1>5 DEF PopRelease, StepInv
    <2>2. Fifo!Take(c)
      BY <1>5, <2>1 DEF PopRelease, Fifo!Take
    <2> QED BY <2>2 DEF Fifo!Next
  <1>6. ASSUME NEW c \in Consumers, GetReturn(c) PROVE Fifo!Next
    <2>1. Fifo!Drop(c)
      BY <1>6 DEF GetReturn, Fifo!Drop
    <2> QED BY <2>1 DEF Fifo!Next
  <1>7. ASSUME NEW p \in Producers, Push(p), ~PushPublish(p) PROVE UNCHANGED Fifo!vars
    BY <1>7 DEF Push, PushCall, PushFree, PushWait, PushFail, PushCopy,
                PushAdvance, Fifo!vars
  <1>8. ASSUME NEW c \in Consumers, Pop(c), ~PopCopy(c), ~PopRelease(c), ~GetReturn(c)
        PROVE  UNCHANGED Fifo!vars
    BY <1>8 DEF Pop, PopCall, PopFull, PopFail, PopAdvance, Fifo!vars
  <1>9. ASSUME NEW t \in Producers \cup Consumers, Lock(t) PROVE UNCHANGED Fifo!vars
    BY <1>9 DEF Lock, Fifo!vars
  <1>10. CASE UNCHANGED vars
    BY <1>10 DEF vars, Fifo!vars
  <1> QED BY <1>2, <1>4, <1>5, <1>6, <1>7, <1>8, <1>9, <1>10 DEF Next

\* rqueue_quick implements a bounded FIFO queue: the items come out once each and in
\* the order of their push, at most Length are in it, and a consumer removes exactly
\* the item it has copied.
THEOREM Refinement == Spec => RefinesFifo
  <1>1. Init => Fifo!Init
    BY DEF Init, Fifo!Init
  <1>2. IndInv /\ [Next]_vars => [Fifo!Next]_(Fifo!vars)
    BY FifoStep
  <1> QED BY <1>1, <1>2, Invariance, PTL DEF Spec, RefinesFifo, Fifo!Spec
=============================================================================
