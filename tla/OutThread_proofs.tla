------------------------- MODULE OutThread_proofs -------------------------
(***************************************************************************)
(* Proofs about OutThread, for every ring, batch, number of next threads   *)
(* and configuration: what becomes of each packet, who analyses it, and    *)
(* that the stage implements OrderedPipe.                                  *)
(***************************************************************************)
EXTENDS OutThread, TLAPS, FiniteSetTheorems

Actors == {0} \cup Threads

\* The output thread works on the batch in slot readit: with next threads, or at all.
Sharing == outPc \in {"post", "early", "own", "join", "rest"}
Passing == Sharing \/ outPc = "serial"

-----------------------------------------------------------------------------
(* The inductive invariant. *)

\* Where the output thread is fits its counters.
PhaseInv ==
    /\ outPc \in {"created", "joined"} => nThreads < MaxThreads
    /\ Sharing => n >= 1
    /\ outPc \in {"post", "join"} => 1 <= k /\ k <= n
    /\ outPc = "early" => n > 1
    /\ outPc = "own" => n = 1
    /\ stop \in {"stopped", "deleted"} => outPc = "done"

\* How many slots s is ahead of slot r.
Ahead(r, s) == IF s >= r THEN s - r ELSE s - r + QRingLength

\* Slot s holds packets, and the packet at position i of it.
Live(s) == qring[s].used \/ (pushing /\ s = writeit)
Full(s, i) == Live(s) /\ i <= Len(qring[s].batch)
Item(s, i) == qring[s].batch[i]

\* The published batches are those from readit up to writeit, and nothing is
\* left of a batch that was given back.
SlotsInv ==
    /\ \A s \in Slots : qring[s].used => qring[s].count = Len(qring[s].batch)
    /\ \A s \in Slots : ~qring[s].used => qring[s].count = 0
    /\ pushing => ~qring[writeit].used /\ Len(qring[writeit].batch) < BatchLength
    /\ stop # "deleted" => \A s \in Slots :
          qring[s].used <=> (qring[writeit].used \/ Ahead(readit, s) < Ahead(readit, writeit))
    /\ qring[writeit].used => writeit = readit
    /\ stop = "deleted" => ~pushing /\ \A s \in Slots : ~qring[s].used
    /\ Passing => qring[readit].used /\ completed <= Count
    /\ ~Passing => completed = 0

\* The packets in the ring lie in the order of their arrival.
OrderInv ==
    /\ \A s \in Slots : \A i \in 1..BatchLength : Full(s, i) => Item(s, i) <= arrived
    /\ \A s, t \in Slots : \A i, j \in 1..BatchLength :
          /\ Full(s, i) /\ Full(t, j)
          /\ Ahead(readit, s) < Ahead(readit, t) \/ (s = t /\ i < j)
          => Item(s, i) < Item(t, j)

\* The states of a next thread: it has nothing to do; it was given a share it
\* does not know of yet; it works on the share, or left; it has done the share.
Idle(i) ==
    /\ ~ready[i] /\ ~processing[i] /\ semWork[i] = 0 /\ semDone[i] = 0
    /\ nextPc[i] \notin {"work", "report"}
Assigned(i) ==
    /\ processing[i] /\ semDone[i] = 0 /\ nextPc[i] \notin {"work", "report"}
    /\ \/ conf.semSync = 0 /\ ready[i] /\ semWork[i] = 0
       \/ conf.semSync # 0 /\ ~ready[i] /\ semWork[i] = 1
Working(i) ==
    /\ processing[i] /\ ~ready[i] /\ semWork[i] = 0 /\ semDone[i] = 0
    /\ nextPc[i] \in {"work", "exited"}
Finished(i) ==
    /\ ~processing[i] /\ ~ready[i] /\ semWork[i] = 0
    /\ \/ conf.semSync # 2 /\ semDone[i] = 0 /\ nextPc[i] \notin {"work", "report"}
       \/ conf.semSync = 2 /\ semDone[i] = 0 /\ nextPc[i] = "report"
       \/ conf.semSync = 2 /\ semDone[i] = 1 /\ nextPc[i] \notin {"work", "report"}
\* The thread that is being removed.
Leaving(i) ==
    /\ outPc = "joined" /\ i = nThreads + 1
    /\ ~ready[i] /\ ~processing[i] /\ semDone[i] = 0 /\ terminate[i]
    /\ nextPc[i] \notin {"work", "report"}

\* The next threads that were given a share the output thread still awaits.
Posted(i) ==
    \/ outPc = "post" /\ i < k
    \/ outPc \in {"early", "own"} /\ i <= n
    \/ outPc = "join" /\ k <= i /\ i <= n

\* What each next thread does fits what the output thread does.
ThreadsInv ==
    /\ \A i \in Threads : Posted(i) => Assigned(i) \/ Working(i) \/ Finished(i)
    /\ \A i \in Threads : ~Posted(i) => Idle(i) \/ Leaving(i)
    /\ \A i \in Threads : processing[i] => data[i] = Share(i)

\* The actors that share the batch, and their shares.
Sharers == IF n > 1 THEN 1..n ELSE {0, 1}
ShareOf(a) == IF a = 0 THEN OwnShare ELSE Share(a)

\* The index up to which an actor has analysed the items of its share.
Reached(a) ==
    IF a = 0
    THEN CASE outPc \in {"post", "early"} -> 0
           [] outPc = "own" -> at[0]
           [] OTHER -> BatchLength
    ELSE IF (outPc = "post" /\ a >= k) \/ ready[a] \/ semWork[a] > 0 THEN 0
    ELSE IF processing[a] THEN at[a]
    ELSE BatchLength

Active(a) == IF a = 0 THEN outPc = "own" ELSE nextPc[a] = "work"

\* Packets are analysed while their batch is worked on, and not before.
Untouched ==
    /\ analysed \subseteq 1..arrived
    /\ \A s \in Slots : \A i \in 1..BatchLength :
          Full(s, i) /\ (s = readit => ~Passing) => Item(s, i) \notin analysed

\* What was analysed of the batch is what the actors have passed in their shares.
SharesDone ==
    /\ outPc = "serial" => \A i \in 1..Count : Batch[i] \in analysed <=> i <= completed
    /\ Sharing => \A a \in Sharers : \A j \in InShare(ShareOf(a)) :
          Batch[j + 1] \in analysed <=> j < Reached(a)

\* An actor analyses the item of its share that it has come to.
BusyInv ==
    \A a \in Actors : busy[a] # 0 =>
        /\ Active(a)
        /\ at[a] \in InShare(ShareOf(a))
        /\ busy[a] = Batch[at[a] + 1]

\* An item that has a flag was analysed.
FlagsInv ==
    Sharing => \A j \in 0..BatchLength - 1 : flag[j] # 0 =>
        j < Count /\ Batch[j + 1] \in analysed

AnalysisInv == Untouched /\ SharesDone /\ BusyInv /\ FlagsInv

\* What was handed on was analysed, is not destroyed and is older than what is inside.
PassedInv ==
    /\ Elements(out) \subseteq analysed
    /\ Elements(out) \cap gone = {}
    /\ \A p \in Elements(out) : \A q \in Inside : p < q

\* A packet inside that is destroyed, or kept by the defragmenter, is flagged.
GoneInv ==
    /\ gone \subseteq 1..arrived
    /\ \A x \in Held : Item(x[1], x[2]) \in gone =>
          conf.type = "defrag" /\ Sharing /\ x[1] = readit /\ flag[x[2] - 1] = -1

\* No packet is forgotten.
NoneLost == stop # "deleted" => 1..arrived \subseteq Elements(out) \cup gone \cup Inside

AccountInv == PassedInv /\ GoneInv /\ NoneLost

IInv == TypeOK /\ PhaseInv /\ SlotsInv /\ OrderInv /\ ThreadsInv /\ AnalysisInv /\ AccountInv

-----------------------------------------------------------------------------
(* Arithmetic. *)

\* Division with a remainder.
LEMMA DivMod ==
    ASSUME NEW x \in Nat, NEW d \in Nat, d > 0
    PROVE  \E q \in Nat : \E r \in 0..d - 1 : r = x % d /\ x = d * q + r
<1>1. x \div d \in Nat /\ x % d \in 0..d - 1
  OBVIOUS
<1>2. d \in Nat \ {0}
  OBVIOUS
<1>3. x % d = x - d * (x \div d)
  BY <1>2, SMTT(20)
<1>4. PICK q \in Nat : q = x \div d
  BY <1>1
<1>5. PICK r \in 0..d - 1 : r = x % d
  BY <1>1
<1>6. r = x - d * q
  BY <1>3, <1>4, <1>5
<1>7. x = d * q + r
  BY <1>6
<1> QED BY <1>5, <1>7

\* The only multiple of d between -d and d is 0.
LEMMA SmallMultiple ==
    ASSUME NEW d \in Nat, NEW q \in Int, d > 0, d * q < d, d * q > 0 - d
    PROVE  q = 0
<1>1. CASE q >= 1
  <2>1. d * q >= d
    BY <1>1, Z3
  <2> QED BY <2>1
<1>2. CASE q <= -1
  <2>1. d * q <= 0 - d
    BY <1>2, Z3
  <2> QED BY <2>1
<1> QED BY <1>1, <1>2

\* Indexes dealt out in turn: index j goes to one hand only.
LEMMA DealtOnce ==
    ASSUME NEW j \in Nat, NEW d \in Nat, NEW a \in Nat, NEW b \in Nat,
           d > 0, a < d, b < d, j >= a, j >= b, (j - a) % d = 0, (j - b) % d = 0
    PROVE  a = b
<1>1. PICK q \in Int : j - a = d * q
  BY DivMod, j - a \in Nat
<1>2. PICK r \in Int : j - b = d * r
  BY DivMod, j - b \in Nat
<1>3. q - r \in Int /\ d * (q - r) = d * q - d * r
  BY <1>1, <1>2, Z3
<1>4. d * (q - r) = b - a
  BY <1>1, <1>2, <1>3
<1>5. q - r = 0
  BY <1>3, <1>4, SmallMultiple
<1>6. d * (q - r) = 0
  BY <1>5, Z3
<1> QED BY <1>4, <1>6

\* Indexes dealt out in turn: index j goes to hand j % d.
LEMMA DealtToOne ==
    ASSUME NEW j \in Nat, NEW d \in Nat, d > 0
    PROVE  j % d < d /\ j % d \in Nat /\ j >= j % d /\ (j - (j % d)) % d = 0
<1>0. PICK q \in Nat : \E r \in 0..d - 1 : r = j % d /\ j = d * q + r
  BY DivMod
<1>1. PICK r \in 0..d - 1 : r = j % d /\ j = d * q + r
  BY <1>0
<1>2. j - r = d * q /\ d * q \in Nat /\ j >= r
  BY <1>1
<1>3. (d * q) % d = 0
  <2>1. PICK x \in Nat : x = d * q
    BY <1>2
  <2>2. PICK p \in Nat, s \in 0..d - 1 : s = x % d /\ x = d * p + s
    BY <2>1, DivMod
  <2>3. d * (q - p) = s
    BY <2>1, <2>2, Z3
  <2>4. q - p = 0
    BY <2>2, <2>3, SmallMultiple
  <2>5. d * (q - p) = 0
    BY <2>4, Z3
  <2> QED BY <2>1, <2>2, <2>3, <2>5
<1> QED BY <1>1, <1>2, <1>3

-----------------------------------------------------------------------------
(* The shares of a batch. *)

\* The types of what the output thread reads.
LEMMA Types ==
    ASSUME TypeOK
    PROVE  /\ conf \in ConfType
           /\ Batch \in Seq(Packets) /\ Len(Batch) \in 0..BatchLength
           /\ Count \in 0..BatchLength
           /\ n \in Nat /\ k \in Nat /\ BatchLength \in Nat
           /\ \A s \in Slots : /\ qring[s].batch \in Seq(Packets)
                             /\ Len(qring[s].batch) \in 0..BatchLength
                             /\ qring[s].count \in 0..BatchLength
                             /\ qring[s].used \in BOOLEAN
  BY OutThreadAssumption DEF TypeOK, Batch, Count

\* How many packets have arrived is a number.
LEMMA ArrivedNat ==
    ASSUME TypeOK
    PROVE  arrived \in Nat /\ MaxPackets \in Nat /\ arrived <= MaxPackets
<1>1. arrived \in 0..MaxPackets
  BY DEF TypeOK
<1> QED BY <1>1, OutThreadAssumption

\* The actor whose share item j of the batch is in.
Owner(j) ==
    IF conf.type = "defrag"
    THEN IF n > 1 THEN ThreadIndex(Batch[j + 1]) + 1 ELSE ThreadIndex(Batch[j + 1])
    ELSE IF n > 1 THEN (j % n) + 1 ELSE IF j < Count \div 2 THEN 0 ELSE 1

\* Every item is in the share of its owner, who is one of the sharers.
LEMMA OwnerShares ==
    ASSUME TypeOK, n >= 1, Count <= Len(Batch),
           NEW j \in 0..Count - 1
    PROVE  Owner(j) \in Sharers /\ j \in InShare(ShareOf(Owner(j)))
<1> USE Types
<1>1. j \in 0..BatchLength - 1 /\ j \in Nat /\ j + 1 \in 1..Len(Batch)
  OBVIOUS
<1>2. CASE conf.type = "defrag"
  <2>1. Batch[j + 1] \in Packets
    BY <1>1
  <2>2. PICK h \in Nat : h = Hash[Batch[j + 1]]
    BY <2>1, OutThreadAssumption
  <2>3. (j - 0) % 1 = 0
    BY <1>1
  <2>4. CASE n > 1
    <3>1. PICK x \in 0..n - 1 : x = h % n
      BY <2>4, DivMod
    <3>2. ThreadIndex(Batch[j + 1]) = x
      BY <2>2, <2>4, <3>1 DEF ThreadIndex
    <3>3. Owner(j) = x + 1 /\ x + 1 \in 1..n
      BY <1>2, <2>4, <3>1, <3>2 DEF Owner
    <3>4. ShareOf(x + 1) = Piece(0, Count, 1, x)
      BY <1>2, <2>4, <3>1 DEF ShareOf, Share
    <3>5. j \in InShare(Piece(0, Count, 1, x))
      BY <1>1, <2>3, <3>2 DEF InShare, Piece
    <3> QED BY <2>4, <3>3, <3>4, <3>5 DEF Sharers
  <2>5. CASE n = 1
    <3>1. PICK x \in 0..1 : x = h % 2
      OBVIOUS
    <3>2. ThreadIndex(Batch[j + 1]) = x
      BY <2>2, <2>5, <3>1 DEF ThreadIndex
    <3>3. Owner(j) = x
      BY <1>2, <2>5, <3>1, <3>2 DEF Owner
    <3>4. ShareOf(x) = Piece(0, Count, 1, x)
      BY <1>2, <2>5, <3>1 DEF ShareOf, Share, OwnShare
    <3>5. j \in InShare(Piece(0, Count, 1, x))
      BY <1>1, <2>3, <3>2 DEF InShare, Piece
    <3> QED BY <2>5, <3>1, <3>3, <3>4, <3>5 DEF Sharers
  <2> QED BY <2>4, <2>5
<1>3. CASE conf.type # "defrag" /\ n > 1
  <2>0. j % n < n /\ j % n \in Nat /\ j >= j % n /\ (j - (j % n)) % n = 0
    <3>1. j \in Nat /\ n \in Nat /\ n > 0
      BY <1>1, <1>3
    <3>2. PICK d \in Nat : d = n
      BY <3>1
    <3>3. j % d < d /\ j % d \in Nat /\ j >= j % d /\ (j - (j % d)) % d = 0
      BY <3>1, <3>2, DealtToOne
    <3> QED BY <3>2, <3>3
  <2>1. PICK x \in Nat : x = j % n /\ x < n /\ j >= x /\ (j - x) % n = 0
    BY <2>0
  <2>2. Owner(j) = x + 1
    BY <1>3, <2>1 DEF Owner
  <2>3. ShareOf(x + 1) = Piece(x, Count, n, 0)
    <3>1. x + 1 # 0 /\ (x + 1) - 1 = x
      BY <2>1, SMTT(30)
    <3> QED BY <1>3, <3>1 DEF ShareOf, Share
  <2>4. j \in InShare(Piece(x, Count, n, 0))
    <3>1. j >= x /\ j < Count /\ (j - x) % n = 0
      BY <2>1
    <3> QED BY <1>1, <1>3, <3>1 DEF InShare, Piece
  <2> QED BY <1>3, <2>1, <2>2, <2>3, <2>4, SMTT(30) DEF Sharers
<1>4. CASE conf.type # "defrag" /\ n = 1
  <2>1. PICK c \in Nat : c = Count \div 2
    OBVIOUS
  <2>2. CASE j < c
    <3>1. ShareOf(0) = Piece(0, c, 1, 0) /\ Owner(j) = 0
      BY <1>4, <2>1, <2>2 DEF ShareOf, OwnShare, Owner
    <3>2. j \in InShare(Piece(0, c, 1, 0))
      BY <1>1, <1>4, <2>2 DEF InShare, Piece
    <3> QED BY <1>4, <3>1, <3>2 DEF Sharers
  <2>3. CASE ~(j < c)
    <3>1. ShareOf(1) = Piece(c, Count, 1, 0) /\ Owner(j) = 1
      BY <1>4, <2>1, <2>3 DEF ShareOf, Share, Owner
    <3>2. j \in InShare(Piece(c, Count, 1, 0))
      BY <1>1, <1>4, <2>1, <2>3 DEF InShare, Piece
    <3> QED BY <1>4, <3>1, <3>2 DEF Sharers
  <2> QED BY <2>2, <2>3
<1> QED BY <1>2, <1>3, <1>4

\* An item in the share of a sharer lies in the batch and has that owner.
LEMMA ShareOwner ==
    ASSUME TypeOK, n >= 1, NEW a \in Sharers, NEW j \in InShare(ShareOf(a))
    PROVE  j \in 0..Count - 1 /\ Owner(j) = a
<1> USE Types
<1>1. j \in 0..BatchLength - 1 /\ j \in Nat
  BY DEF InShare
<1>2. CASE conf.type = "defrag"
  <2>1. CASE n > 1
    <3>1. a \in 1..n /\ a # 0
      BY <2>1 DEF Sharers
    <3>2. j \in InShare(Piece(0, Count, 1, a - 1))
      BY <1>2, <2>1, <3>1 DEF ShareOf, Share
    <3>3. j < Count /\ ThreadIndex(Batch[j + 1]) = a - 1
      BY <1>2, <3>2 DEF InShare, Piece
    <3> QED BY <1>1, <1>2, <2>1, <3>1, <3>3 DEF Owner
  <2>2. CASE n = 1
    <3>1. a \in {0, 1}
      BY <2>2 DEF Sharers
    <3>2. j \in InShare(Piece(0, Count, 1, a))
      BY <1>2, <2>2, <3>1 DEF ShareOf, Share, OwnShare
    <3>3. j < Count /\ ThreadIndex(Batch[j + 1]) = a
      BY <1>2, <3>2 DEF InShare, Piece
    <3> QED BY <1>1, <1>2, <2>2, <3>3 DEF Owner
  <2> QED BY <2>1, <2>2
<1>3. CASE conf.type # "defrag" /\ n > 1
  <2>1. a \in 1..n /\ a # 0
    BY <1>3 DEF Sharers
  <2>2. PICK x \in Nat : x = a - 1
    BY <2>1
  <2>3. j \in InShare(Piece(x, Count, n, 0))
    BY <1>3, <2>1, <2>2 DEF ShareOf, Share
  <2>4. j < Count /\ j >= x /\ (j - x) % n = 0
    BY <2>3 DEF InShare, Piece
  <2>5. PICK d \in Nat : d = n
    OBVIOUS
  <2>6. PICK y \in Nat : y = j % d /\ y < d /\ j >= y /\ (j - y) % d = 0
    <3>1. d > 0
      BY <1>3, <2>5
    <3>2. j % d < d /\ j % d \in Nat /\ j >= j % d /\ (j - (j % d)) % d = 0
      BY <1>1, <3>1, DealtToOne
    <3> QED BY <3>2
  <2>7. d > 0 /\ x < d /\ (j - x) % d = 0
    BY <1>3, <2>1, <2>2, <2>4, <2>5
  <2>8. x = y
    BY <1>1, <2>4, <2>6, <2>7, DealtOnce
  <2> QED BY <1>1, <1>3, <2>1, <2>2, <2>4, <2>5, <2>6, <2>8 DEF Owner
<1>4. CASE conf.type # "defrag" /\ n = 1
  <2>1. PICK c \in Nat : c = Count \div 2 /\ c <= Count
    OBVIOUS
  <2>2. CASE a = 0
    <3>1. j \in InShare(Piece(0, c, 1, 0))
      BY <1>4, <2>1, <2>2 DEF ShareOf, OwnShare
    <3>2. j < c
      BY <3>1 DEF InShare, Piece
    <3> QED BY <1>1, <1>4, <2>1, <2>2, <3>2 DEF Owner
  <2>3. CASE a = 1
    <3>1. j \in InShare(Piece(c, Count, 1, 0))
      BY <1>4, <2>1, <2>3 DEF ShareOf, Share
    <3>2. j < Count /\ j >= c
      BY <3>1 DEF InShare, Piece
    <3> QED BY <1>1, <1>4, <2>1, <2>3, <3>2 DEF Owner
  <2> QED BY <1>4, <2>2, <2>3 DEF Sharers
<1> QED BY <1>2, <1>3, <1>4

\* The shares have the type of next_data.
LEMMA ShareType ==
    ASSUME TypeOK, NEW i \in 1..n
    PROVE  /\ Share(i) \in [start : Nat, end : Nat, skip : Nat, index : Nat, batch : BOOLEAN]
           /\ Share(i).batch
<1> USE Types
<1>1. i \in Nat /\ i - 1 \in Nat /\ n \in Nat /\ i # 0
  OBVIOUS
<1>2. CASE conf.type = "defrag"
  BY <1>1, <1>2 DEF Share, Piece
<1>3. CASE conf.type # "defrag" /\ n > 1
  BY <1>1, <1>3 DEF Share, Piece
<1>4. CASE conf.type # "defrag" /\ n = 1
  <2>1. i = 1
    BY <1>4
  <2>2. Share(i) = Piece(Count \div 2, Count, 1, 0)
    BY <1>4, <2>1 DEF Share
  <2>3. Count \div 2 \in Nat
    OBVIOUS
  <2> QED BY <2>2, <2>3 DEF Piece
<1> QED BY <1>1, <1>2, <1>3, <1>4

\* The shares do not change as long as the batch and the number of threads do not.
LEMMA SharesKept ==
    ASSUME conf' = conf, n' = n, Batch' = Batch, Count' = Count
    PROVE  /\ \A i : Share(i)' = Share(i)
           /\ OwnShare' = OwnShare
           /\ \A a : ShareOf(a)' = ShareOf(a)
           /\ \A d : InShare(d)' = InShare(d)
           /\ Sharers' = Sharers
           /\ \A j : Owner(j)' = Owner(j)
  BY DEF Share, OwnShare, ShareOf, InShare, ThreadIndex, Sharers, Owner

-----------------------------------------------------------------------------
(* Type correctness. *)

\* The slots of the ring.
LEMMA SlotTypes ==
    ASSUME NEW s \in Slots
    PROVE  NextSlot(s) \in Slots /\ s \in Int /\ QRingLength \in Nat /\ 0 \in Slots
  BY OutThreadAssumption DEF Slots, NextSlot

\* The items of the batch that is worked on are packets.
LEMMA BatchItems ==
    ASSUME TypeOK, SlotsInv, Passing
    PROVE  Count = Len(Batch) /\ \A j \in 1..Count : Batch[j] \in Packets
<1>1. Count = Len(Batch)
  BY DEF SlotsInv, TypeOK, Batch, Count
<1> QED BY <1>1, Types

\* Handing an item on keeps the types.
LEMMA PassOnTypes ==
    ASSUME TypeOK, NEW p \in Packets, NEW f \in {-1, 0, 1}, PassOn(p, f)
    PROVE  out' \in Seq(Packets) /\ gone' \subseteq Packets /\ down' \in 0..BatchLength - 1
<1>1. \A x \in Nat : x % BatchLength \in 0..BatchLength - 1
  BY OutThreadAssumption
<1>2. down + 1 \in Nat /\ out \in Seq(Packets) /\ gone \subseteq Packets
  BY DEF TypeOK
<1>3. CASE out' = Append(out, p) /\ down' = (down + 1) % BatchLength /\ UNCHANGED gone
  BY <1>1, <1>2, <1>3
<1>4. CASE gone' = gone \cup {p} /\ UNCHANGED <<out, down>>
  BY <1>2, <1>4 DEF TypeOK
<1> QED BY <1>3, <1>4 DEF PassOn

\* A thread that works has a share of the batch.
LEMMA WorkerShares ==
    ASSUME IInv, NEW i \in Threads, nextPc[i] = "work"
    PROVE  /\ Posted(i) /\ Working(i) /\ data[i] = Share(i) /\ ShareOf(i) = Share(i)
           /\ Sharing /\ Passing /\ i \in 1..n /\ i \in Sharers /\ n >= 1
<1>1. i \in Nat /\ i > 0 /\ n \in Nat /\ k \in Nat
  BY OutThreadAssumption DEF Threads, IInv, TypeOK
<1>2. ~Idle(i) /\ ~Leaving(i)
  BY DEF Idle, Leaving
<1>3. Posted(i)
  BY <1>2 DEF IInv, ThreadsInv
<1>4. Working(i)
  BY <1>3 DEF IInv, ThreadsInv, Assigned, Finished
<1>5. data[i] = Share(i)
  BY <1>4 DEF Working, IInv, ThreadsInv
<1>6. Sharing /\ Passing
  BY <1>3 DEF Posted, Sharing, Passing
<1>7. i <= n
  BY <1>1, <1>3 DEF Posted, IInv, PhaseInv
<1> QED BY <1>1, <1>3, <1>4, <1>5, <1>6, <1>7 DEF ShareOf, Sharers

\* An actor that begins to analyse an item.
LEMMA BeginTypes ==
    ASSUME IInv, Sharing, NEW a \in Sharers \cap Actors, Begin(a, ShareOf(a))
    PROVE  /\ at' \in [Actors -> Nat] /\ busy' \in [Actors -> 0..MaxPackets]
           /\ analysed' = analysed /\ flag' = flag
<1>1. TypeOK /\ n >= 1 /\ Passing /\ SlotsInv
  BY DEF IInv, PhaseInv, Passing
<1>2. PICK j \in Todo(a, ShareOf(a)) :
        at' = [at EXCEPT ![a] = j] /\ busy' = [busy EXCEPT ![a] = Batch[j + 1]]
  BY DEF Begin
<1>3. j \in InShare(ShareOf(a))
  BY <1>2 DEF Todo
<1>4. j \in 0..Count - 1
  BY <1>1, <1>3, ShareOwner
<1>5. Batch[j + 1] \in Packets
  BY <1>1, <1>4, BatchItems, Types
<1>6. at \in [Actors -> Nat] /\ busy \in [Actors -> 0..MaxPackets]
  BY <1>1 DEF TypeOK, Actors
<1> QED BY <1>2, <1>4, <1>5, <1>6, Types, <1>1 DEF Begin, Packets

\* An actor that ends the analysis of an item.
LEMMA EndTypes ==
    ASSUME IInv, NEW a \in Actors, NEW f \in Verdicts, End(a, f)
    PROVE  /\ at' \in [Actors -> Nat] /\ busy' \in [Actors -> 0..MaxPackets]
           /\ analysed' \subseteq Packets /\ gone' \subseteq Packets
           /\ out' = out /\ down' = down
           /\ f \in {-1, 1} /\ at[a] \in 0..BatchLength - 1
<1>1. TypeOK
  BY DEF IInv
<1>2. at \in [Actors -> Nat] /\ busy \in [Actors -> 0..MaxPackets]
      /\ gone \subseteq Packets /\ analysed \subseteq Packets /\ MaxPackets \in Nat
  BY <1>1, OutThreadAssumption DEF TypeOK, Actors
<1>3. busy[a] \in Packets
  BY <1>2 DEF End, Packets
<1>4. at[a] \in InShare(ShareOf(a))
  BY DEF End, IInv, AnalysisInv, BusyInv
<1>5. at[a] \in 0..BatchLength - 1
  BY <1>4 DEF InShare
<1>6. at' \in [Actors -> Nat] /\ busy' \in [Actors -> 0..MaxPackets]
  BY <1>2 DEF End
<1>7. analysed' \subseteq Packets /\ gone' \subseteq Packets
  BY <1>2, <1>3 DEF End
<1>8. f \in {-1, 1}
  BY DEF Verdicts
<1> QED BY <1>5, <1>6, <1>7, <1>8 DEF End

\* The steps of the upstream thread keep the types.
LEMMA TypePush ==
    ASSUME IInv,
           (\E late \in BOOLEAN : Push(late)) \/ PushTerminating \/ PushBatch
    PROVE  TypeOK'
<1> USE DEF endVars, ringVars, sizeVars, workVars, anVars, passVars
<1>1. TypeOK /\ SlotsInv
  BY DEF IInv
<1>2. writeit \in Slots /\ NextSlot(writeit) \in Slots
  BY <1>1, SlotTypes DEF TypeOK
<1>3. \A batch \in Seq(Packets) : Len(batch) <= BatchLength /\ Publish(batch)
        => /\ qring' \in [Slots -> [batch : Seq(Packets), count : 0..BatchLength, used : BOOLEAN]]
           /\ \A s \in Slots : Len(qring'[s].batch) <= BatchLength
           /\ writeit' \in Slots /\ pushing' \in BOOLEAN
  <2> SUFFICES ASSUME NEW batch \in Seq(Packets), Len(batch) <= BatchLength, Publish(batch)
               PROVE  /\ qring' \in [Slots -> [batch : Seq(Packets), count : 0..BatchLength,
                                               used : BOOLEAN]]
                      /\ \A s \in Slots : Len(qring'[s].batch) <= BatchLength
                      /\ writeit' \in Slots /\ pushing' \in BOOLEAN
    OBVIOUS
  <2>1. PICK c \in 0..BatchLength : c = Len(batch)
    BY OutThreadAssumption
  <2>2. qring' = [qring EXCEPT ![writeit] = Slot(batch, c, TRUE)]
    BY <2>1 DEF Publish
  <2>3. Slot(batch, c, TRUE) \in [batch : Seq(Packets), count : 0..BatchLength, used : BOOLEAN]
        /\ Slot(batch, c, TRUE).batch = batch
    BY DEF Slot
  <2>4. /\ qring' \in [Slots -> [batch : Seq(Packets), count : 0..BatchLength, used : BOOLEAN]]
        /\ \A s \in Slots : Len(qring'[s].batch) <= BatchLength
    BY <1>1, <1>2, <2>2, <2>3 DEF TypeOK
  <2> QED BY <1>2, <2>4 DEF Publish
<1>4. CASE \E late \in BOOLEAN : Push(late)
  <2>1. PICK late \in BOOLEAN : Push(late)
    BY <1>4
  <2>2. PICK b : b = Append(IF pushing THEN qring[writeit].batch ELSE <<>>, arrived + 1)
    OBVIOUS
  <2>3. arrived + 1 \in Packets /\ arrived' \in 0..MaxPackets
    BY <1>1, <2>1, OutThreadAssumption DEF Push, TypeOK, Packets
  <2>4. b \in Seq(Packets) /\ Len(b) <= BatchLength
    <3>1. CASE pushing
      BY <1>1, <1>2, <2>2, <2>3, <3>1, Types DEF SlotsInv
    <3>2. CASE ~pushing
      BY <2>2, <2>3, <3>2, OutThreadAssumption
    <3> QED BY <3>1, <3>2
  <2>5. CASE Publish(b)
    <3>1. /\ qring' \in [Slots -> [batch : Seq(Packets), count : 0..BatchLength, used : BOOLEAN]]
          /\ \A s \in Slots : Len(qring'[s].batch) <= BatchLength
          /\ writeit' \in Slots /\ pushing' \in BOOLEAN
      BY <1>3, <2>4, <2>5
    <3> QED BY <1>1, <2>1, <2>3, <3>1 DEF Push, TypeOK
  <2>6. CASE /\ qring' = [qring EXCEPT ![writeit] =
                              Slot(b, qring[writeit].count, qring[writeit].used)]
             /\ pushing' = TRUE /\ UNCHANGED writeit
    <3>1. /\ qring' \in [Slots -> [batch : Seq(Packets), count : 0..BatchLength, used : BOOLEAN]]
          /\ \A s \in Slots : Len(qring'[s].batch) <= BatchLength
      BY <1>1, <1>2, <2>4, <2>6 DEF TypeOK, Slot
    <3> QED BY <1>1, <2>1, <2>3, <2>6, <3>1 DEF Push, TypeOK
  <2> QED BY <2>1, <2>2, <2>5, <2>6 DEF Push
<1>5. CASE PushTerminating
  <2>1. arrived + 1 \in Packets /\ arrived' \in 0..MaxPackets
    BY <1>1, <1>5, OutThreadAssumption DEF PushTerminating, TypeOK, Packets
  <2> QED BY <1>1, <1>5, <2>1 DEF PushTerminating, TypeOK
<1>6. CASE PushBatch
  <2>1. /\ qring' \in [Slots -> [batch : Seq(Packets), count : 0..BatchLength, used : BOOLEAN]]
        /\ \A s \in Slots : Len(qring'[s].batch) <= BatchLength
        /\ writeit' \in Slots /\ pushing' \in BOOLEAN
    <3>1. qring[writeit].batch \in Seq(Packets) /\ Len(qring[writeit].batch) <= BatchLength
      BY <1>1, <1>2, Types
    <3> QED BY <1>3, <1>6, <3>1 DEF PushBatch
  <2> QED BY <1>1, <1>6, <2>1 DEF PushBatch, TypeOK
<1> QED BY <1>4, <1>5, <1>6

\* The steps between batches keep the types.
LEMMA TypeControl ==
    ASSUME IInv,
           \/ OutExit \/ OutCreate \/ OutCreated \/ OutTerm \/ OutTermJoined
           \/ OutIdle \/ OutIdlePushBatch \/ OutTake
           \/ AddNextThread \/ RemoveNextThread \/ Terminate \/ StopCall \/ StopJoined
    PROVE  TypeOK'
<1> USE DEF endVars, ringVars, sizeVars, workVars, anVars, passVars
<1>1. TypeOK /\ PhaseInv
  BY DEF IInv
<1>2. MaxThreads \in Nat /\ BatchLength \in Nat \ {0} /\ nThreads \in 0..MaxThreads
  BY <1>1, OutThreadAssumption DEF TypeOK
<1>3. NullData \in [start : Nat, end : Nat, skip : Nat, index : Nat, batch : BOOLEAN]
  BY DEF NullData
<1>4. CASE OutExit
  BY <1>1, <1>4 DEF OutExit, TypeOK
<1>5. CASE OutCreate
  <2>1. CASE nThreads < MaxThreads
    <3>1. nThreads + 1 \in Threads
      BY <1>2, <2>1 DEF Threads
    <3>2. data' \in [Threads -> [start : Nat, end : Nat, skip : Nat, index : Nat,
                                 batch : BOOLEAN]]
      BY <1>1, <1>3, <1>5, <2>1, <3>1 DEF OutCreate, TypeOK
    <3>3. /\ ready' \in [Threads -> BOOLEAN] /\ processing' \in [Threads -> BOOLEAN]
          /\ terminate' \in [Threads -> BOOLEAN]
      <4>1. ready' \in [Threads -> BOOLEAN]
        BY <1>1, <1>5, <2>1 DEF OutCreate, TypeOK
      <4>2. processing' \in [Threads -> BOOLEAN]
        BY <1>1, <1>5, <2>1 DEF OutCreate, TypeOK
      <4>3. terminate' \in [Threads -> BOOLEAN]
        BY <1>1, <1>5, <2>1 DEF OutCreate, TypeOK
      <4> QED BY <4>1, <4>2, <4>3
    <3>4. semWork' \in [Threads -> Nat] /\ semDone' \in [Threads -> Nat]
      <4>1. semWork' = [semWork EXCEPT ![nThreads + 1] = 0] /\ semWork \in [Threads -> Nat]
        BY <1>1, <1>5, <2>1 DEF OutCreate, TypeOK
      <4>2. semDone' = [semDone EXCEPT ![nThreads + 1] = 0] /\ semDone \in [Threads -> Nat]
        BY <1>1, <1>5, <2>1 DEF OutCreate, TypeOK
      <4> QED BY <4>1, <4>2
    <3>5. nextPc' \in [Threads -> {"none", "start", "head", "wait", "work", "report", "exited"}]
      BY <1>1, <1>5, <2>1, <3>1 DEF OutCreate, TypeOK
    <3> QED BY <1>1, <1>5, <2>1, <3>2, <3>3, <3>4, <3>5 DEF OutCreate, TypeOK
  <2>2. CASE ~(nThreads < MaxThreads)
    BY <1>1, <1>5, <2>2 DEF OutCreate, TypeOK
  <2> QED BY <2>1, <2>2
<1>6. CASE OutCreated
  <2>1. nThreads + 1 \in 0..MaxThreads
    BY <1>1, <1>2, <1>6 DEF PhaseInv, OutCreated
  <2> QED BY <1>1, <1>6, <2>1 DEF OutCreated, TypeOK
<1>7. CASE OutTerm
  <2>1. CASE MayRemove
    <3>1. nThreads \in Threads /\ nThreads - 1 \in 0..MaxThreads
      BY <1>2, <2>1 DEF Threads, MayRemove
    <3>2. semWork' \in [Threads -> Nat] /\ terminate' \in [Threads -> BOOLEAN]
      <4>1. terminate' \in [Threads -> BOOLEAN]
        BY <1>1, <1>7, <2>1, <3>1 DEF OutTerm, TypeOK
      <4>2. CASE TermPosts
        <5>0. semWork \in [Threads -> Nat]
          BY <1>1 DEF TypeOK
        <5>1. semWork \in [Threads -> Nat] /\ semWork[nThreads] + 1 \in Nat
          BY <3>1, <5>0
        <5>2. semWork' = [semWork EXCEPT ![nThreads] = semWork[nThreads] + 1]
          BY <1>7, <2>1, <4>2 DEF OutTerm
        <5> QED BY <4>1, <5>1, <5>2
      <4>3. CASE ~TermPosts
        BY <1>1, <1>7, <2>1, <3>1, <4>1, <4>3 DEF OutTerm, TypeOK
      <4> QED BY <4>2, <4>3
    <3> QED BY <1>1, <1>7, <2>1, <3>1, <3>2 DEF OutTerm, TypeOK
  <2>2. CASE ~MayRemove
    BY <1>1, <1>7, <2>2 DEF OutTerm, TypeOK
  <2> QED BY <2>1, <2>2
<1>8. CASE OutTermJoined
  <2>1. nThreads + 1 \in Threads
    BY <1>1, <1>2, <1>8 DEF Threads, PhaseInv, OutTermJoined
  <2> QED BY <1>1, <1>3, <1>8, <2>1 DEF OutTermJoined, TypeOK
<1>9. CASE OutIdle
  BY <1>1, <1>9 DEF OutIdle, TypeOK
<1>10. CASE OutIdlePushBatch
  BY <1>1, <1>2, <1>10, SMTT(30) DEF OutIdlePushBatch, TypeOK
<1>11. CASE OutTake
  BY <1>1, <1>2, <1>11, SMTT(30) DEF OutTake, TypeOK
<1>12. CASE AddNextThread
  <2>0. conf.maxResize \in Nat
    BY <1>1, Types DEF ConfType
  <2>1. resizes' \in 0..conf.maxResize
    BY <1>1, <1>12, <2>0 DEF AddNextThread, TypeOK
  <2> QED BY <1>1, <1>12, <2>1 DEF AddNextThread, TypeOK
<1>13. CASE RemoveNextThread
  <2>0. conf.maxResize \in Nat
    BY <1>1, Types DEF ConfType
  <2>1. resizes' \in 0..conf.maxResize
    BY <1>1, <1>13, <2>0 DEF RemoveNextThread, TypeOK
  <2> QED BY <1>1, <1>13, <2>1 DEF RemoveNextThread, TypeOK
<1>14. CASE Terminate
  BY <1>1, <1>14, ZenonT(60) DEF Terminate, TypeOK
<1>15. CASE StopCall
  BY <1>1, <1>15 DEF StopCall, TypeOK
<1>16. CASE StopJoined
  BY <1>1, <1>16 DEF StopJoined, TypeOK
<1> QED BY <1>4, <1>5, <1>6, <1>7, <1>8, <1>9, <1>10, <1>11, <1>12, <1>13, <1>14, <1>15, <1>16

\* The steps of the output thread on a batch keep the types.
LEMMA TypeBatch ==
    ASSUME IInv,
           \/ OutPost \/ OutEarlyPush \/ OutEarlyEnd
           \/ OutBegin \/ (\E f \in Verdicts : OutEnd(f)) \/ OutOwnEnd
           \/ OutJoin \/ OutRest \/ (\E f \in Verdicts : OutSerial(f)) \/ OutRelease
    PROVE  TypeOK'
<1> USE DEF endVars, ringVars, sizeVars, workVars, anVars, passVars
<1>1. TypeOK /\ PhaseInv /\ SlotsInv /\ AnalysisInv
  BY DEF IInv
<1>2. MaxThreads \in Nat /\ BatchLength \in Nat \ {0} /\ n \in 0..MaxThreads
  BY <1>1, OutThreadAssumption DEF TypeOK
<1>3. CASE OutPost
  <2>1. k \in Threads /\ k \in 1..n /\ k + 1 \in 0..MaxThreads + 1
    BY <1>1, <1>2, <1>3, Types DEF Threads, PhaseInv, OutPost
  <2>2. data' \in [Threads -> [start : Nat, end : Nat, skip : Nat, index : Nat, batch : BOOLEAN]]
    <3>1. Share(k) \in [start : Nat, end : Nat, skip : Nat, index : Nat, batch : BOOLEAN]
      BY <1>1, <2>1, ShareType
    <3> QED BY <1>1, <1>3, <3>1 DEF OutPost, TypeOK
  <2>3. processing' \in [Threads -> BOOLEAN]
    BY <1>1, <1>3 DEF OutPost, TypeOK
  <2>4. ready' \in [Threads -> BOOLEAN]
    BY <1>1, <1>3 DEF OutPost, TypeOK
  <2>5. semWork' \in [Threads -> Nat]
    <3>1. semWork \in [Threads -> Nat]
      BY <1>1 DEF TypeOK
    <3>2. semWork[k] + 1 \in Nat
      BY <2>1, <3>1
    <3>3. semWork' = [semWork EXCEPT ![k] = semWork[k] + 1] \/ semWork' = semWork
      BY <1>3 DEF OutPost
    <3> QED BY <3>1, <3>2, <3>3
  <2>6. at' \in [{0} \cup Threads -> Nat]
    BY <1>1, <1>3 DEF OutPost, TypeOK
  <2>7. outPc' \in {"post", "early", "own"} /\ k' \in 0..MaxThreads + 1
    BY <1>3, <2>1 DEF OutPost
  <2> QED BY <1>1, <1>3, <2>2, <2>3, <2>4, <2>5, <2>6, <2>7 DEF OutPost, TypeOK
<1>4. CASE OutEarlyPush
  <2>1. Passing /\ completed + 1 \in 1..Count /\ completed \in 0..BatchLength - 1
    <3>1. Passing /\ completed < Count
      BY <1>4 DEF OutEarlyPush, Passing, Sharing
    <3>2. completed \in Nat
      BY <1>1 DEF TypeOK
    <3> QED BY <1>1, <3>1, <3>2, Types
  <2>2. Batch[completed + 1] \in Packets /\ flag[completed] \in {-1, 0, 1}
    BY <1>1, <2>1, BatchItems DEF TypeOK
  <2>3. out' \in Seq(Packets) /\ gone' \subseteq Packets /\ down' \in 0..BatchLength - 1
    BY <1>1, <1>4, <2>2, PassOnTypes DEF OutEarlyPush
  <2>4. completed' \in 0..BatchLength
    BY <1>2, <1>4, <2>1 DEF OutEarlyPush
  <2> QED BY <1>1, <1>4, <2>3, <2>4 DEF OutEarlyPush, TypeOK
<1>5. CASE OutEarlyEnd
  BY <1>1, <1>2, <1>5, SMTT(30) DEF OutEarlyEnd, TypeOK
<1>6. CASE OutBegin
  <2>1. Sharing /\ 0 \in Sharers \cap Actors /\ ShareOf(0) = OwnShare
    BY <1>1, <1>6 DEF OutBegin, Sharing, Sharers, Actors, ShareOf, PhaseInv
  <2>2. at' \in [Actors -> Nat] /\ busy' \in [Actors -> 0..MaxPackets]
        /\ analysed' = analysed /\ flag' = flag
    BY <1>6, <2>1, BeginTypes DEF OutBegin
  <2> QED BY <1>1, <1>6, <2>2 DEF OutBegin, TypeOK, Actors
<1>7. CASE \E f \in Verdicts : OutEnd(f)
  <2>1. PICK f \in Verdicts : OutEnd(f)
    BY <1>7
  <2>2. /\ at' \in [Actors -> Nat] /\ busy' \in [Actors -> 0..MaxPackets]
        /\ analysed' \subseteq Packets /\ gone' \subseteq Packets
        /\ out' = out /\ down' = down
        /\ f \in {-1, 1} /\ at[0] \in 0..BatchLength - 1
    BY <2>1, EndTypes DEF OutEnd, Actors
  <2>3. flag' \in [0..BatchLength - 1 -> {-1, 0, 1}]
    BY <1>1, <2>1, <2>2 DEF OutEnd, TypeOK
  <2> QED BY <1>1, <2>1, <2>2, <2>3 DEF OutEnd, TypeOK, Actors
<1>8. CASE OutOwnEnd
  BY <1>1, <1>2, <1>8 DEF OutOwnEnd, TypeOK
<1>9. CASE OutJoin
  <2>1. k \in Threads /\ k \in 1..n /\ k + 1 \in 0..MaxThreads + 1
    BY <1>1, <1>2, <1>9, Types DEF Threads, PhaseInv, OutJoin
  <2>2. semDone' \in [Threads -> Nat]
    <3>1. semDone \in [Threads -> Nat]
      BY <1>1 DEF TypeOK
    <3>2. semDone[k] \in Nat
      BY <2>1, <3>1
    <3>3. (semDone[k] > 0 /\ semDone' = [semDone EXCEPT ![k] = semDone[k] - 1]) \/ semDone' = semDone
      BY <1>9 DEF OutJoin
    <3> QED BY <3>1, <3>2, <3>3
  <2>3. outPc' \in {"join", "rest"} /\ k' \in 0..MaxThreads + 1
    BY <1>9, <2>1 DEF OutJoin
  <2> QED BY <1>1, <1>9, <2>2, <2>3 DEF OutJoin, TypeOK
<1>10. CASE OutRest
  <2>1. Passing /\ completed + 1 \in 1..Count /\ completed \in 0..BatchLength - 1
    <3>1. Passing /\ completed < Count
      BY <1>10 DEF OutRest, Passing, Sharing
    <3>2. completed \in Nat
      BY <1>1 DEF TypeOK
    <3> QED BY <1>1, <3>1, <3>2, Types
  <2>2. Batch[completed + 1] \in Packets /\ flag[completed] \in {-1, 0, 1}
    BY <1>1, <2>1, BatchItems DEF TypeOK
  <2>3. out' \in Seq(Packets) /\ gone' \subseteq Packets /\ down' \in 0..BatchLength - 1
    BY <1>1, <1>10, <2>2, PassOnTypes DEF OutRest
  <2>4. completed' \in 0..BatchLength
    BY <1>2, <1>10, <2>1 DEF OutRest
  <2> QED BY <1>1, <1>10, <2>3, <2>4 DEF OutRest, TypeOK
<1>11. CASE \E f \in Verdicts : OutSerial(f)
  <2>0. PICK f \in Verdicts : OutSerial(f)
    BY <1>11
  <2>1. Passing /\ completed + 1 \in 1..Count /\ completed \in 0..BatchLength - 1
    <3>1. Passing /\ completed < Count
      BY <2>0 DEF OutSerial, Passing, Sharing
    <3>2. completed \in Nat
      BY <1>1 DEF TypeOK
    <3> QED BY <1>1, <3>1, <3>2, Types
  <2>2. Batch[completed + 1] \in Packets /\ f \in {-1, 0, 1}
    BY <1>1, <2>1, BatchItems DEF Verdicts
  <2>3. out' \in Seq(Packets) /\ gone' \subseteq Packets /\ down' \in 0..BatchLength - 1
    BY <1>1, <2>0, <2>2, PassOnTypes DEF OutSerial
  <2>4. completed' \in 0..BatchLength
    BY <1>2, <2>0, <2>1 DEF OutSerial
  <2> QED BY <1>1, <2>0, <2>2, <2>3, <2>4 DEF OutSerial, TypeOK
<1>12. CASE OutRelease
  <2>1. readit \in Slots /\ NextSlot(readit) \in Slots
    BY <1>1, SlotTypes DEF TypeOK
  <2>2. Slot(Batch, 0, FALSE) \in [batch : Seq(Packets), count : 0..BatchLength, used : BOOLEAN]
        /\ Slot(Batch, 0, FALSE).batch = Batch
    BY <1>1, <1>2, Types DEF Slot
  <2>3. qring' \in [Slots -> [batch : Seq(Packets), count : 0..BatchLength, used : BOOLEAN]]
        /\ \A s \in Slots : Len(qring'[s].batch) <= BatchLength
    <3>1. qring' = [qring EXCEPT ![readit] = Slot(Batch, 0, FALSE)]
      BY <1>12 DEF OutRelease
    <3>2. \A s \in Slots : Len(qring[s].batch) <= BatchLength
      BY <1>1 DEF TypeOK
    <3>3. Len(Batch) <= BatchLength
      BY <1>1, Types
    <3>4. qring \in [Slots -> [batch : Seq(Packets), count : 0..BatchLength, used : BOOLEAN]]
      BY <1>1 DEF TypeOK
    <3>5. qring' \in [Slots -> [batch : Seq(Packets), count : 0..BatchLength, used : BOOLEAN]]
      BY <2>2, <3>1, <3>4
    <3>6. \A s \in Slots : qring'[s] = IF s = readit THEN Slot(Batch, 0, FALSE) ELSE qring[s]
      BY <3>1, <3>4
    <3> QED BY <2>2, <3>2, <3>3, <3>5, <3>6
  <2>4. completed' \in 0..BatchLength /\ outPc' = "loop" /\ readit' \in Slots
    BY <1>2, <1>12, <2>1 DEF OutRelease
  <2> QED BY <1>1, <1>12, <2>3, <2>4 DEF OutRelease, TypeOK
<1> QED BY <1>3, <1>4, <1>5, <1>6, <1>7, <1>8, <1>9, <1>10, <1>11, <1>12

\* The steps of a next thread keep the types.
LEMMA TypeThread ==
    ASSUME IInv, NEW i \in Threads, NextStep(i)
    PROVE  TypeOK'
<1> USE DEF endVars, ringVars, sizeVars, workVars, anVars, passVars
<1>1. TypeOK
  BY DEF IInv
<1>2. CASE NextStart(i)
  <2>1. nextPc' \in [Threads -> {"none", "start", "head", "wait", "work", "report", "exited"}]
    BY <1>1, <1>2 DEF NextStart, TypeOK
  <2>2. UNCHANGED <<endVars, ringVars, readit, outPc, sizeVars, n, k, completed, data, ready,
                    processing, semWork, semDone, terminate, anVars, passVars>>
    BY <1>2 DEF NextStart
  <2> QED BY <1>1, <2>1, <2>2, ZenonT(60) DEF TypeOK
<1>3. CASE NextHead(i)
  <2>1. nextPc' \in [Threads -> {"none", "start", "head", "wait", "work", "report", "exited"}]
    BY <1>1, <1>3 DEF NextHead, TypeOK
  <2>2. UNCHANGED <<endVars, ringVars, readit, outPc, sizeVars, n, k, completed, data, ready,
                    processing, semWork, semDone, terminate, anVars, passVars>>
    BY <1>3 DEF NextHead
  <2> QED BY <1>1, <2>1, <2>2, ZenonT(60) DEF TypeOK
<1>4. CASE NextWake(i)
  <2>1. nextPc' \in [Threads -> {"none", "start", "head", "wait", "work", "report", "exited"}]
    BY <1>1, <1>4 DEF NextWake, TypeOK
  <2>2. semWork' \in [Threads -> Nat]
    <3>1. semWork \in [Threads -> Nat] /\ semWork[i] \in Nat
      BY <1>1 DEF TypeOK
    <3>2. (semWork[i] > 0 /\ semWork' = [semWork EXCEPT ![i] = semWork[i] - 1]) \/ semWork' = semWork
      BY <1>4 DEF NextWake
    <3> QED BY <3>1, <3>2
  <2>3. ready' \in [Threads -> BOOLEAN]
    BY <1>1, <1>4 DEF NextWake, TypeOK
  <2>4. at' \in [{0} \cup Threads -> Nat]
    BY <1>1, <1>4 DEF NextWake, TypeOK
  <2>5. UNCHANGED <<endVars, ringVars, readit, outPc, sizeVars, n, k, completed, data,
                    processing, semDone, terminate, busy, analysed, flag, passVars>>
    BY <1>4 DEF NextWake
  <2> QED BY <1>1, <2>1, <2>2, <2>3, <2>4, <2>5, ZenonT(60) DEF TypeOK
<1>5. CASE NextBegin(i)
  <2>1. Sharing /\ i \in Sharers \cap Actors /\ ShareOf(i) = data[i]
    BY <1>5, WorkerShares DEF NextBegin, Actors
  <2>2. at' \in [Actors -> Nat] /\ busy' \in [Actors -> 0..MaxPackets]
        /\ analysed' = analysed /\ flag' = flag
    BY <1>5, <2>1, BeginTypes DEF NextBegin
  <2>3. UNCHANGED <<endVars, ringVars, readit, outPc, sizeVars, n, k, completed, workVars,
                    passVars>>
    BY <1>5 DEF NextBegin
  <2>4. at' \in [{0} \cup Threads -> Nat] /\ busy' \in [{0} \cup Threads -> 0..MaxPackets]
    BY <2>2 DEF Actors
  <2>5. UNCHANGED <<analysed, flag>>
    BY <2>2
  <2> QED BY <1>1, <2>3, <2>4, <2>5, ZenonT(60) DEF TypeOK
<1>6. CASE \E f \in Verdicts : NextEnd(i, f)
  <2>1. PICK f \in Verdicts : NextEnd(i, f)
    BY <1>6
  <2>2. /\ at' \in [Actors -> Nat] /\ busy' \in [Actors -> 0..MaxPackets]
        /\ analysed' \subseteq Packets /\ gone' \subseteq Packets
        /\ out' = out /\ down' = down
        /\ f \in {-1, 1} /\ at[i] \in 0..BatchLength - 1
    BY <2>1, EndTypes DEF NextEnd, Actors
  <2>3. flag' \in [0..BatchLength - 1 -> {-1, 0, 1}]
    BY <1>1, <2>1, <2>2 DEF NextEnd, TypeOK
  <2>4. UNCHANGED <<endVars, ringVars, readit, outPc, sizeVars, n, k, completed, workVars>>
    BY <2>1 DEF NextEnd
  <2> QED BY <1>1, <2>2, <2>3, <2>4, ZenonT(60) DEF TypeOK, Actors
<1>7. CASE NextDone(i)
  <2>1. nextPc' \in [Threads -> {"none", "start", "head", "wait", "work", "report", "exited"}]
    BY <1>1, <1>7 DEF NextDone, TypeOK
  <2>2. processing' \in [Threads -> BOOLEAN]
    BY <1>1, <1>7 DEF NextDone, TypeOK
  <2> QED BY <1>1, <1>7, <2>1, <2>2, ZenonT(60) DEF NextDone, TypeOK
<1>8. CASE NextReport(i)
  <2>1. nextPc' \in [Threads -> {"none", "start", "head", "wait", "work", "report", "exited"}]
    BY <1>1, <1>8 DEF NextReport, TypeOK
  <2>2. semDone' \in [Threads -> Nat]
    <3>0. semDone \in [Threads -> Nat]
      BY <1>1 DEF TypeOK
    <3>1. semDone \in [Threads -> Nat] /\ semDone[i] + 1 \in Nat
      BY <3>0
    <3>2. semDone' = [semDone EXCEPT ![i] = semDone[i] + 1]
      BY <1>8 DEF NextReport
    <3> QED BY <3>1, <3>2
  <2> QED BY <1>1, <1>8, <2>1, <2>2, ZenonT(60) DEF NextReport, TypeOK
<1> QED BY <1>2, <1>3, <1>4, <1>5, <1>6, <1>7, <1>8 DEF NextStep

\* The destructor keeps the types.
LEMMA TypeDelete ==
    ASSUME IInv, Delete
    PROVE  TypeOK'
<1> USE DEF endVars, ringVars, sizeVars, workVars, anVars, passVars
<1>1. TypeOK
  BY DEF IInv
<1>2. qring' \in [Slots -> [batch : Seq(Packets), count : 0..BatchLength, used : BOOLEAN]]
      /\ \A s \in Slots : Len(qring'[s].batch) <= BatchLength
  BY OutThreadAssumption DEF Delete, Slot
<1>3. gone' \subseteq Packets
  <2>1. \A s \in Slots : \A j \in 1..qring[s].count : qring[s].batch[j] \in Packets
    BY <1>1, Types DEF IInv, SlotsInv
  <2> QED BY <1>1, <2>1 DEF Delete, TypeOK
<1> QED BY <1>1, <1>2, <1>3 DEF Delete, TypeOK

\* Every step keeps the types.
LEMMA TypeNext ==
    ASSUME IInv, [Next]_vars
    PROVE  TypeOK'
<1>1. CASE Next
  BY <1>1, TypePush, TypeControl, TypeBatch, TypeThread, TypeDelete DEF Next, OutStep
<1>2. CASE UNCHANGED vars
  <2>1. UNCHANGED <<endVars, ringVars, readit, outPc, sizeVars, n, k, completed, workVars,
                    anVars, passVars>>
    BY <1>2 DEF vars
  <2>2. TypeOK
    BY DEF IInv
  <2> QED BY <2>1, <2>2, ZenonT(60)
          DEF TypeOK, endVars, ringVars, sizeVars, workVars, anVars, passVars
<1> QED BY <1>1, <1>2

-----------------------------------------------------------------------------
(* Where the output thread is. *)

\* Every step keeps the counters of the output thread in step with its place.
LEMMA PhaseNext ==
    ASSUME IInv, [Next]_vars
    PROVE  PhaseInv'
<1> USE DEF endVars, ringVars, sizeVars, workVars, anVars, passVars
<1>1. PhaseInv /\ n \in Nat /\ k \in Nat /\ nThreads \in 0..MaxThreads /\ MaxThreads \in Nat
  BY Types, OutThreadAssumption DEF IInv, TypeOK
<1>2. CASE UNCHANGED <<outPc, nThreads, n, k, stop>>
  BY <1>1, <1>2 DEF PhaseInv, Sharing
<1>3. CASE OutExit
  BY <1>1, <1>3 DEF PhaseInv, Sharing, OutExit
<1>4. CASE OutCreate
  BY <1>1, <1>4 DEF PhaseInv, Sharing, OutCreate
<1>5. CASE OutCreated
  BY <1>1, <1>5 DEF PhaseInv, Sharing, OutCreated
<1>6. CASE OutTerm
  BY <1>1, <1>6 DEF PhaseInv, Sharing, OutTerm, MayRemove
<1>7. CASE OutTermJoined
  BY <1>1, <1>7 DEF PhaseInv, Sharing, OutTermJoined
<1>8. CASE OutIdle \/ OutIdlePushBatch
  BY <1>1, <1>8 DEF PhaseInv, Sharing, OutIdle, OutIdlePushBatch, Looking
<1>9. CASE OutTake
  BY <1>1, <1>9 DEF PhaseInv, Sharing, OutTake, Looking
<1>10. CASE OutPost
  BY <1>1, <1>10 DEF PhaseInv, Sharing, OutPost
<1>11. CASE OutEarlyEnd
  BY <1>1, <1>11 DEF PhaseInv, Sharing, OutEarlyEnd
<1>12. CASE OutOwnEnd
  BY <1>1, <1>12 DEF PhaseInv, Sharing, OutOwnEnd
<1>13. CASE OutJoin
  BY <1>1, <1>13 DEF PhaseInv, Sharing, OutJoin
<1>14. CASE OutRelease
  BY <1>1, <1>14 DEF PhaseInv, Sharing, OutRelease
<1>15. CASE StopCall \/ StopJoined \/ Delete
  BY <1>1, <1>15 DEF PhaseInv, Sharing, StopCall, StopJoined, Delete
<1>16. (\E late \in BOOLEAN : Push(late)) \/ PushTerminating \/ PushBatch
        \/ OutEarlyPush \/ OutBegin \/ (\E f \in Verdicts : OutEnd(f)) \/ OutRest
        \/ (\E f \in Verdicts : OutSerial(f)) \/ (\E i \in Threads : NextStep(i))
        \/ AddNextThread \/ RemoveNextThread \/ Terminate \/ UNCHANGED vars
        => UNCHANGED <<outPc, nThreads, n, k, stop>>
  BY DEF Push, PushTerminating, PushBatch, OutEarlyPush, OutBegin, OutEnd, OutRest, OutSerial,
         NextStep, NextStart, NextHead, NextWake, NextBegin, NextEnd, NextDone, NextReport,
         AddNextThread, RemoveNextThread, Terminate, vars
<1> QED BY <1>2, <1>3, <1>4, <1>5, <1>6, <1>7, <1>8, <1>9, <1>10, <1>11, <1>12, <1>13, <1>14,
           <1>15, <1>16 DEF Next, OutStep

-----------------------------------------------------------------------------
(* What the next threads do. *)

\* The state of a next thread fits what the output thread does.
Fits(i) ==
    /\ Posted(i) => Assigned(i) \/ Working(i) \/ Finished(i)
    /\ ~Posted(i) => Idle(i) \/ Leaving(i)

\* A step that neither touches thread i nor changes what is expected of it.
LEMMA FitsKept ==
    ASSUME NEW i \in Threads, Fits(i), conf' = conf,
           ready'[i] = ready[i], processing'[i] = processing[i], semWork'[i] = semWork[i],
           semDone'[i] = semDone[i], nextPc'[i] = nextPc[i], terminate'[i] = terminate[i],
           Posted(i)' <=> Posted(i), outPc = "joined" => outPc' = outPc /\ nThreads' = nThreads
    PROVE  Fits(i)'
  BY DEF Fits, Assigned, Working, Finished, Idle, Leaving

\* Steps of the output thread that touch no next thread.
LEMMA FitsAway ==
    ASSUME IInv, NEW i \in Threads, UNCHANGED <<workVars, conf>>,
           \/ UNCHANGED <<outPc, n, k, nThreads>>
           \/ OutExit \/ OutCreated \/ OutIdle \/ OutIdlePushBatch \/ OutTake \/ OutRelease
    PROVE  Fits(i)'
<1>1. Fits(i) /\ i \in Nat /\ i > 0
  BY OutThreadAssumption DEF IInv, ThreadsInv, Fits, Threads
<1>2. CASE UNCHANGED <<outPc, n, k, nThreads>>
  BY <1>1, <1>2, FitsKept DEF workVars, Posted
<1>3. CASE OutExit \/ OutCreated \/ OutIdle \/ OutIdlePushBatch \/ OutTake \/ OutRelease
  <2>1. ~Posted(i) /\ outPc # "joined"
    BY <1>3 DEF OutExit, OutCreated, OutIdle, OutIdlePushBatch, OutTake, OutRelease, Looking, Posted
  <2>2. ~Posted(i)'
    <3>1. outPc' \in {"done", "batch", "loop", "serial"} \/ (outPc' = "post" /\ k' = 1)
      BY <1>3 DEF OutExit, OutCreated, OutIdle, OutIdlePushBatch, OutTake, OutRelease
    <3> QED BY <1>1, <3>1 DEF Posted
  <2> QED BY <1>1, <2>1, <2>2, FitsKept DEF workVars
<1> QED BY <1>2, <1>3

\* Steps that create or remove a next thread.
LEMMA FitsResize ==
    ASSUME IInv, NEW i \in Threads, OutCreate \/ OutTerm \/ OutTermJoined
    PROVE  Fits(i)'
<1> USE DEF endVars, ringVars, sizeVars, workVars
<1>1. Fits(i) /\ i \in Nat /\ i > 0 /\ nThreads \in 0..MaxThreads /\ MaxThreads \in Nat
  BY OutThreadAssumption DEF IInv, ThreadsInv, Fits, Threads, TypeOK
<1>2. /\ ready \in [Threads -> BOOLEAN] /\ processing \in [Threads -> BOOLEAN]
      /\ semWork \in [Threads -> Nat] /\ semDone \in [Threads -> Nat]
      /\ terminate \in [Threads -> BOOLEAN]
      /\ nextPc \in [Threads -> {"none", "start", "head", "wait", "work", "report", "exited"}]
  BY DEF IInv, TypeOK
<1>3. ~Posted(i) /\ ~Posted(i)' /\ conf' = conf
  BY DEF OutCreate, OutTerm, OutTermJoined, Posted
<1>4. CASE OutCreate
  <2>1. Idle(i)
    BY <1>1, <1>3, <1>4 DEF Fits, OutCreate, Leaving
  <2>2. CASE nThreads < MaxThreads /\ i = nThreads + 1
    <3>1. /\ ready'[i] = FALSE /\ processing'[i] = FALSE /\ semWork'[i] = 0 /\ semDone'[i] = 0
          /\ nextPc'[i] = "start"
      BY <1>2, <1>4, <2>2 DEF OutCreate
    <3> QED BY <1>3, <3>1 DEF Fits, Idle
  <2>3. CASE ~(nThreads < MaxThreads /\ i = nThreads + 1)
    <3>1. /\ ready'[i] = ready[i] /\ processing'[i] = processing[i] /\ semWork'[i] = semWork[i]
          /\ semDone'[i] = semDone[i] /\ nextPc'[i] = nextPc[i]
      BY <1>1, <1>2, <1>4, <2>3 DEF OutCreate
    <3> QED BY <1>3, <2>1, <3>1 DEF Fits, Idle
  <2> QED BY <2>2, <2>3
<1>5. CASE OutTerm
  <2>1. Idle(i)
    BY <1>1, <1>3, <1>5 DEF Fits, OutTerm, Leaving
  <2>2. CASE MayRemove /\ i = nThreads
    <3>1. /\ ready'[i] = ready[i] /\ processing'[i] = processing[i] /\ semDone'[i] = semDone[i]
          /\ nextPc'[i] = nextPc[i] /\ terminate'[i] = TRUE /\ outPc' = "joined"
          /\ nThreads' = nThreads - 1
      BY <1>2, <1>5, <2>2 DEF OutTerm
    <3> QED BY <1>1, <1>3, <2>1, <2>2, <3>1 DEF Fits, Idle, Leaving
  <2>3. CASE ~(MayRemove /\ i = nThreads)
    <3>1. /\ ready'[i] = ready[i] /\ processing'[i] = processing[i] /\ semDone'[i] = semDone[i]
          /\ nextPc'[i] = nextPc[i] /\ semWork'[i] = semWork[i]
      BY <1>1, <1>2, <1>5, <2>3 DEF OutTerm
    <3> QED BY <1>3, <2>1, <3>1 DEF Fits, Idle
  <2> QED BY <2>2, <2>3
<1>6. CASE OutTermJoined
  <2>1. CASE i = nThreads + 1
    <3>1. /\ ready'[i] = FALSE /\ processing'[i] = FALSE /\ semWork'[i] = 0 /\ semDone'[i] = 0
          /\ nextPc'[i] = "none"
      BY <1>2, <1>6, <2>1 DEF OutTermJoined
    <3> QED BY <1>3, <3>1 DEF Fits, Idle
  <2>2. CASE i # nThreads + 1
    <3>1. Idle(i)
      BY <1>1, <1>3, <2>2 DEF Fits, Leaving
    <3>2. /\ ready'[i] = ready[i] /\ processing'[i] = processing[i] /\ semWork'[i] = semWork[i]
          /\ semDone'[i] = semDone[i] /\ nextPc'[i] = nextPc[i]
      BY <1>2, <1>6, <2>2 DEF OutTermJoined
    <3> QED BY <1>3, <3>1, <3>2 DEF Fits, Idle
  <2> QED BY <2>1, <2>2
<1> QED BY <1>4, <1>5, <1>6

\* Steps that hand out the shares and await them.
LEMMA FitsShare ==
    ASSUME IInv, NEW i \in Threads, OutPost \/ OutEarlyEnd \/ OutOwnEnd \/ OutJoin
    PROVE  Fits(i)'
<1> USE DEF endVars, ringVars, sizeVars, workVars
<1>1. /\ Fits(i) /\ i \in Nat /\ i > 0 /\ n \in Nat /\ k \in Nat /\ PhaseInv
      /\ conf.semSync \in 0..2
  BY OutThreadAssumption, Types DEF IInv, ThreadsInv, Fits, Threads, ConfType
<1>2. /\ ready \in [Threads -> BOOLEAN] /\ processing \in [Threads -> BOOLEAN]
      /\ semWork \in [Threads -> Nat] /\ semDone \in [Threads -> Nat]
  BY DEF IInv, TypeOK
<1>3. CASE OutPost
  <2>1. /\ 1 <= k /\ k <= n /\ conf' = conf /\ nextPc' = nextPc /\ terminate' = terminate
        /\ n' = n /\ k' = k + 1
    BY <1>1, <1>3 DEF OutPost, PhaseInv
  <2>2. Posted(i)' <=> i <= k
    BY <1>1, <1>3, <2>1 DEF OutPost, Posted
  <2>3. Posted(i) <=> i < k
    BY <1>3 DEF OutPost, Posted
  <2>4. CASE i = k
    <3>1. Idle(i)
      BY <1>1, <1>3, <2>3, <2>4 DEF Fits, Leaving, OutPost
    <3>2. /\ processing'[i] = TRUE /\ semDone'[i] = semDone[i]
          /\ \/ conf.semSync = 0 /\ ready'[i] = TRUE /\ semWork'[i] = semWork[i]
             \/ conf.semSync # 0 /\ ready'[i] = ready[i] /\ semWork'[i] = semWork[i] + 1
      BY <1>2, <1>3, <2>4 DEF OutPost
    <3> QED BY <2>1, <2>2, <2>4, <3>1, <3>2, <1>1 DEF Fits, Idle, Assigned
  <2>5. CASE i # k
    <3>1. /\ ready'[i] = ready[i] /\ processing'[i] = processing[i] /\ semWork'[i] = semWork[i]
          /\ semDone'[i] = semDone[i]
      BY <1>2, <1>3, <2>5 DEF OutPost
    <3>2. Posted(i)' <=> Posted(i)
      BY <1>1, <2>2, <2>3, <2>5
    <3>3. outPc # "joined"
      BY <1>3 DEF OutPost
    <3> QED BY <1>1, <2>1, <3>1, <3>2, <3>3, FitsKept
  <2> QED BY <2>4, <2>5
<1>4. CASE OutEarlyEnd \/ OutOwnEnd
  <2>1. Posted(i)' <=> Posted(i)
    BY <1>1, <1>4 DEF Posted, OutEarlyEnd, OutOwnEnd
  <2>2. outPc # "joined" /\ UNCHANGED <<conf, workVars>>
    BY <1>4 DEF OutEarlyEnd, OutOwnEnd
  <2> QED BY <1>1, <2>1, <2>2, FitsKept
<1>5. CASE OutJoin
  <2>1. /\ 1 <= k /\ k <= n /\ conf' = conf /\ nextPc' = nextPc /\ terminate' = terminate
        /\ n' = n /\ k' = k + 1 /\ ready' = ready /\ processing' = processing
        /\ semWork' = semWork /\ outPc # "joined"
    BY <1>1, <1>5 DEF OutJoin, PhaseInv
  <2>2. Posted(i) <=> k <= i /\ i <= n
    BY <1>5 DEF OutJoin, Posted
  <2>3. Posted(i)' <=> k < i /\ i <= n
    BY <1>1, <1>5, <2>1 DEF OutJoin, Posted
  <2>4. CASE i = k
    <3>1. Assigned(i) \/ Working(i) \/ Finished(i)
      BY <1>1, <2>1, <2>2, <2>4 DEF Fits
    <3>2. CASE conf.semSync = 2
      <4>1. semDone[i] > 0 /\ semDone'[i] = semDone[i] - 1
        BY <1>2, <1>5, <2>4, <3>2 DEF OutJoin
      <4>2. Finished(i) /\ semDone[i] = 1
        BY <1>2, <3>1, <4>1 DEF Assigned, Working, Finished
      <4> QED BY <2>1, <2>3, <2>4, <3>2, <4>1, <4>2, <1>1 DEF Fits, Finished, Idle
    <3>3. CASE conf.semSync # 2
      <4>1. ~processing[i] /\ semDone'[i] = semDone[i]
        BY <1>2, <1>5, <2>4, <3>3 DEF OutJoin
      <4>2. Finished(i)
        BY <3>1, <4>1 DEF Assigned, Working
      <4> QED BY <2>1, <2>3, <2>4, <3>3, <4>1, <4>2, <1>1 DEF Fits, Finished, Idle
    <3> QED BY <3>2, <3>3
  <2>5. CASE i # k
    <3>1. semDone'[i] = semDone[i]
      BY <1>2, <1>5, <2>5 DEF OutJoin
    <3>2. Posted(i)' <=> Posted(i)
      BY <1>1, <2>2, <2>3, <2>5
    <3> QED BY <1>1, <2>1, <3>1, <3>2, FitsKept
  <2> QED BY <2>4, <2>5
<1> QED BY <1>3, <1>4, <1>5

\* Steps of the next threads.
LEMMA FitsThread ==
    ASSUME IInv, NEW i \in Threads, NEW t \in Threads, NextStep(t)
    PROVE  Fits(i)'
<1> USE DEF endVars, ringVars, sizeVars, workVars
<1>1. Fits(i) /\ i \in Nat /\ conf.semSync \in 0..2
  BY OutThreadAssumption, Types DEF IInv, ThreadsInv, Fits, Threads, ConfType
<1>2. /\ ready \in [Threads -> BOOLEAN] /\ processing \in [Threads -> BOOLEAN]
      /\ semWork \in [Threads -> Nat] /\ semDone \in [Threads -> Nat]
      /\ nextPc \in [Threads -> {"none", "start", "head", "wait", "work", "report", "exited"}]
  BY DEF IInv, TypeOK
<1>3. UNCHANGED <<conf, outPc, n, k, nThreads, terminate>>
  BY DEF NextStep, NextStart, NextHead, NextWake, NextBegin, NextEnd, NextDone, NextReport
<1>4. Posted(i)' <=> Posted(i)
  BY <1>3 DEF Posted
<1>5. CASE i # t
  <2>1. /\ ready'[i] = ready[i] /\ processing'[i] = processing[i] /\ semWork'[i] = semWork[i]
        /\ semDone'[i] = semDone[i] /\ nextPc'[i] = nextPc[i]
    BY <1>2, <1>5
       DEF NextStep, NextStart, NextHead, NextWake, NextBegin, NextEnd, NextDone, NextReport
  <2> QED BY <1>1, <1>3, <1>4, <2>1, FitsKept
<1>6. CASE i = t
  <2>1. CASE NextStart(i) \/ NextHead(i)
    <3>1. /\ nextPc[i] \in {"start", "head"} /\ nextPc'[i] \in {"head", "wait", "exited"}
          /\ UNCHANGED <<ready, processing, semWork, semDone>>
      BY <1>2, <2>1 DEF NextStart, NextHead
    <3> QED BY <1>1, <1>3, <1>4, <3>1 DEF Fits, Assigned, Working, Finished, Idle, Leaving
  <2>2. CASE NextWake(i)
    <3>1. nextPc[i] = "wait" /\ UNCHANGED <<processing, semDone>>
      BY <2>2 DEF NextWake
    <3>2. CASE conf.semSync # 0
      <4>1. semWork[i] > 0 /\ semWork'[i] = semWork[i] - 1 /\ ready' = ready
        BY <1>2, <2>2, <3>2 DEF NextWake
      <4>2. Assigned(i) \/ Leaving(i)
        BY <1>1, <1>2, <4>1 DEF Fits, Working, Finished, Idle
      <4>3. CASE Assigned(i)
        <5>1. Posted(i) /\ data[i].batch
          <6>1. Posted(i) /\ data[i] = Share(i)
            BY <1>1, <4>3 DEF Assigned, Fits, Idle, Leaving, IInv, ThreadsInv
          <6>2. i \in 1..n
            BY <1>1, <6>1, Types DEF Posted, IInv, PhaseInv, Threads
          <6> QED BY <6>1, <6>2, ShareType DEF IInv
        <5>2. nextPc'[i] \in {"work", "exited"}
          BY <1>2, <2>2, <5>1 DEF NextWake
        <5>3. Working(i)'
          BY <1>2, <3>1, <3>2, <4>1, <4>3, <5>2 DEF Assigned, Working
        <5> QED BY <1>4, <5>1, <5>3 DEF Fits
      <4>4. CASE Leaving(i)
        <5>1. nextPc'[i] = "exited"
          BY <1>2, <2>2, <4>4 DEF NextWake, Leaving
        <5>2. ~Posted(i)
          BY <4>4 DEF Leaving, Posted
        <5> QED BY <1>3, <1>4, <3>1, <4>1, <4>4, <5>1, <5>2 DEF Fits, Leaving
      <4> QED BY <4>2, <4>3, <4>4
    <3>3. CASE conf.semSync = 0
      <4>1. /\ terminatingThread \/ ready[i] \/ terminate[i]
            /\ ready'[i] = FALSE /\ semWork' = semWork
        BY <1>2, <2>2, <3>3 DEF NextWake
      <4>2. CASE Assigned(i)
        <5>1. Posted(i) /\ data[i].batch
          <6>1. Posted(i) /\ data[i] = Share(i)
            BY <1>1, <4>2 DEF Assigned, Fits, Idle, Leaving, IInv, ThreadsInv
          <6>2. i \in 1..n
            BY <1>1, <6>1, Types DEF Posted, IInv, PhaseInv, Threads
          <6> QED BY <6>1, <6>2, ShareType DEF IInv
        <5>2. nextPc'[i] \in {"work", "exited"}
          BY <1>2, <2>2, <5>1 DEF NextWake
        <5>3. Working(i)'
          BY <1>2, <3>1, <3>3, <4>1, <4>2, <5>2 DEF Assigned, Working
        <5> QED BY <1>4, <5>1, <5>3 DEF Fits
      <4>3. CASE ~Assigned(i)
        <5>1. ~ready[i]
          BY <1>1, <4>3 DEF Fits, Working, Finished, Idle, Leaving
        <5>2. nextPc'[i] = "exited"
          BY <1>2, <2>2, <4>1, <5>1 DEF NextWake
        <5>3. ~Working(i)
          BY <3>1 DEF Working
        <5> QED BY <1>1, <1>3, <1>4, <3>1, <3>3, <4>1, <4>3, <5>1, <5>2, <5>3
                DEF Fits, Finished, Idle, Leaving
      <4> QED BY <4>2, <4>3
    <3> QED BY <3>2, <3>3
  <2>3. CASE NextBegin(i) \/ \E f \in Verdicts : NextEnd(i, f)
    <3>1. UNCHANGED workVars
      BY <2>3 DEF NextBegin, NextEnd
    <3> QED BY <1>1, <1>3, <1>4, <3>1, FitsKept
  <2>4. CASE NextDone(i)
    <3>1. nextPc[i] = "work" /\ UNCHANGED <<ready, semWork, semDone>> /\ processing'[i] = FALSE
          /\ nextPc'[i] = IF conf.semSync = 2 THEN "report" ELSE "head"
      BY <1>2, <2>4 DEF NextDone
    <3>2. Posted(i) /\ Working(i)
      BY <3>1, WorkerShares
    <3> QED BY <1>1, <1>3, <1>4, <3>1, <3>2 DEF Fits, Working, Finished
  <2>5. CASE NextReport(i)
    <3>1. nextPc[i] = "report" /\ UNCHANGED <<ready, semWork, processing>>
          /\ nextPc'[i] = "head" /\ semDone'[i] = semDone[i] + 1
      BY <1>2, <2>5 DEF NextReport
    <3>2. Posted(i) /\ Finished(i)
      BY <1>1, <3>1 DEF Fits, Assigned, Working, Idle, Leaving
    <3> QED BY <1>1, <1>3, <1>4, <3>1, <3>2 DEF Fits, Finished
  <2> QED BY <1>6, <2>1, <2>2, <2>3, <2>4, <2>5 DEF NextStep
<1> QED BY <1>5, <1>6

\* Every step keeps the next threads in step with the output thread.
LEMMA FitsNext ==
    ASSUME IInv, [Next]_vars, NEW i \in Threads
    PROVE  Fits(i)'
<1> USE DEF endVars, ringVars, sizeVars, workVars
<1>1. (\E late \in BOOLEAN : Push(late)) \/ PushTerminating \/ PushBatch
        \/ OutEarlyPush \/ OutBegin \/ (\E f \in Verdicts : OutEnd(f)) \/ OutRest
        \/ (\E f \in Verdicts : OutSerial(f)) \/ StopCall \/ StopJoined \/ Delete
        \/ AddNextThread \/ RemoveNextThread \/ Terminate \/ UNCHANGED vars
        => UNCHANGED <<outPc, nThreads, n, k>> /\ UNCHANGED <<workVars, conf>>
  BY DEF Push, PushTerminating, PushBatch, OutEarlyPush, OutBegin, OutEnd, OutRest, OutSerial,
         StopCall, StopJoined, Delete, AddNextThread, RemoveNextThread, Terminate, vars
<1>2. OutExit \/ OutCreated \/ OutIdle \/ OutIdlePushBatch \/ OutTake \/ OutRelease
        => UNCHANGED <<workVars, conf>>
  BY DEF OutExit, OutCreated, OutIdle, OutIdlePushBatch, OutTake, OutRelease
<1> HIDE DEF endVars, ringVars, sizeVars, workVars
<1>3. UNCHANGED <<outPc, nThreads, n, k>> /\ UNCHANGED <<workVars, conf>> => Fits(i)'
  BY FitsAway
<1>4. OutExit \/ OutCreated \/ OutIdle \/ OutIdlePushBatch \/ OutTake \/ OutRelease => Fits(i)'
  BY <1>2, FitsAway
<1> QED BY <1>1, <1>3, <1>4, FitsResize, FitsShare, FitsThread DEF Next, OutStep

-----------------------------------------------------------------------------
(* The slots of the ring. *)

\* How many slots a slot is ahead of readit, and how that changes when a slot is
\* published and when one is given back.
LEMMA AheadFacts ==
    ASSUME NEW r \in Slots, NEW s \in Slots
    PROVE  /\ Ahead(r, s) \in 0..QRingLength - 1
           /\ Ahead(r, s) = 0 <=> s = r
           /\ NextSlot(s) # r => Ahead(r, NextSlot(s)) = Ahead(r, s) + 1
           /\ NextSlot(s) = r => Ahead(r, s) = QRingLength - 1
           /\ s # r => Ahead(NextSlot(r), s) = Ahead(r, s) - 1
           /\ Ahead(NextSlot(r), r) = QRingLength - 1
           /\ \A t \in Slots : Ahead(r, t) = Ahead(r, s) => t = s
  BY OutThreadAssumption DEF Ahead, Slots, NextSlot

\* The ring after the slot writeit was filled with b.
LEMMA SlotSet ==
    ASSUME TypeOK, NEW w \in Slots, NEW b, NEW c, NEW u,
           qring' = [qring EXCEPT ![w] = Slot(b, c, u)]
    PROVE  /\ qring'[w].batch = b /\ qring'[w].count = c /\ qring'[w].used = u
           /\ \A s \in Slots : s # w => qring'[s] = qring[s]
<1>1. qring'[w] = Slot(b, c, u) /\ \A s \in Slots : s # w => qring'[s] = qring[s]
  BY DEF TypeOK
<1> QED BY <1>1 DEF Slot

\* The slot the upstream thread works on is free, and not the one that is read.
LEMMA WriteFree ==
    ASSUME IInv, pushing \/ ~qring[writeit].used
    PROVE  /\ ~qring[writeit].used /\ (Passing => writeit # readit)
           /\ writeit \in Slots /\ readit \in Slots
  BY DEF IInv, SlotsInv, TypeOK

\* Publishing the batch keeps the ring in order.
LEMMA SlotsPublish ==
    ASSUME IInv, TypeOK', stop = "none", ~qring[writeit].used,
           NEW b \in Seq(Packets), Publish(b), UNCHANGED <<readit, stop, outPc, completed>>
    PROVE  SlotsInv'
<1>1. TypeOK /\ SlotsInv
  BY DEF IInv
<1>2. writeit \in Slots /\ readit \in Slots /\ writeit' = NextSlot(writeit) /\ ~pushing'
  BY <1>1 DEF TypeOK, Publish
<1>3. /\ qring'[writeit].count = Len(qring'[writeit].batch) /\ qring'[writeit].used = TRUE
      /\ \A s \in Slots : s # writeit => qring'[s] = qring[s]
  BY <1>1, <1>2, SlotSet, ZenonT(60) DEF Publish
<1>4. Passing' <=> Passing
  BY DEF Passing, Sharing
<1>5. \A s \in Slots : qring[s].used <=> Ahead(readit, s) < Ahead(readit, writeit)
  BY <1>1 DEF SlotsInv
<1>6. QRingLength \in Nat /\ NextSlot(writeit) \in Slots
  BY <1>2, SlotTypes
<1>7. CASE NextSlot(writeit) = readit
  <2>1. Ahead(readit, writeit) = QRingLength - 1
    BY <1>2, <1>7, AheadFacts
  <2>2. \A s \in Slots : s # writeit => Ahead(readit, s) < QRingLength - 1
    BY <1>2, <1>6, <2>1, AheadFacts
  <2>3. \A s \in Slots : qring'[s].used
    BY <1>2, <1>3, <1>5, <2>1, <2>2
  <2> QED BY <1>1, <1>2, <1>3, <1>4, <1>7, <2>3 DEF SlotsInv, Count
<1>8. CASE NextSlot(writeit) # readit
  <2>1. Ahead(readit, NextSlot(writeit)) = Ahead(readit, writeit) + 1
    BY <1>2, <1>8, AheadFacts
  <2>2. \A s \in Slots : Ahead(readit, s) \in Nat
    BY <1>2, <1>6, AheadFacts
  <2>3. NextSlot(writeit) # writeit
    BY <1>2, <2>1, <2>2
  <2>4. ~qring'[NextSlot(writeit)].used
    BY <1>2, <1>3, <1>5, <1>6, <2>1, <2>2, <2>3
  <2>5. \A s \in Slots : qring'[s].used <=> Ahead(readit, s) < Ahead(readit, writeit) + 1
    BY <1>2, <1>3, <1>5, <2>2, AheadFacts, SMTT(30)
  <2>6. Passing => writeit # readit
    BY <1>1 DEF SlotsInv
  <2> QED BY <1>1, <1>2, <1>3, <1>4, <2>1, <2>4, <2>5, <2>6 DEF SlotsInv, Count
<1> QED BY <1>7, <1>8

\* Every step keeps the ring in order.
LEMMA SlotsNext ==
    ASSUME IInv, [Next]_vars
    PROVE  SlotsInv'
<1> USE DEF endVars, ringVars, sizeVars, workVars, anVars, passVars
<1>1. TypeOK /\ SlotsInv /\ TypeOK' /\ PhaseInv
  BY TypeNext DEF IInv
<1>2. /\ readit \in Slots /\ writeit \in Slots /\ completed \in Nat /\ Count \in Nat
      /\ QRingLength \in Nat
  <2>1. readit \in Slots /\ writeit \in Slots /\ completed \in Nat
    BY <1>1 DEF TypeOK
  <2>2. Count \in Nat
    BY <1>1, Types
  <2> QED BY <2>1, <2>2, SlotTypes
<1>3. ASSUME UNCHANGED <<qring, writeit, readit, pushing>>, stop' = "deleted" <=> stop = "deleted",
             Passing' => qring[readit].used /\ completed' <= Count, ~Passing' => completed' = 0
      PROVE  SlotsInv'
  BY <1>1, <1>3 DEF SlotsInv, Count
<1>4. CASE UNCHANGED <<qring, writeit, readit, pushing, completed, outPc>> /\ ~Delete
  <2>1. stop' = "deleted" <=> stop = "deleted"
    BY <1>4 DEF Next, Push, PushTerminating, PushBatch, OutStep, OutExit, OutCreate, OutCreated,
         OutTerm, OutTermJoined, OutIdle, OutTake, OutPost, OutEarlyPush, OutEarlyEnd, OutBegin,
         OutEnd, OutOwnEnd, OutJoin, OutRest, OutSerial, OutRelease, OutIdlePushBatch, NextStep,
         NextStart, NextHead, NextWake, NextBegin, NextEnd, NextDone, NextReport,
         AddNextThread, RemoveNextThread, Terminate, StopCall, StopJoined, vars
  <2> QED BY <1>1, <1>3, <1>4, <2>1 DEF SlotsInv, Passing, Sharing
<1>5. CASE OutExit \/ OutCreate \/ OutCreated \/ OutTerm \/ OutTermJoined \/ OutIdle
           \/ OutIdlePushBatch
  <2>1. /\ UNCHANGED <<qring, writeit, readit, pushing, stop, completed>>
        /\ ~Passing /\ ~Passing'
    BY <1>5 DEF OutExit, OutCreate, OutCreated, OutTerm, OutTermJoined, OutIdle,
                OutIdlePushBatch, Looking, Passing, Sharing
  <2> QED BY <1>1, <1>3, <2>1 DEF SlotsInv
<1>6. CASE OutTake
  <2>1. /\ UNCHANGED <<qring, writeit, readit, pushing, stop>>
        /\ Passing' /\ qring[readit].used /\ completed' = 0
    BY <1>6 DEF OutTake, Passing, Sharing
  <2> QED BY <1>2, <1>3, <2>1
<1>7. CASE OutPost \/ OutEarlyEnd \/ OutOwnEnd \/ OutJoin
  <2>1. /\ UNCHANGED <<qring, writeit, readit, pushing, stop, completed>>
        /\ Passing /\ Passing'
    BY <1>7 DEF OutPost, OutEarlyEnd, OutOwnEnd, OutJoin, Passing, Sharing
  <2> QED BY <1>1, <1>3, <2>1 DEF SlotsInv
<1>8. CASE OutEarlyPush \/ OutRest \/ \E f \in Verdicts : OutSerial(f)
  <2>1. /\ UNCHANGED <<qring, writeit, readit, pushing, stop>>
        /\ Passing /\ Passing' /\ completed < Count /\ completed' = completed + 1
    BY <1>8 DEF OutEarlyPush, OutRest, OutSerial, Passing, Sharing
  <2>2. qring[readit].used /\ completed' <= Count
    BY <1>1, <1>2, <2>1 DEF SlotsInv
  <2> QED BY <1>3, <2>1, <2>2
<1>9. CASE \E late \in BOOLEAN : Push(late)
  <2>1. PICK late \in BOOLEAN : Push(late)
    BY <1>9
  <2>2. PICK b : b = Append(IF pushing THEN qring[writeit].batch ELSE <<>>, arrived + 1)
    OBVIOUS
  <2>3. /\ stop = "none" /\ ~qring[writeit].used /\ UNCHANGED <<readit, stop, outPc, completed>>
        /\ (Passing => writeit # readit)
    BY <2>1, WriteFree DEF Push
  <2>4. CASE Publish(b)
    <3>1. b \in Seq(Packets)
      <4>1. qring'[writeit].batch = b
        BY <1>1, <1>2, <2>4, SlotSet DEF Publish
      <4> QED BY <1>1, <1>2, <4>1 DEF TypeOK
    <3> QED BY <1>1, <2>3, <2>4, <3>1, SlotsPublish
  <2>5. CASE /\ qring' = [qring EXCEPT ![writeit] =
                              Slot(b, qring[writeit].count, qring[writeit].used)]
             /\ pushing' = TRUE /\ UNCHANGED writeit /\ Len(b) # BatchLength
    <3>1. /\ qring'[writeit].batch = b /\ qring'[writeit].count = qring[writeit].count
          /\ qring'[writeit].used = qring[writeit].used
          /\ \A s \in Slots : s # writeit => qring'[s] = qring[s]
      <4>1. PICK c : c = qring[writeit].count
        OBVIOUS
      <4>2. PICK u : u = qring[writeit].used
        OBVIOUS
      <4>3. PICK w \in Slots : w = writeit
        BY <1>2
      <4>4. qring' = [qring EXCEPT ![w] = Slot(b, c, u)]
        BY <2>5, <4>1, <4>2, <4>3
      <4>5. /\ qring'[w].batch = b /\ qring'[w].count = c /\ qring'[w].used = u
            /\ \A s \in Slots : s # w => qring'[s] = qring[s]
        BY <1>1, <4>4, SlotSet
      <4> QED BY <4>1, <4>2, <4>3, <4>5
    <3>2. Len(b) < BatchLength
      <4>1. Len(qring'[writeit].batch) <= BatchLength /\ Len(qring'[writeit].batch) \in Nat
        <5>1. qring'[writeit].batch \in Seq(Packets) /\ Len(qring'[writeit].batch) <= BatchLength
          BY <1>1, <1>2 DEF TypeOK
        <5> QED BY <5>1
      <4> QED BY <2>5, <3>1, <4>1, OutThreadAssumption
    <3>3. \A s \in Slots : qring'[s].used = qring[s].used /\ qring'[s].count = qring[s].count
      BY <3>1
    <3>4. Passing' <=> Passing
      BY <2>3 DEF Passing, Sharing
    <3> QED BY <1>1, <1>2, <2>3, <2>5, <3>1, <3>2, <3>3, <3>4 DEF SlotsInv, Count
  <2> QED BY <2>1, <2>2, <2>4, <2>5 DEF Push
<1>10. CASE PushBatch
  <2>1. /\ stop = "none" /\ ~qring[writeit].used /\ UNCHANGED <<readit, stop, outPc, completed>>
        /\ Publish(qring[writeit].batch)
    BY <1>10, WriteFree DEF PushBatch
  <2>2. qring[writeit].batch \in Seq(Packets)
    BY <1>1, <1>2, Types
  <2> QED BY <1>1, <2>1, <2>2, SlotsPublish
<1>11. CASE OutRelease
  <2>1. /\ outPc' = "loop" /\ completed' = 0 /\ readit' = NextSlot(readit)
        /\ UNCHANGED <<writeit, pushing, stop>> /\ Passing /\ ~Passing'
    BY <1>11 DEF OutRelease, Passing, Sharing
  <2>2. /\ qring'[readit].count = 0 /\ qring'[readit].used = FALSE
        /\ qring'[readit].batch = qring[readit].batch
        /\ \A s \in Slots : s # readit => qring'[s] = qring[s]
    <3>1. PICK b : b = qring[readit].batch
      OBVIOUS
    <3>2. PICK w \in Slots : w = readit
      BY <1>2
    <3>3. qring' = [qring EXCEPT ![w] = Slot(b, 0, FALSE)]
      BY <1>11, <3>1, <3>2 DEF OutRelease, Batch
    <3>4. /\ qring'[w].batch = b /\ qring'[w].count = 0 /\ qring'[w].used = FALSE
          /\ \A s \in Slots : s # w => qring'[s] = qring[s]
      BY <1>1, <3>3, SlotSet
    <3> QED BY <3>1, <3>2, <3>4
  <2>3. stop # "deleted" /\ qring[readit].used
    BY <1>1, <2>1 DEF PhaseInv, SlotsInv, Passing, Sharing
  <2>4. \A s \in Slots :
          qring[s].used <=> (qring[writeit].used \/ Ahead(readit, s) < Ahead(readit, writeit))
    BY <1>1, <2>3 DEF SlotsInv
  <2>5. \A s \in Slots : Ahead(readit, s) \in 0..QRingLength - 1
    BY <1>2, AheadFacts
  <2>6. CASE qring[writeit].used
    <3>1. writeit = readit /\ ~qring'[writeit].used
      BY <1>1, <2>2, <2>6 DEF SlotsInv
    <3>2. Ahead(NextSlot(readit), writeit) = QRingLength - 1
      BY <1>2, <3>1, AheadFacts
    <3>3. \A s \in Slots : s # readit => Ahead(NextSlot(readit), s) < QRingLength - 1
      BY <1>2, <2>5, AheadFacts
    <3>4. \A s \in Slots : qring'[s].used <=> s # readit
      BY <2>2, <2>4, <2>6
    <3>5. \A s \in Slots : qring'[s].used
             <=> Ahead(NextSlot(readit), s) < Ahead(NextSlot(readit), writeit)
      BY <1>2, <3>1, <3>2, <3>3, <3>4
    <3> QED BY <1>1, <2>1, <2>2, <2>3, <3>1, <3>5 DEF SlotsInv
  <2>7. CASE ~qring[writeit].used
    <3>1. writeit # readit /\ ~qring'[writeit].used
      BY <1>2, <2>2, <2>3, <2>7
    <3>2. Ahead(NextSlot(readit), writeit) = Ahead(readit, writeit) - 1
      BY <1>2, <3>1, AheadFacts
    <3>3. \A s \in Slots : s # readit => Ahead(NextSlot(readit), s) = Ahead(readit, s) - 1
      BY <1>2, AheadFacts
    <3>4. Ahead(NextSlot(readit), readit) = QRingLength - 1
      BY <1>2, AheadFacts
    <3>5. \A s \in Slots : qring'[s].used
             <=> Ahead(NextSlot(readit), s) < Ahead(NextSlot(readit), writeit)
      BY <1>2, <2>2, <2>4, <2>5, <2>7, <3>1, <3>2, <3>3, <3>4
    <3>6. \A s \in Slots : (qring'[s].used => qring'[s].count = Len(qring'[s].batch))
                            /\ (~qring'[s].used => qring'[s].count = 0)
      BY <1>1, <2>2 DEF SlotsInv
    <3>7. pushing => Len(qring'[writeit].batch) < BatchLength
      BY <1>1, <1>2, <2>2, <3>1 DEF SlotsInv
    <3> QED BY <1>1, <2>1, <2>3, <3>1, <3>5, <3>6, <3>7 DEF SlotsInv
  <2> QED BY <2>6, <2>7
<1>12. CASE Delete
  <2>1. \A s \in Slots : qring'[s].used = FALSE /\ qring'[s].count = 0
    BY <1>12 DEF Delete, Slot
  <2>2. ~pushing' /\ stop' = "deleted" /\ UNCHANGED <<writeit, readit, outPc, completed>>
        /\ outPc = "done"
    BY <1>1, <1>12 DEF Delete, PhaseInv
  <2>3. ~Passing /\ ~Passing'
    BY <2>2 DEF Passing, Sharing
  <2> QED BY <1>1, <1>2, <2>1, <2>2, <2>3 DEF SlotsInv
<1>13. PushTerminating \/ OutBegin \/ (\E f \in Verdicts : OutEnd(f))
        \/ (\E i \in Threads : NextStep(i)) \/ StopCall \/ StopJoined
        \/ AddNextThread \/ RemoveNextThread \/ Terminate \/ UNCHANGED vars
        => UNCHANGED <<qring, writeit, readit, pushing, completed, outPc>> /\ ~Delete
  BY DEF PushTerminating, OutBegin, OutEnd, NextStep, NextStart, NextHead, NextWake, NextBegin,
         NextEnd, NextDone, NextReport, StopCall, StopJoined, AddNextThread, RemoveNextThread,
         Terminate, Delete, vars
<1> QED BY <1>4, <1>5, <1>6, <1>7, <1>8, <1>9, <1>10, <1>11, <1>12, <1>13 DEF Next, OutStep

\* The steps that change the ring.
RingStep ==
    \/ \E late \in BOOLEAN : Push(late)
    \/ PushTerminating \/ PushBatch \/ OutRelease \/ Delete

\* Every other step leaves the ring alone.
LEMMA RingKept ==
    ASSUME [Next]_vars, ~RingStep
    PROVE  UNCHANGED <<qring, writeit, readit, pushing, arrived, conf>>
  BY DEF RingStep, Next, OutStep, OutExit, OutCreate, OutCreated,
         OutTerm, OutTermJoined, OutIdle, OutTake, OutPost, OutEarlyPush, OutEarlyEnd, OutBegin,
         OutEnd, OutOwnEnd, OutJoin, OutRest, OutSerial, OutIdlePushBatch, NextStep,
         NextStart, NextHead, NextWake, NextBegin, NextEnd, NextDone, NextReport,
         AddNextThread, RemoveNextThread, Terminate, StopCall, StopJoined, vars, endVars, ringVars

\* A pushed packet is added at the first free position of the slot writeit.
LEMMA PushEffect ==
    ASSUME IInv, NEW late \in BOOLEAN, Push(late)
    PROVE  \E w \in Slots : \E m \in 1..BatchLength :
              /\ w = writeit
              /\ \A s \in Slots : \A i \in 1..BatchLength :
                    /\ Full(s, i)' <=> Full(s, i) \/ (s = w /\ i = m)
                    /\ Full(s, i) => Item(s, i)' = Item(s, i)
                    /\ Full(s, i) /\ s = w => i < m
              /\ ~Full(w, m) /\ Full(w, m)' /\ Item(w, m)' = arrived + 1
<1>1. TypeOK /\ SlotsInv /\ BatchLength \in Nat \ {0}
  BY OutThreadAssumption DEF IInv
<1>2. ~qring[writeit].used /\ writeit \in Slots
  BY WriteFree DEF Push
<1>3. PICK w \in Slots : w = writeit
  BY <1>2
<1>4. PICK o : o = IF pushing THEN qring[writeit].batch ELSE <<>>
  OBVIOUS
<1>5. o \in Seq(Packets) /\ Len(o) < BatchLength /\ (pushing => o = qring[w].batch)
      /\ (~pushing => o = <<>>)
  <2>1. qring[writeit].batch \in Seq(Packets)
    BY <1>1, <1>2, Types
  <2> QED BY <1>1, <1>3, <1>4, <2>1 DEF SlotsInv
<1>6. PICK b : b = Append(o, arrived + 1)
  OBVIOUS
<1>7. PICK m \in 1..BatchLength : m = Len(o) + 1
  BY <1>1, <1>5
<1>8. arrived + 1 \in Packets
  BY <1>1, OutThreadAssumption DEF Push, TypeOK, Packets
<1>9. b \in Seq(Packets) /\ Len(b) = m /\ b[m] = arrived + 1 /\ \A i \in 1..Len(o) : b[i] = o[i]
  BY <1>5, <1>6, <1>7, <1>8
<1>10. /\ qring'[w].batch = b
       /\ \A s \in Slots : s # w => qring'[s] = qring[s]
  <2>1. CASE Publish(b)
    <3>1. PICK c : c = Len(b)
      OBVIOUS
    <3>2. qring' = [qring EXCEPT ![w] = Slot(b, c, TRUE)]
      BY <1>3, <2>1, <3>1 DEF Publish
    <3> QED BY <1>1, <3>2, SlotSet
  <2>2. CASE qring' = [qring EXCEPT ![writeit] =
                              Slot(b, qring[writeit].count, qring[writeit].used)]
    <3>1. PICK c : c = qring[writeit].count
      OBVIOUS
    <3>2. PICK u : u = qring[writeit].used
      OBVIOUS
    <3>3. qring' = [qring EXCEPT ![w] = Slot(b, c, u)]
      BY <1>3, <2>2, <3>1, <3>2
    <3> QED BY <1>1, <3>3, SlotSet
  <2> QED BY <1>4, <1>6, <2>1, <2>2 DEF Push
<1>11. Live(w)' /\ (Live(w) <=> pushing)
  <2>1. CASE Publish(b)
    <3>1. PICK c : c = Len(b)
      OBVIOUS
    <3>2. qring' = [qring EXCEPT ![w] = Slot(b, c, TRUE)]
      BY <1>3, <2>1, <3>1 DEF Publish
    <3>3. qring'[w].used = TRUE
      BY <1>1, <3>2, SlotSet, ZenonT(60)
    <3> QED BY <1>2, <1>3, <3>3 DEF Live
  <2>2. CASE pushing' = TRUE /\ UNCHANGED writeit
    BY <1>2, <1>3, <2>2 DEF Live
  <2> QED BY <1>4, <1>6, <2>1, <2>2 DEF Push
<1>12. \A s \in Slots : s # w => (Live(s)' <=> Live(s))
  <2>1. CASE Publish(b)
    BY <1>3, <1>10, <2>1 DEF Publish, Live
  <2>2. CASE pushing' = TRUE /\ UNCHANGED writeit
    BY <1>3, <1>10, <2>2 DEF Live
  <2> QED BY <1>4, <1>6, <2>1, <2>2 DEF Push
<1>13. ASSUME NEW s \in Slots, NEW i \in 1..BatchLength
       PROVE  /\ Full(s, i)' <=> Full(s, i) \/ (s = w /\ i = m)
              /\ Full(s, i) => Item(s, i)' = Item(s, i)
              /\ Full(s, i) /\ s = w => i < m
  <2>1. CASE s # w
    BY <1>10, <1>12, <2>1 DEF Full, Item
  <2>2. CASE s = w
    <3>1. Full(s, i)' <=> i <= m
      BY <1>9, <1>10, <1>11, <2>2 DEF Full
    <3>2. Full(s, i) <=> i <= Len(o)
      <4>1. CASE pushing
        BY <1>5, <1>11, <2>2, <4>1 DEF Full
      <4>2. CASE ~pushing
        BY <1>5, <1>11, <2>2, <4>2 DEF Full
      <4> QED BY <4>1, <4>2
    <3>3. Full(s, i) => Item(s, i)' = Item(s, i)
      BY <1>5, <1>9, <1>10, <1>11, <2>2, <3>2 DEF Item, Full
    <3> QED BY <1>5, <1>7, <2>2, <3>1, <3>2, <3>3
  <2> QED BY <2>1, <2>2
<1>14. Full(w, m)' /\ Item(w, m)' = arrived + 1 /\ ~Full(w, m)
  BY <1>7, <1>9, <1>10, <1>13 DEF Item
<1> QED BY <1>3, <1>13, <1>14

\* Publishing a partial batch moves no packet.
LEMMA PushBatchEffect ==
    ASSUME IInv, PushBatch
    PROVE  \A s \in Slots : \A i :
              (Full(s, i)' <=> Full(s, i)) /\ Item(s, i)' = Item(s, i)
<1>1. TypeOK /\ writeit \in Slots /\ pushing
  BY DEF IInv, TypeOK, PushBatch
<1>2. PICK w \in Slots : w = writeit
  BY <1>1
<1>3. PICK b : b = qring[w].batch
  OBVIOUS
<1>4. PICK c : c = Len(b)
  OBVIOUS
<1>5. qring' = [qring EXCEPT ![w] = Slot(b, c, TRUE)] /\ ~pushing'
  BY <1>2, <1>3, <1>4 DEF PushBatch, Publish
<1>6. /\ qring'[w].batch = b /\ qring'[w].used = TRUE
      /\ \A s \in Slots : s # w => qring'[s] = qring[s]
  BY <1>1, <1>5, SlotSet
<1>7. \A s \in Slots : (Live(s)' <=> Live(s)) /\ qring'[s].batch = qring[s].batch
  BY <1>1, <1>2, <1>3, <1>5, <1>6 DEF Live
<1> QED BY <1>7 DEF Full, Item

\* A batch that is given back leaves the ring.
LEMMA ReleaseEffect ==
    ASSUME IInv, OutRelease
    PROVE  /\ \A s \in Slots : \A i :
                 (Full(s, i)' <=> Full(s, i) /\ s # readit) /\ Item(s, i)' = Item(s, i)
           /\ Passing /\ completed = Count /\ readit' = NextSlot(readit) /\ completed' = 0
<1>1. TypeOK /\ readit \in Slots /\ Passing /\ SlotsInv
  BY DEF IInv, TypeOK, OutRelease, Passing, Sharing
<1>2. PICK w \in Slots : w = readit
  BY <1>1
<1>3. PICK b : b = qring[w].batch
  OBVIOUS
<1>4. qring' = [qring EXCEPT ![w] = Slot(b, 0, FALSE)] /\ UNCHANGED <<pushing, writeit>>
  BY <1>2, <1>3 DEF OutRelease, Batch
<1>5. /\ qring'[w].batch = b /\ qring'[w].count = 0 /\ qring'[w].used = FALSE
      /\ \A s \in Slots : s # w => qring'[s] = qring[s]
  BY <1>1, <1>4, SlotSet
<1>6. pushing => writeit # w
  BY <1>1, <1>2 DEF SlotsInv
<1>7. \A s \in Slots : (Live(s)' <=> Live(s) /\ s # w) /\ qring'[s].batch = qring[s].batch
  BY <1>3, <1>4, <1>5, <1>6 DEF Live
<1>8. \A s \in Slots : \A i :
        (Full(s, i)' <=> Full(s, i) /\ s # readit) /\ Item(s, i)' = Item(s, i)
  BY <1>2, <1>7 DEF Full, Item
<1> QED BY <1>1, <1>8 DEF OutRelease

\* Nothing is left when the stage is deleted.
LEMMA DeleteEffect ==
    ASSUME Delete
    PROVE  \A s \in Slots : \A i : ~Full(s, i)'
<1>1. \A s \in Slots : qring'[s].used = FALSE
  BY DEF Delete, Slot
<1>2. ~pushing'
  BY DEF Delete
<1> QED BY <1>1, <1>2 DEF Full, Live

\* The batch that is worked on stays where it is until it is given back, and so do
\* the shares.
LEMMA BatchKept ==
    ASSUME IInv, [Next]_vars, Passing, Passing'
    PROVE  /\ Batch' = Batch /\ Count' = Count /\ readit' = readit /\ conf' = conf /\ n' = n
           /\ qring'[readit].used
<1>1. SlotsInv /\ TypeOK /\ readit \in Slots /\ PhaseInv
  BY DEF IInv, TypeOK
<1>2. ~OutTake /\ n' = n
  BY DEF Next, OutStep, OutExit, OutCreate, OutCreated, Push, PushTerminating, PushBatch, Delete,
         OutTerm, OutTermJoined, OutIdle, OutTake, OutPost, OutEarlyPush, OutEarlyEnd, OutBegin,
         OutEnd, OutOwnEnd, OutJoin, OutRest, OutSerial, OutIdlePushBatch, NextStep, OutRelease,
         NextStart, NextHead, NextWake, NextBegin, NextEnd, NextDone, NextReport, Looking,
         AddNextThread, RemoveNextThread, Terminate, StopCall, StopJoined, vars, Passing, Sharing
<1>3. CASE ~RingStep
  BY <1>1, <1>2, <1>3, RingKept DEF Batch, Count, SlotsInv
<1>4. CASE RingStep
  <2>1. ~OutRelease /\ ~Delete
    BY <1>1 DEF OutRelease, Delete, Passing, Sharing, PhaseInv
  <2>2. CASE PushTerminating
    BY <1>1, <1>2, <2>2 DEF PushTerminating, Batch, Count, endVars, SlotsInv
  <2>3. CASE (\E late \in BOOLEAN : Push(late)) \/ PushBatch
    <3>1. pushing \/ ~qring[writeit].used
      BY <2>3 DEF Push, PushBatch
    <3>2. writeit # readit /\ writeit \in Slots
      BY <3>1, WriteFree
    <3>3. \E v : qring' = [qring EXCEPT ![writeit] = v]
      BY <2>3 DEF Push, PushBatch, Publish
    <3>4. qring'[readit] = qring[readit]
      BY <1>1, <3>2, <3>3 DEF TypeOK
    <3>5. readit' = readit /\ conf' = conf
      BY <2>3 DEF Push, PushBatch, endVars
    <3> QED BY <1>1, <1>2, <3>4, <3>5 DEF Batch, Count, SlotsInv
  <2> QED BY <1>4, <2>1, <2>2, <2>3 DEF RingStep
<1> QED BY <1>3, <1>4

\* A thread with an assignment is awaited.
LEMMA AssignedPosted ==
    ASSUME NEW i \in Threads, Fits(i), processing[i]
    PROVE  Posted(i) /\ Sharing /\ Passing
  BY DEF Fits, Idle, Leaving, Posted, Sharing, Passing

\* Every step keeps the shares of the threads.
LEMMA ThreadsNext ==
    ASSUME IInv, [Next]_vars
    PROVE  ThreadsInv'
<1> USE DEF endVars, ringVars, sizeVars, workVars
<1>1. \A i \in Threads : Fits(i)'
  BY FitsNext
<1>2. ASSUME NEW i \in Threads, processing'[i]
      PROVE  data'[i] = Share(i)'
  <2>1. Sharing' /\ Passing'
    BY <1>1, <1>2, AssignedPosted DEF Fits, Idle, Leaving, Posted, Sharing, Passing
  <2>2. /\ processing \in [Threads -> BOOLEAN]
        /\ data \in [Threads -> [start : Nat, end : Nat, skip : Nat, index : Nat, batch : BOOLEAN]]
    BY DEF IInv, TypeOK
  <2>3. CASE OutPost
    <3>1. Passing /\ UNCHANGED <<n, conf, readit, qring>>
      BY <2>3 DEF OutPost, Passing, Sharing
    <3>2. \A x : Share(x)' = Share(x)
      BY <3>1, SharesKept DEF Batch, Count
    <3>3. CASE i = k
      BY <2>2, <2>3, <3>2, <3>3 DEF OutPost
    <3>4. CASE i # k
      <4>1. data'[i] = data[i] /\ processing[i]
        BY <1>2, <2>2, <2>3, <3>4 DEF OutPost
      <4> QED BY <3>2, <4>1 DEF IInv, ThreadsInv
    <3> QED BY <3>3, <3>4
  <2>4. CASE ~OutPost
    <3>1. processing[i] /\ data'[i] = data[i]
      <4>1. CASE OutCreate
        BY <1>2, <2>2, <4>1 DEF OutCreate
      <4>2. CASE OutTermJoined
        BY <1>2, <2>2, <4>2 DEF OutTermJoined
      <4>3. CASE \E t \in Threads : NextStep(t)
        BY <1>2, <2>2, <4>3 DEF NextStep, NextStart, NextHead, NextWake, NextBegin, NextEnd,
                                NextDone, NextReport
      <4>4. CASE UNCHANGED <<processing, data>>
        BY <1>2, <4>4
      <4> QED BY <2>4, <4>1, <4>2, <4>3, <4>4
              DEF Next, OutStep, OutExit, OutCreated, Push, PushTerminating, PushBatch, Delete,
                  OutTerm, OutIdle, OutTake, OutEarlyPush, OutEarlyEnd, OutBegin,
                  OutEnd, OutOwnEnd, OutJoin, OutRest, OutSerial, OutIdlePushBatch, OutRelease,
                  AddNextThread, RemoveNextThread, Terminate, StopCall, StopJoined, vars
    <3>2. Passing /\ data[i] = Share(i)
      <4>1. Fits(i)
        BY DEF IInv, ThreadsInv, Fits
      <4> QED BY <3>1, <4>1, AssignedPosted DEF IInv, ThreadsInv
    <3>3. Batch' = Batch /\ Count' = Count /\ conf' = conf /\ n' = n
      BY <2>1, <3>2, BatchKept
    <3> QED BY <3>1, <3>2, <3>3, SharesKept
  <2> QED BY <2>3, <2>4
<1> QED BY <1>1, <1>2 DEF ThreadsInv, Fits

-----------------------------------------------------------------------------
(* The order of the packets in the ring. *)

\* The items of the batch that is worked on, in their order, before all others.
LEMMA BatchOrder ==
    ASSUME IInv, Passing
    PROVE  /\ Count \in 0..BatchLength /\ readit \in Slots
           /\ \A j \in 1..Count : /\ Full(readit, j) /\ Batch[j] = Item(readit, j)
                                  /\ Batch[j] \in 1..arrived
           /\ \A i, j \in 1..Count : i < j => Batch[i] < Batch[j]
           /\ \A j \in 1..Count : \A s \in Slots : \A i \in 1..BatchLength :
                 Full(s, i) /\ s # readit => Batch[j] < Item(s, i)
<1>1. TypeOK /\ SlotsInv /\ OrderInv /\ readit \in Slots /\ BatchLength \in Nat
  BY OutThreadAssumption DEF IInv, TypeOK
<1>2. Count \in 0..BatchLength /\ Count = Len(Batch) /\ qring[readit].used
  BY <1>1, Types, BatchItems DEF SlotsInv
<1>3. \A j \in 1..Count : j \in 1..BatchLength
  BY <1>1, <1>2
<1>4. \A j \in 1..Count : Full(readit, j) /\ Batch[j] = Item(readit, j)
  BY <1>2 DEF Full, Live, Item, Batch
<1>5. \A j \in 1..Count : Batch[j] \in Packets
  BY <1>1, BatchItems
<1>6. \A j \in 1..Count : Batch[j] \in 1..arrived
  BY <1>1, <1>3, <1>4, <1>5 DEF OrderInv, Packets
<1>7. \A i, j \in 1..Count : i < j => Batch[i] < Batch[j]
  BY <1>1, <1>3, <1>4 DEF OrderInv
<1>8. \A s \in Slots : s # readit => Ahead(readit, readit) < Ahead(readit, s)
  BY <1>1, AheadFacts, OutThreadAssumption
<1>9. \A j \in 1..Count : \A s \in Slots : \A i \in 1..BatchLength :
         Full(s, i) /\ s # readit => Batch[j] < Item(s, i)
  BY <1>1, <1>3, <1>4, <1>8 DEF OrderInv
<1> QED BY <1>1, <1>2, <1>4, <1>6, <1>7, <1>9

\* The items of the ring are packets that have arrived.
LEMMA ItemTypes ==
    ASSUME IInv, NEW s \in Slots, NEW i \in 1..BatchLength, Full(s, i)
    PROVE  Item(s, i) \in Packets /\ Item(s, i) \in 1..arrived
<1>0. TypeOK /\ OrderInv /\ BatchLength \in Nat
  BY OutThreadAssumption DEF IInv
<1>1. TypeOK /\ OrderInv /\ BatchLength \in Nat /\ arrived \in Nat
  BY <1>0, ArrivedNat
<1>2. qring[s].batch \in Seq(Packets)
  BY <1>1, Types
<1>3. Item(s, i) \in Packets
  BY <1>1, <1>2 DEF Full, Item
<1> QED BY <1>1, <1>3 DEF OrderInv, Packets

\* Every step keeps the packets in the order of their arrival.
LEMMA OrderNext ==
    ASSUME IInv, [Next]_vars
    PROVE  OrderInv'
<1>0. TypeOK /\ SlotsInv /\ OrderInv
  BY DEF IInv
<1>1. TypeOK /\ SlotsInv /\ OrderInv /\ readit \in Slots /\ writeit \in Slots /\ arrived \in Nat
  BY <1>0, ArrivedNat DEF TypeOK
<1>2. CASE ~RingStep
  BY <1>1, <1>2, RingKept DEF OrderInv, Full, Live, Item
<1>3. CASE \E late \in BOOLEAN : Push(late)
  <2>1. PICK late \in BOOLEAN : Push(late)
    BY <1>3
  <2>2. PICK w \in Slots, m \in 1..BatchLength :
              /\ w = writeit
              /\ \A s \in Slots : \A i \in 1..BatchLength :
                    /\ Full(s, i)' <=> Full(s, i) \/ (s = w /\ i = m)
                    /\ Full(s, i) => Item(s, i)' = Item(s, i)
                    /\ Full(s, i) /\ s = w => i < m
              /\ ~Full(w, m) /\ Full(w, m)' /\ Item(w, m)' = arrived + 1
    BY <2>1, PushEffect
  <2>3. readit' = readit /\ arrived' = arrived + 1 /\ stop = "none"
    BY <2>1 DEF Push
  <2>4. \A s \in Slots : \A i \in 1..BatchLength : Full(s, i) => Item(s, i) \in 1..arrived
    BY ItemTypes
  <2>5. \A s \in Slots : Live(s) => ~(Ahead(readit, w) < Ahead(readit, s))
    <3>1. ~qring[w].used
      BY <2>1, <2>2, WriteFree DEF Push
    <3>2. \A s \in Slots : Ahead(readit, s) \in Int
      BY <1>1, AheadFacts, OutThreadAssumption
    <3>3. \A s \in Slots : qring[s].used => Ahead(readit, s) < Ahead(readit, w)
      BY <1>1, <2>2, <2>3, <3>1 DEF SlotsInv
    <3> QED BY <2>2, <3>2, <3>3 DEF Live
  <2>6. ASSUME NEW s \in Slots, NEW t \in Slots, NEW i \in 1..BatchLength, NEW j \in 1..BatchLength,
               Full(s, i)', Full(t, j)',
               Ahead(readit, s) < Ahead(readit, t) \/ (s = t /\ i < j)
        PROVE  Item(s, i)' < Item(t, j)'
    <3>1. CASE Full(s, i) /\ Full(t, j)
      BY <1>1, <2>2, <2>6, <3>1 DEF OrderInv
    <3>2. CASE Full(s, i) /\ ~Full(t, j)
      <4>1. t = w /\ j = m
        BY <2>2, <2>6, <3>2
      <4>2. Item(t, j)' = arrived + 1 /\ Item(s, i)' = Item(s, i) /\ Item(s, i) \in 1..arrived
        BY <2>2, <2>4, <3>2, <4>1
      <4> QED BY <1>1, <4>2
    <3>3. CASE ~Full(s, i)
      <4>1. s = w /\ i = m
        BY <2>2, <2>6, <3>3
      <4>2. CASE Full(t, j)
        <5>1. Live(t)
          BY <4>2 DEF Full
        <5>2. t = w /\ i < j
          BY <2>5, <2>6, <4>1, <5>1
        <5>3. j < m
          BY <2>2, <4>2, <5>2
        <5> QED BY <4>1, <5>2, <5>3
      <4>3. CASE ~Full(t, j)
        <5>1. t = w /\ j = m
          BY <2>2, <2>6, <4>3
        <5> QED BY <1>1, <2>6, <4>1, <5>1, AheadFacts, OutThreadAssumption
      <4> QED BY <4>2, <4>3
    <3> QED BY <3>1, <3>2, <3>3
  <2>7. \A s \in Slots : \A i \in 1..BatchLength : Full(s, i)' => Item(s, i)' <= arrived'
    BY <1>1, <2>2, <2>3, <2>4
  <2>8. \A s, t \in Slots : Ahead(readit, s)' = Ahead(readit, s)
    BY <2>3 DEF Ahead
  <2> QED BY <2>3, <2>6, <2>7, <2>8 DEF OrderInv
<1>4. CASE PushTerminating
  <2>1. UNCHANGED <<qring, writeit, readit, pushing>> /\ arrived' = arrived + 1
    BY <1>4 DEF PushTerminating
  <2>2. \A s \in Slots : \A i \in 1..BatchLength : Full(s, i) => Item(s, i) \in 1..arrived
    BY ItemTypes
  <2>3. \A s \in Slots : \A i \in 1..BatchLength : Full(s, i)' => Item(s, i)' <= arrived'
    BY <1>1, <2>1, <2>2 DEF Full, Live, Item
  <2> QED BY <1>1, <2>1, <2>3 DEF OrderInv, Full, Live, Item
<1>5. CASE PushBatch
  <2>1. UNCHANGED <<readit, arrived>>
    BY <1>5 DEF PushBatch
  <2>2. \A s \in Slots : \A i : (Full(s, i)' <=> Full(s, i)) /\ Item(s, i)' = Item(s, i)
    BY <1>5, PushBatchEffect
  <2> QED BY <1>1, <2>1, <2>2 DEF OrderInv
<1>6. CASE OutRelease
  <2>1. \A s \in Slots : \A i : (Full(s, i)' <=> Full(s, i) /\ s # readit) /\ Item(s, i)' = Item(s, i)
    BY <1>6, ReleaseEffect
  <2>2. readit' = NextSlot(readit) /\ arrived' = arrived
    BY <1>6 DEF OutRelease
  <2>3. \A s \in Slots : s # readit => Ahead(NextSlot(readit), s) = Ahead(readit, s) - 1
    BY <1>1, AheadFacts
  <2>4. \A s \in Slots : Ahead(readit, s) \in Int
    BY <1>1, AheadFacts, OutThreadAssumption
  <2>5. \A s, t \in Slots : s # readit /\ t # readit =>
           (Ahead(readit', s) < Ahead(readit', t) <=> Ahead(readit, s) < Ahead(readit, t))
    BY <2>2, <2>3, <2>4
  <2> QED BY <1>1, <2>1, <2>2, <2>5 DEF OrderInv
<1>7. CASE Delete
  <2>1. \A s \in Slots : \A i : ~Full(s, i)'
    BY <1>7, DeleteEffect
  <2> QED BY <2>1 DEF OrderInv
<1> QED BY <1>2, <1>3, <1>4, <1>5, <1>6, <1>7 DEF RingStep

-----------------------------------------------------------------------------
(* The analysis of the packets. *)

\* The item an actor works on.
LEMMA BusyItem ==
    ASSUME IInv, NEW a \in Actors, busy[a] # 0
    PROVE  /\ Sharing /\ Passing /\ n >= 1 /\ a \in Sharers /\ Active(a)
           /\ at[a] \in InShare(ShareOf(a)) /\ at[a] \in 0..Count - 1
           /\ Owner(at[a]) = a /\ busy[a] = Batch[at[a] + 1] /\ busy[a] \in 1..arrived
<1>1. Active(a) /\ at[a] \in InShare(ShareOf(a)) /\ busy[a] = Batch[at[a] + 1]
  BY DEF IInv, AnalysisInv, BusyInv
<1>2. Sharing /\ Passing /\ n >= 1 /\ a \in Sharers
  <2>1. CASE a = 0
    BY <1>1, <2>1 DEF Active, Sharing, Passing, IInv, PhaseInv, Sharers
  <2>2. CASE a \in Threads /\ a # 0
    BY <1>1, <2>2, WorkerShares DEF Active
  <2> QED BY <2>1, <2>2 DEF Actors
<1>3. at[a] \in 0..Count - 1 /\ Owner(at[a]) = a
  BY <1>1, <1>2, ShareOwner DEF IInv
<1>4. busy[a] \in 1..arrived
  <2>1. at[a] + 1 \in 1..Count
    BY <1>2, <1>3, BatchOrder
  <2> QED BY <1>1, <1>2, <2>1, BatchOrder
<1> QED BY <1>1, <1>2, <1>3, <1>4

\* The item that is analysed next without next threads.
LEMMA SerialItem ==
    ASSUME IInv, Passing, completed < Count
    PROVE  /\ completed \in Nat /\ completed + 1 \in 1..Count /\ completed \in 0..BatchLength - 1
           /\ Batch[completed + 1] \in 1..arrived
<1>1. completed \in Nat /\ Count \in Nat /\ Count <= BatchLength /\ BatchLength \in Nat
  <2>1. completed \in 0..BatchLength /\ TypeOK
    BY DEF IInv, TypeOK
  <2> QED BY <2>1, Types
<1>2. completed + 1 \in 1..Count /\ completed \in 0..BatchLength - 1
  BY <1>1
<1> QED BY <1>1, <1>2, BatchOrder

\* What a step adds to the packets that were analysed.
LEMMA AnalysedStep ==
    ASSUME IInv, [Next]_vars
    PROVE  \/ analysed' = analysed
           \/ /\ Passing /\ Passing' /\ UNCHANGED <<qring, writeit, readit, pushing, arrived>>
              /\ \E x \in 1..Count : analysed' = analysed \cup {Batch[x]}
<1> USE DEF endVars, ringVars, sizeVars, workVars, anVars, passVars
<1>1. CASE \E f \in Verdicts : OutEnd(f)
  <2>1. busy[0] # 0 /\ analysed' = analysed \cup {busy[0]} /\ outPc = "own" /\ outPc' = outPc
    BY <1>1 DEF OutEnd, End
  <2>2. at[0] + 1 \in 1..Count /\ busy[0] = Batch[at[0] + 1] /\ Passing
    BY <2>1, BusyItem, BatchOrder DEF Actors
  <2>3. Passing' /\ UNCHANGED <<qring, writeit, readit, pushing, arrived>>
    BY <1>1, <2>1 DEF Passing, Sharing, OutEnd
  <2> QED BY <2>1, <2>2, <2>3
<1>2. CASE \E i \in Threads : \E f \in Verdicts : NextEnd(i, f)
  <2>0. PICK i \in Threads : \E f \in Verdicts : NextEnd(i, f)
    BY <1>2
  <2>1. busy[i] # 0 /\ analysed' = analysed \cup {busy[i]} /\ nextPc[i] = "work" /\ outPc' = outPc
    BY <2>0 DEF NextEnd, End
  <2>2. at[i] + 1 \in 1..Count /\ busy[i] = Batch[at[i] + 1] /\ Passing
    <3>1. i \in Actors
      BY DEF Actors
    <3>2. busy[i] = Batch[at[i] + 1] /\ at[i] \in 0..Count - 1 /\ Passing
      BY <2>1, <3>1, BusyItem
    <3> QED BY <3>2, BatchOrder
  <2>3. Passing'
    BY <2>1, <2>2 DEF Passing, Sharing
  <2>4. UNCHANGED <<qring, writeit, readit, pushing, arrived>>
    BY <2>0 DEF NextEnd
  <2> QED BY <2>1, <2>2, <2>3, <2>4
<1>3. CASE \E f \in Verdicts : OutSerial(f)
  <2>0. PICK f \in Verdicts : OutSerial(f)
    BY <1>3
  <2>1. analysed' = analysed \cup {Batch[completed + 1]} /\ outPc = "serial" /\ outPc' = outPc
        /\ completed < Count /\ arrived' = arrived
    BY <2>0 DEF OutSerial
  <2>2. Passing /\ Passing'
    BY <2>1 DEF Passing
  <2>3. completed + 1 \in 1..Count /\ completed \in Nat
    BY <2>1, <2>2, SerialItem
  <2>4. UNCHANGED <<qring, writeit, readit, pushing, arrived>>
    BY <2>0 DEF OutSerial
  <2> QED BY <2>1, <2>2, <2>3, <2>4
<1>4. CASE ~(\E f \in Verdicts : OutEnd(f)) /\ ~(\E f \in Verdicts : OutSerial(f))
           /\ ~(\E i \in Threads : \E f \in Verdicts : NextEnd(i, f))
  BY <1>4 DEF Next, OutStep, OutExit, OutCreate, OutCreated, Push, PushTerminating, PushBatch,
         Delete, OutTerm, OutTermJoined, OutIdle, OutTake, OutPost, OutEarlyPush, OutEarlyEnd,
         OutBegin, Begin, OutOwnEnd, OutJoin, OutRest, OutIdlePushBatch, NextStep, OutRelease,
         NextStart, NextHead, NextWake, NextBegin, NextDone, NextReport,
         AddNextThread, RemoveNextThread, Terminate, StopCall, StopJoined, vars
<1> QED BY <1>1, <1>2, <1>3, <1>4

\* Only giving the batch back ends the work on it.
LEMMA PassingEnds ==
    ASSUME [Next]_vars, Passing, ~Passing'
    PROVE  OutRelease
<1> USE DEF endVars, ringVars, sizeVars, workVars, anVars, passVars
<1> QED BY DEF Next, OutStep, OutExit, OutCreate, OutCreated, Push, PushTerminating, PushBatch,
         Delete, OutTerm, OutTermJoined, OutIdle, OutTake, OutPost, OutEarlyPush, OutEarlyEnd,
         OutBegin, OutEnd, OutOwnEnd, OutJoin, OutRest, OutSerial, OutIdlePushBatch, NextStep,
         NextStart, NextHead, NextWake, NextBegin, NextEnd, NextDone, NextReport, Looking,
         AddNextThread, RemoveNextThread, Terminate, StopCall, StopJoined, vars, Passing, Sharing

\* Every step leaves the packets alone whose batch is not worked on.
LEMMA UntouchedNext ==
    ASSUME IInv, [Next]_vars
    PROVE  Untouched'
<1>1. Untouched /\ arrived \in Nat /\ readit \in Slots /\ TypeOK
  BY ArrivedNat DEF IInv, AnalysisInv, TypeOK
<1>2. arrived' = arrived \/ arrived' = arrived + 1
  <2>1. CASE RingStep
    BY <2>1 DEF RingStep, Push, PushTerminating, PushBatch, OutRelease, Delete, ringVars
  <2>2. CASE ~RingStep
    BY <2>2, RingKept
  <2> QED BY <2>1, <2>2
<1>3. analysed' \subseteq 1..arrived
  <2>1. CASE analysed' = analysed
    BY <1>1, <2>1 DEF Untouched
  <2>2. CASE Passing /\ \E x \in 1..Count : analysed' = analysed \cup {Batch[x]}
    BY <1>1, <2>2, BatchOrder DEF Untouched
  <2> QED BY <2>1, <2>2, AnalysedStep
<1>4. analysed' \subseteq 1..arrived'
  BY <1>1, <1>2, <1>3
<1>5. CASE /\ Passing /\ Passing' /\ UNCHANGED <<qring, writeit, readit, pushing, arrived>>
           /\ \E x \in 1..Count : analysed' = analysed \cup {Batch[x]}
  <2>1. PICK x \in 1..Count : analysed' = analysed \cup {Batch[x]}
    BY <1>5
  <2>2. ASSUME NEW s \in Slots, NEW i \in 1..BatchLength, Full(s, i)', s = readit' => ~Passing'
        PROVE  Item(s, i)' \notin analysed'
    <3>1. Full(s, i) /\ Item(s, i)' = Item(s, i) /\ s # readit
      BY <1>5, <2>2 DEF Full, Live, Item
    <3>2. Item(s, i) \notin analysed
      BY <1>1, <3>1 DEF Untouched
    <3>3. Batch[x] < Item(s, i) /\ Batch[x] \in Int
      BY <1>5, <3>1, BatchOrder
    <3> QED BY <2>1, <3>1, <3>2, <3>3
  <2> QED BY <1>4, <2>2 DEF Untouched
<1>6. CASE analysed' = analysed
  <2>0. analysed' = analysed
    BY <1>6
  <2>5. CASE ~RingStep
    <3>1. UNCHANGED <<qring, writeit, readit, pushing, arrived, conf>>
      BY <2>5, RingKept
    <3>2. Passing => Passing'
      BY <2>5, PassingEnds DEF RingStep
    <3> QED BY <1>1, <1>4, <2>0, <3>1, <3>2 DEF Untouched, Full, Live, Item
  <2>1. CASE \E late \in BOOLEAN : Push(late)
    <3>1. PICK late \in BOOLEAN : Push(late)
      BY <2>1
    <3>2. PICK w \in Slots, m \in 1..BatchLength :
              /\ w = writeit
              /\ \A s \in Slots : \A i \in 1..BatchLength :
                    /\ Full(s, i)' <=> Full(s, i) \/ (s = w /\ i = m)
                    /\ Full(s, i) => Item(s, i)' = Item(s, i)
                    /\ Full(s, i) /\ s = w => i < m
              /\ ~Full(w, m) /\ Full(w, m)' /\ Item(w, m)' = arrived + 1
      BY <3>1, PushEffect
    <3>3. readit' = readit /\ (Passing' <=> Passing)
      BY <3>1 DEF Push, Passing, Sharing
    <3>4. arrived + 1 \notin analysed
      BY <1>1 DEF Untouched
    <3> QED BY <1>1, <1>4, <2>0, <3>2, <3>3, <3>4 DEF Untouched
  <2>2. CASE PushTerminating \/ PushBatch
    <3>1. \A s \in Slots : \A i : (Full(s, i)' <=> Full(s, i)) /\ Item(s, i)' = Item(s, i)
      <4>1. CASE PushTerminating
        BY <4>1 DEF PushTerminating, Full, Live, Item
      <4> QED BY <2>2, <4>1, PushBatchEffect
    <3>2. readit' = readit /\ (Passing' <=> Passing)
      BY <2>2 DEF PushTerminating, PushBatch, Passing, Sharing
    <3> QED BY <1>1, <1>4, <2>0, <3>1, <3>2 DEF Untouched
  <2>3. CASE OutRelease
    <3>1. \A s \in Slots : \A i : (Full(s, i)' <=> Full(s, i) /\ s # readit)
                                  /\ Item(s, i)' = Item(s, i)
      BY <2>3, ReleaseEffect
    <3> QED BY <1>1, <1>4, <2>0, <3>1 DEF Untouched
  <2>4. CASE Delete
    BY <1>4, <2>4, DeleteEffect DEF Untouched
  <2> QED BY <2>1, <2>2, <2>3, <2>4, <2>5 DEF RingStep
<1> QED BY <1>5, <1>6, AnalysedStep

\* An actor that is at work stays where it is until it ends the analysis.
LEMMA BusyKept ==
    ASSUME IInv, [Next]_vars, NEW a \in Actors, busy[a] # 0, busy'[a] # 0
    PROVE  busy'[a] = busy[a] /\ at'[a] = at[a] /\ Active(a)' /\ Passing'
<1> USE DEF endVars, ringVars, sizeVars, workVars, anVars, passVars
<1>1. Sharing /\ Passing /\ Active(a) /\ PhaseInv
  BY BusyItem DEF IInv
<1>2. /\ at \in [Actors -> Nat] /\ busy \in [Actors -> 0..MaxPackets]
      /\ nextPc \in [Threads -> {"none", "start", "head", "wait", "work", "report", "exited"}]
  BY DEF IInv, TypeOK, Actors
<1>3. a = 0 \/ (a \in Threads /\ a # 0)
  BY DEF Actors
<1>4. a # 0 => nextPc[a] = "work" /\ Posted(a)
  BY <1>1, <1>3, WorkerShares DEF Active
<1>5. a = 0 => outPc = "own"
  BY <1>1 DEF Active
<1>6. CASE UNCHANGED <<at, busy, nextPc, outPc>>
  BY <1>1, <1>6 DEF Active, Passing, Sharing
<1>7. CASE OutExit \/ OutCreate \/ OutCreated \/ OutTerm \/ OutTermJoined \/ OutIdle \/ OutTake
           \/ OutIdlePushBatch \/ OutRelease
  <2>1. FALSE
    BY <1>1, <1>4, <1>5, <1>7 DEF OutExit, OutCreate, OutCreated, OutTerm, OutTermJoined, OutIdle,
       OutTake, OutIdlePushBatch, Looking, Sharing, OutRelease, Posted
  <2> QED BY <2>1
<1>8. CASE OutPost \/ OutEarlyEnd \/ OutOwnEnd \/ OutJoin
  <2>1. a # 0 /\ nextPc' = nextPc /\ busy' = busy
    BY <1>5, <1>8 DEF OutPost, OutEarlyEnd, OutOwnEnd, OutJoin
  <2>2. at'[a] = at[a]
    BY <1>2, <1>8, <2>1 DEF OutPost, OutEarlyEnd, OutOwnEnd, OutJoin
  <2>3. Passing'
    BY <1>8 DEF OutPost, OutEarlyEnd, OutOwnEnd, OutJoin, Passing, Sharing
  <2> QED BY <1>4, <2>1, <2>2, <2>3 DEF Active
<1>9. CASE OutBegin \/ \E f \in Verdicts : OutEnd(f)
  <2>1. a # 0 /\ nextPc' = nextPc /\ outPc' = outPc
    BY <1>2, <1>9 DEF OutBegin, OutEnd, Begin, End, Actors
  <2>2. at'[a] = at[a] /\ busy'[a] = busy[a]
    BY <1>2, <1>9, <2>1 DEF OutBegin, OutEnd, Begin, End
  <2> QED BY <1>1, <1>4, <2>1, <2>2 DEF Active, Passing, Sharing
<1>10. CASE \E t \in Threads : NextStep(t)
  <2>0. PICK t \in Threads : NextStep(t)
    BY <1>10
  <2>1. outPc' = outPc
    BY <2>0 DEF NextStep, NextStart, NextHead, NextWake, NextBegin, NextEnd, NextDone, NextReport
  <2>2. t # 0
    BY OutThreadAssumption DEF Threads
  <2>3. t # a
    BY <1>2, <1>4, <2>0, <2>2 DEF NextStep, NextStart, NextHead, NextWake, NextBegin, NextEnd,
         NextDone, NextReport, Begin, End
  <2>4. at'[a] = at[a] /\ busy'[a] = busy[a] /\ (a # 0 => nextPc'[a] = nextPc[a])
    BY <1>2, <1>3, <2>0, <2>3 DEF NextStep, NextStart, NextHead, NextWake, NextBegin, NextEnd,
         NextDone, NextReport, Begin, End
  <2> QED BY <1>1, <1>4, <1>5, <2>1, <2>4 DEF Active, Passing, Sharing
<1>11. (\E late \in BOOLEAN : Push(late)) \/ PushTerminating \/ PushBatch
        \/ OutEarlyPush \/ OutRest \/ (\E f \in Verdicts : OutSerial(f))
        \/ StopCall \/ StopJoined \/ Delete
        \/ AddNextThread \/ RemoveNextThread \/ Terminate \/ UNCHANGED vars
        => UNCHANGED <<at, busy, nextPc, outPc>>
  BY DEF Push, PushTerminating, PushBatch, OutEarlyPush, OutRest, OutSerial,
         StopCall, StopJoined, Delete, AddNextThread, RemoveNextThread, Terminate, vars
<1> QED BY <1>6, <1>7, <1>8, <1>9, <1>10, <1>11 DEF Next, OutStep

\* Where the actors take up an item.
LEMMA BusyBegins ==
    ASSUME IInv, [Next]_vars, NEW a \in Actors, busy[a] = 0, busy'[a] # 0
    PROVE  Begin(a, ShareOf(a)) /\ Active(a) /\ Active(a)' /\ Sharing /\ Sharing' /\ Passing'
<1> USE DEF endVars, ringVars, sizeVars, workVars, anVars, passVars
<1>1. busy \in [Actors -> 0..MaxPackets]
  BY DEF IInv, TypeOK, Actors
<1>2. CASE OutBegin
  <2>1. a = 0
    BY <1>1, <1>2 DEF OutBegin, Begin
  <2> QED BY <1>2, <2>1 DEF OutBegin, ShareOf, Active, Sharing, Passing
<1>3. CASE \E t \in Threads : NextBegin(t)
  <2>1. PICK t \in Threads : NextBegin(t)
    BY <1>3
  <2>2. a = t /\ t # 0 /\ t \in Actors
    BY <1>1, <2>1, OutThreadAssumption DEF NextBegin, Begin, Threads, Actors
  <2>3. nextPc[t] = "work" /\ nextPc' = nextPc /\ outPc' = outPc
    BY <2>1 DEF NextBegin
  <2>4. data[t] = Share(t) /\ Sharing
    BY <2>3, WorkerShares
  <2> QED BY <2>1, <2>2, <2>3, <2>4 DEF NextBegin, ShareOf, Active, Sharing, Passing
<1>4. CASE ~OutBegin /\ ~(\E t \in Threads : NextBegin(t))
  <2>1. busy' = busy \/ \E b \in Actors : busy' = [busy EXCEPT ![b] = 0]
    BY <1>4
       DEF Next, OutStep, OutExit, OutCreate, OutCreated, Push, PushTerminating, PushBatch,
         Delete, OutTerm, OutTermJoined, OutIdle, OutTake, OutPost, OutEarlyPush, OutEarlyEnd,
         OutEnd, End, OutOwnEnd, OutJoin, OutRest, OutSerial, OutIdlePushBatch, NextStep,
         OutRelease, NextStart, NextHead, NextWake, NextEnd, NextDone, NextReport, Actors,
         AddNextThread, RemoveNextThread, Terminate, StopCall, StopJoined, vars
  <2> QED BY <1>1, <2>1
<1> QED BY <1>2, <1>3, <1>4

\* Every step keeps the actors at their shares.
LEMMA BusyNext ==
    ASSUME IInv, [Next]_vars
    PROVE  BusyInv'
<1>1. ASSUME NEW a \in Actors, busy'[a] # 0
      PROVE  /\ Active(a)' /\ at'[a] \in InShare(ShareOf(a))'
             /\ busy'[a] = Batch'[at'[a] + 1]
  <2>1. CASE busy[a] # 0
    <3>1. busy'[a] = busy[a] /\ at'[a] = at[a] /\ Active(a)' /\ Passing'
      BY <1>1, <2>1, BusyKept
    <3>2. Passing /\ at[a] \in InShare(ShareOf(a)) /\ busy[a] = Batch[at[a] + 1]
      BY <2>1, BusyItem
    <3>3. Batch' = Batch /\ Count' = Count /\ conf' = conf /\ n' = n
      BY <3>1, <3>2, BatchKept
    <3>4. ShareOf(a)' = ShareOf(a) /\ \A d : InShare(d)' = InShare(d)
      BY <3>3, SharesKept
    <3>5. InShare(ShareOf(a))' = InShare(ShareOf(a))
      BY <3>3, <3>4 DEF InShare, ThreadIndex
    <3> QED BY <3>1, <3>2, <3>3, <3>5
  <2>2. CASE busy[a] = 0
    <3>1. Begin(a, ShareOf(a)) /\ Active(a)' /\ Passing /\ Passing'
      BY <1>1, <2>2, BusyBegins DEF Passing
    <3>2. PICK j \in Todo(a, ShareOf(a)) :
            at' = [at EXCEPT ![a] = j] /\ busy' = [busy EXCEPT ![a] = Batch[j + 1]]
      BY <3>1 DEF Begin
    <3>3. at'[a] = j /\ busy'[a] = Batch[j + 1] /\ j \in InShare(ShareOf(a))
      BY <3>2 DEF IInv, TypeOK, Actors, Todo
    <3>4. Batch' = Batch /\ Count' = Count /\ conf' = conf /\ n' = n
      BY <3>1, BatchKept
    <3>5. ShareOf(a)' = ShareOf(a)
      BY <3>4, SharesKept
    <3>6. InShare(ShareOf(a))' = InShare(ShareOf(a))
      BY <3>4, <3>5 DEF InShare, ThreadIndex
    <3> QED BY <3>1, <3>3, <3>4, <3>6
  <2> QED BY <2>1, <2>2
<1> QED BY <1>1 DEF BusyInv

\* Taking a batch begins the work on it, and it stays of one kind to its end.
LEMMA PassingBegins ==
    ASSUME [Next]_vars, Passing'
    PROVE  \/ ~Passing /\ OutTake
           \/ Passing /\ (Sharing' <=> Sharing) /\ (outPc' = "serial" <=> outPc = "serial")
<1> USE DEF endVars, ringVars, sizeVars, workVars, anVars, passVars, Passing, Sharing
<1>1. CASE outPc' = outPc
  BY <1>1
<1>2. CASE OutTake
  BY <1>2 DEF OutTake, Looking
<1>3. CASE OutPost \/ OutEarlyEnd \/ OutOwnEnd \/ OutJoin
  BY <1>3 DEF OutPost, OutEarlyEnd, OutOwnEnd, OutJoin
<1>4. CASE OutExit \/ OutCreate \/ OutCreated \/ OutTerm \/ OutTermJoined \/ OutIdle
           \/ OutIdlePushBatch \/ OutRelease
  BY <1>4 DEF OutExit, OutCreate, OutCreated, OutTerm, OutTermJoined, OutIdle, OutIdlePushBatch,
              OutRelease
<1>5. (\E late \in BOOLEAN : Push(late)) \/ PushTerminating \/ PushBatch
        \/ OutEarlyPush \/ OutRest \/ (\E f \in Verdicts : OutSerial(f))
        \/ OutBegin \/ (\E f \in Verdicts : OutEnd(f)) \/ (\E t \in Threads : NextStep(t))
        \/ StopCall \/ StopJoined \/ Delete
        \/ AddNextThread \/ RemoveNextThread \/ Terminate \/ UNCHANGED vars
        => outPc' = outPc
  BY DEF Push, PushTerminating, PushBatch, OutEarlyPush, OutRest, OutSerial, OutBegin, OutEnd,
         NextStep, NextStart, NextHead, NextWake, NextBegin, NextEnd, NextDone, NextReport,
         StopCall, StopJoined, Delete, AddNextThread, RemoveNextThread, Terminate, vars
<1> QED BY <1>1, <1>2, <1>3, <1>4, <1>5 DEF Next, OutStep

\* An actor ends the analysis of an item of its share.
Ends(e) ==
    \E f \in Verdicts : \/ e = 0 /\ OutEnd(f)
                        \/ e # 0 /\ e \in Threads /\ NextEnd(e, f)

\* An actor that works has come to its index.
LEMMA ReachedActive ==
    ASSUME IInv, NEW a \in Actors, Active(a)
    PROVE  Reached(a) = at[a]
<1>1. CASE a = 0
  BY <1>1 DEF Active, Reached
<1>2. CASE a # 0
  <2>1. a \in Threads /\ nextPc[a] = "work"
    BY <1>2 DEF Active, Actors
  <2>2. Working(a) /\ Posted(a)
    BY <2>1, WorkerShares
  <2>3. processing[a] /\ ~ready[a] /\ semWork[a] = 0 /\ ~(outPc = "post" /\ a >= k)
    <3>1. a \in Int /\ k \in Int
      BY OutThreadAssumption, <2>1 DEF IInv, TypeOK, Threads
    <3> QED BY <2>2, <3>1 DEF Working, Posted
  <2> QED BY <1>2, <2>3 DEF Reached
<1> QED BY <1>1, <1>2

\* The end of an analysis moves the actor past the item, and no other.
LEMMA ReachedEnds ==
    ASSUME IInv, NEW e \in Actors, Ends(e)
    PROVE  /\ busy[e] # 0 /\ analysed' = analysed \cup {busy[e]}
           /\ Reached(e) = at[e] /\ Reached(e)' = at[e] + 1
           /\ \A b \in Actors : b # e => Reached(b)' = Reached(b)
<1> USE DEF endVars, ringVars, sizeVars, workVars, anVars, passVars
<1>1. busy[e] # 0 /\ analysed' = analysed \cup {busy[e]} /\ at' = [at EXCEPT ![e] = at[e] + 1]
  BY DEF Ends, OutEnd, NextEnd, End
<1>2. Active(e)
  BY <1>1 DEF IInv, AnalysisInv, BusyInv
<1>3. UNCHANGED <<outPc, k, ready, semWork, processing>>
  BY DEF Ends, OutEnd, NextEnd
<1>4. at'[e] = at[e] + 1 /\ \A b \in Actors : b # e => at'[b] = at[b]
  BY <1>1 DEF IInv, TypeOK, Actors
<1>5. Reached(e) = at[e]
  BY <1>2, ReachedActive
<1>6. Reached(e)' = at[e] + 1
  <2>1. CASE e = 0
    BY <1>2, <1>3, <1>4, <2>1 DEF Active, Reached
  <2>2. CASE e # 0
    <3>1. e \in Threads /\ nextPc[e] = "work"
      BY <1>2, <2>2 DEF Active, Actors
    <3>2. Working(e) /\ Posted(e)
      BY <3>1, WorkerShares
    <3>3. processing[e] /\ ~ready[e] /\ semWork[e] = 0 /\ ~(outPc = "post" /\ e >= k)
      <4>1. e \in Int /\ k \in Int
        BY OutThreadAssumption, <3>1 DEF IInv, TypeOK, Threads
      <4> QED BY <3>2, <4>1 DEF Working, Posted
    <3> QED BY <1>3, <1>4, <2>2, <3>3 DEF Reached
  <2> QED BY <2>1, <2>2
<1>7. \A b \in Actors : b # e => Reached(b)' = Reached(b)
  BY <1>3, <1>4 DEF Reached
<1> QED BY <1>1, <1>5, <1>6, <1>7

\* Taking up the next item of the share passes no item of the share.
LEMMA ReachedBegin ==
    ASSUME IInv, NEW a \in Actors, Active(a), Begin(a, ShareOf(a)),
           UNCHANGED <<outPc, k, ready, semWork, processing>>
    PROVE  /\ \A j \in InShare(ShareOf(a)) : j < Reached(a)' <=> j < Reached(a)
           /\ \A b \in Actors : b # a => Reached(b)' = Reached(b)
<1>1. at \in [Actors -> Nat] /\ \A j \in InShare(ShareOf(a)) : j \in Nat
  BY OutThreadAssumption DEF IInv, TypeOK, Actors, InShare
<1>2. PICK j \in Todo(a, ShareOf(a)) :
        (\A i \in Todo(a, ShareOf(a)) : j <= i) /\ at' = [at EXCEPT ![a] = j]
  BY DEF Begin
<1>3. at'[a] = j /\ \A b \in Actors : b # a => at'[b] = at[b]
  BY <1>1, <1>2
<1>4. Reached(a) = at[a]
  BY ReachedActive
<1>5. Reached(a)' = j
  <2>1. CASE a = 0
    BY <1>3, <2>1 DEF Active, Reached
  <2>2. CASE a # 0
    <3>1. a \in Threads /\ nextPc[a] = "work"
      BY <2>2 DEF Active, Actors
    <3>2. Working(a) /\ Posted(a)
      BY <3>1, WorkerShares
    <3>3. processing[a] /\ ~ready[a] /\ semWork[a] = 0 /\ ~(outPc = "post" /\ a >= k)
      <4>1. a \in Int /\ k \in Int
        BY OutThreadAssumption, <3>1 DEF IInv, TypeOK, Threads
      <4> QED BY <3>2, <4>1 DEF Working, Posted
    <3> QED BY <1>3, <2>2, <3>3 DEF Reached
  <2> QED BY <2>1, <2>2
<1>6. \A b \in Actors : b # a => Reached(b)' = Reached(b)
  BY <1>3 DEF Reached
<1>7. \A i \in InShare(ShareOf(a)) : i < j <=> i < at[a]
  BY <1>1, <1>2 DEF Todo
<1> QED BY <1>4, <1>5, <1>6, <1>7

\* Giving next thread k its share passes no item.
LEMMA ReachedPost ==
    ASSUME IInv, OutPost, NEW a \in Sharers, a \in Actors
    PROVE  Reached(a)' = Reached(a)
<1> USE DEF endVars, ringVars, sizeVars, workVars, anVars, passVars
<1>1. outPc = "post" /\ k \in Int /\ n \in Int /\ 1 <= k /\ k <= n /\ k \in Threads
  <2>1. outPc = "post" /\ PhaseInv /\ TypeOK
    BY DEF OutPost, IInv
  <2> QED BY <2>1, OutThreadAssumption DEF PhaseInv, TypeOK, Threads
<1>2. /\ at \in [Actors -> Nat] /\ ready \in [Threads -> BOOLEAN]
      /\ processing \in [Threads -> BOOLEAN] /\ semWork \in [Threads -> Nat]
  BY DEF IInv, TypeOK, Actors
<1>3. CASE a = 0
  BY <1>1, <1>2, <1>3 DEF OutPost, Reached, Actors
<1>4. CASE a # 0
  <2>1. a \in Threads /\ a \in 1..n /\ a \in Int
    BY <1>1, <1>4, OutThreadAssumption DEF Actors, Sharers, Threads
  <2>2. at'[a] = at[a]
    BY <1>2, <1>4, <2>1 DEF OutPost, Actors
  <2>3. CASE a = k
    <3>1. Reached(a) = 0
      BY <1>1, <1>4, <2>3 DEF Reached
    <3>2. ready'[a] \/ semWork'[a] > 0
      BY <1>2, <2>1, <2>3 DEF OutPost
    <3> QED BY <1>4, <3>1, <3>2 DEF Reached
  <2>4. CASE a < k
    <3>0. a # k
      BY <1>1, <2>1, <2>4
    <3>3. processing'[a] = processing[a]
      BY <1>2, <2>1, <3>0 DEF OutPost
    <3>4. ready'[a] = ready[a] /\ semWork'[a] = semWork[a]
      BY <1>2, <2>1, <3>0 DEF OutPost
    <3>1. processing'[a] = processing[a] /\ ready'[a] = ready[a] /\ semWork'[a] = semWork[a]
      BY <3>3, <3>4
    <3>2. k' = k + 1
      BY DEF OutPost
    <3> QED BY <1>1, <1>4, <2>1, <2>2, <2>4, <3>1, <3>2 DEF Reached
  <2>5. CASE a > k
    <3>1. outPc' = "post" /\ k' = k + 1
      BY <1>1, <2>1, <2>5 DEF OutPost
    <3> QED BY <1>1, <1>4, <2>1, <2>5, <3>1 DEF Reached
  <2> QED BY <1>1, <2>1, <2>3, <2>4, <2>5
<1> QED BY <1>3, <1>4

\* A thread that is woken starts before the items of its share.
LEMMA ReachedWake ==
    ASSUME IInv, NEW i \in Threads, NextWake(i), Sharing
    PROVE  /\ \A j \in InShare(Share(i)) : j < Reached(i)' <=> j < Reached(i)
           /\ \A b \in Actors : b # i => Reached(b)' = Reached(b)
<1> USE DEF endVars, ringVars, sizeVars, workVars, anVars, passVars
<1>1. /\ at \in [Actors -> Nat] /\ ready \in [Threads -> BOOLEAN] /\ conf \in ConfType
      /\ processing \in [Threads -> BOOLEAN] /\ semWork \in [Threads -> Nat] /\ i \in Actors
  BY OutThreadAssumption DEF IInv, TypeOK, Actors
<1>2. nextPc[i] = "wait" /\ UNCHANGED <<outPc, k, processing>> /\ i # 0
  BY OutThreadAssumption DEF NextWake, Threads
<1>3. at' = [at EXCEPT ![i] = data[i].start]
  BY DEF NextWake
<1>4. at'[i] = data[i].start /\ \A b \in Actors : b # i => at'[b] = at[b]
  BY <1>1, <1>3
<1>5. \A b \in Threads : b # i => ready'[b] = ready[b] /\ semWork'[b] = semWork[b]
  BY <1>1 DEF NextWake
<1>6. \A b \in Actors : b # i => Reached(b)' = Reached(b)
  BY <1>2, <1>4, <1>5 DEF Reached, Actors
<1>7. ~Working(i) /\ ~Leaving(i)
  BY <1>2 DEF Working, Leaving, Sharing
<1>8. CASE Assigned(i)
  <2>1. Reached(i) = 0
    BY <1>2, <1>8 DEF Reached, Assigned
  <2>2. ~ready'[i] /\ semWork'[i] = 0 /\ processing'[i]
    BY <1>1, <1>2, <1>8 DEF NextWake, Assigned
  <2>3. data[i] = Share(i)
    BY <1>8 DEF Assigned, IInv, ThreadsInv
  <2>4. Reached(i)' = 0 \/ Reached(i)' = Share(i).start
    BY <1>2, <1>4, <2>2, <2>3 DEF Reached
  <2>5. \A j \in InShare(Share(i)) : j \in Nat /\ j >= Share(i).start
    BY OutThreadAssumption DEF InShare
  <2>6. Share(i).start \in Nat
    BY <2>3 DEF IInv, TypeOK
  <2> QED BY <1>6, <2>1, <2>4, <2>5, <2>6
<1>9. CASE ~Assigned(i)
  <2>1. ~processing[i] /\ ~ready[i] /\ semWork[i] = 0
    BY <1>7, <1>9 DEF IInv, ThreadsInv, Idle, Finished
  <2>2. ~processing'[i] /\ ~ready'[i] /\ semWork'[i] = 0
    BY <1>1, <1>2, <2>1 DEF NextWake
  <2>3. Reached(i)' = Reached(i)
    BY <1>2, <2>1, <2>2 DEF Reached
  <2> QED BY <1>6, <2>3
<1> QED BY <1>8, <1>9

\* Apart from the end of an analysis, a step passes no item of a share.
LEMMA ReachedKept ==
    ASSUME IInv, [Next]_vars, Sharing, Sharing', ~(\E e \in Actors : Ends(e)),
           NEW a \in Sharers, NEW j \in InShare(ShareOf(a))
    PROVE  j < Reached(a)' <=> j < Reached(a)
<1> USE DEF endVars, ringVars, sizeVars, workVars, anVars, passVars
<1>1. a \in Actors /\ (a # 0 => a \in Threads /\ a \in 1..n /\ ShareOf(a) = Share(a))
  <2>1. TypeOK /\ n >= 1
    BY DEF IInv, PhaseInv
  <2>2. n \in 0..MaxThreads
    BY <2>1 DEF TypeOK
  <2> QED BY <2>1, <2>2, OutThreadAssumption DEF Actors, Threads, Sharers, ShareOf
<1>2. j \in 0..BatchLength - 1
  BY DEF InShare
<1>3. /\ at \in [Actors -> Nat] /\ ready \in [Threads -> BOOLEAN]
      /\ processing \in [Threads -> BOOLEAN] /\ semWork \in [Threads -> Nat]
      /\ BatchLength \in Nat
  BY OutThreadAssumption DEF IInv, TypeOK, Actors
<1>4. CASE UNCHANGED <<outPc, k, ready, semWork, processing, at>>
  <2>1. Reached(a)' = Reached(a)
    BY <1>4 DEF Reached
  <2> QED BY <2>1
<1>5. CASE OutPost
  BY <1>1, <1>5, ReachedPost
<1>6. CASE OutEarlyEnd
  <2>1. a # 0 /\ outPc = "early" /\ outPc' = "join" /\ UNCHANGED <<ready, semWork, processing, at>>
    BY <1>6, Types DEF OutEarlyEnd, IInv, PhaseInv, Sharers
  <2>2. Reached(a)' = Reached(a)
    BY <2>1 DEF Reached
  <2> QED BY <2>2
<1>7. CASE OutOwnEnd
  <2>1. outPc = "own" /\ outPc' = "join" /\ UNCHANGED <<ready, semWork, processing, at>>
        /\ Todo(0, OwnShare) = {}
    BY <1>7 DEF OutOwnEnd
  <2>2. CASE a # 0
    <3>1. Reached(a)' = Reached(a)
      BY <2>1, <2>2 DEF Reached
    <3> QED BY <3>1
  <2>3. CASE a = 0
    <3>1. Reached(a) = at[0] /\ Reached(a)' = BatchLength
      BY <2>1, <2>3 DEF Reached
    <3>2. j \in InShare(OwnShare) /\ at[0] \in Nat
      BY <1>1, <1>3, <2>3 DEF ShareOf
    <3>3. ~(j >= at[0])
      BY <2>1, <3>2 DEF Todo
    <3> QED BY <1>2, <1>3, <3>1, <3>2, <3>3
  <2> QED BY <2>2, <2>3
<1>8. CASE OutJoin
  <2>1. outPc = "join" /\ outPc' \in {"join", "rest"} /\ UNCHANGED <<ready, semWork, processing, at>>
    BY <1>8 DEF OutJoin
  <2>2. Reached(a)' = Reached(a)
    BY <2>1 DEF Reached
  <2> QED BY <2>2
<1>9. CASE OutBegin
  <2>1. Active(0) /\ Begin(0, ShareOf(0)) /\ UNCHANGED <<outPc, k, ready, semWork, processing>>
        /\ 0 \in Actors
    BY <1>9 DEF OutBegin, Active, ShareOf, Actors
  <2>2. /\ \A i \in InShare(ShareOf(0)) : i < Reached(0)' <=> i < Reached(0)
        /\ \A b \in Actors : b # 0 => Reached(b)' = Reached(b)
    BY <2>1, ReachedBegin
  <2> QED BY <1>1, <2>2
<1>10. CASE \E t \in Threads : NextBegin(t)
  <2>0. PICK t \in Threads : NextBegin(t)
    BY <1>10
  <2>1. nextPc[t] = "work" /\ t # 0
    BY <2>0, OutThreadAssumption DEF NextBegin, Threads
  <2>2. data[t] = Share(t) /\ ShareOf(t) = Share(t)
    BY <2>1, WorkerShares
  <2>3. Active(t) /\ Begin(t, ShareOf(t)) /\ UNCHANGED <<outPc, k, ready, semWork, processing>>
        /\ t \in Actors
    BY <2>0, <2>1, <2>2 DEF NextBegin, Active, Actors
  <2>4. /\ \A i \in InShare(ShareOf(t)) : i < Reached(t)' <=> i < Reached(t)
        /\ \A b \in Actors : b # t => Reached(b)' = Reached(b)
    BY <2>3, ReachedBegin
  <2> QED BY <1>1, <2>4
<1>11. CASE \E t \in Threads : NextWake(t)
  <2>0. PICK t \in Threads : NextWake(t)
    BY <1>11
  <2>1. /\ \A i \in InShare(Share(t)) : i < Reached(t)' <=> i < Reached(t)
        /\ \A b \in Actors : b # t => Reached(b)' = Reached(b)
    BY <2>0, ReachedWake
  <2>2. t # 0
    BY OutThreadAssumption DEF Threads
  <2> QED BY <1>1, <2>1, <2>2
<1>12. CASE \E t \in Threads : NextDone(t)
  <2>0. PICK t \in Threads : NextDone(t)
    BY <1>12
  <2>1. nextPc[t] = "work" /\ t # 0 /\ t \in Actors
    BY <2>0, OutThreadAssumption DEF NextDone, Threads, Actors
  <2>2. data[t] = Share(t) /\ ShareOf(t) = Share(t) /\ Working(t) /\ Posted(t)
    BY <2>1, WorkerShares
  <2>3. UNCHANGED <<outPc, k, ready, semWork, at>> /\ processing' = [processing EXCEPT ![t] = FALSE]
        /\ Todo(t, Share(t)) = {}
    BY <2>0, <2>2 DEF NextDone
  <2>4. CASE a # t
    <3>1. a # 0 => processing'[a] = processing[a]
      BY <1>1, <1>3, <2>3, <2>4
    <3>2. Reached(a)' = Reached(a)
      BY <2>3, <3>1 DEF Reached
    <3> QED BY <3>2
  <2>5. CASE a = t
    <3>1. Reached(a) = at[a]
      BY <2>1, <2>5, ReachedActive DEF Active
    <3>2. ~processing'[a] /\ ~ready'[a] /\ semWork'[a] = 0
      BY <1>3, <2>2, <2>3, <2>5 DEF Working
    <3>3. ~(outPc = "post" /\ a >= k)
      <4>1. a \in Int /\ k \in Int
        BY OutThreadAssumption, <2>5 DEF IInv, TypeOK, Threads
      <4> QED BY <2>2, <2>5, <4>1 DEF Posted
    <3>4. Reached(a)' = BatchLength
      BY <2>1, <2>3, <2>5, <3>2, <3>3 DEF Reached
    <3>5. ~(j >= at[a]) /\ at[a] \in Nat
      BY <1>1, <1>3, <2>2, <2>3, <2>5 DEF Todo
    <3> QED BY <1>2, <1>3, <3>1, <3>4, <3>5
  <2> QED BY <2>4, <2>5
<1>13. CASE OutExit \/ OutCreate \/ OutCreated \/ OutTerm \/ OutTermJoined \/ OutIdle \/ OutTake
           \/ OutIdlePushBatch \/ OutRelease \/ (\E f \in Verdicts : OutSerial(f))
  <2>1. FALSE
    BY <1>13 DEF OutExit, OutCreate, OutCreated, OutTerm, OutTermJoined, OutIdle, OutTake,
       OutIdlePushBatch, Looking, Sharing, OutRelease, OutSerial
  <2> QED BY <2>1
<1>14. CASE \E f \in Verdicts : OutEnd(f)
  BY <1>14 DEF Ends, Actors
<1>15. CASE \E t \in Threads : \E f \in Verdicts : NextEnd(t, f)
  <2>1. \A t \in Threads : t # 0
    BY OutThreadAssumption DEF Threads
  <2> QED BY <1>15, <2>1 DEF Ends, Actors
<1>16. CASE \E t \in Threads : NextStart(t) \/ NextHead(t) \/ NextReport(t)
  <2>1. UNCHANGED <<outPc, k, ready, semWork, processing, at>>
    BY <1>16 DEF NextStart, NextHead, NextReport
  <2> QED BY <1>4, <2>1
<1>17. (\E late \in BOOLEAN : Push(late)) \/ PushTerminating \/ PushBatch
        \/ OutEarlyPush \/ OutRest \/ StopCall \/ StopJoined \/ Delete
        \/ AddNextThread \/ RemoveNextThread \/ Terminate \/ UNCHANGED vars
        => UNCHANGED <<outPc, k, ready, semWork, processing, at>>
  BY DEF Push, PushTerminating, PushBatch, OutEarlyPush, OutRest,
         StopCall, StopJoined, Delete, AddNextThread, RemoveNextThread, Terminate, vars
<1> QED BY <1>4, <1>5, <1>6, <1>7, <1>8, <1>9, <1>10, <1>11, <1>12, <1>13, <1>14, <1>15, <1>16,
           <1>17 DEF Next, OutStep, NextStep

\* When a batch is taken, none of its items was analysed.
LEMMA TakenUntouched ==
    ASSUME IInv, OutTake
    PROVE  /\ \A i \in 1..Count : Batch[i] \notin analysed
           /\ Batch' = Batch /\ Count' = Count /\ analysed' = analysed
           /\ Count \in 0..BatchLength /\ BatchLength \in Nat /\ completed' = 0 /\ k' = 1
           /\ flag' = [j \in 0..BatchLength - 1 |-> 0]
<1>1. TypeOK /\ SlotsInv /\ Untouched /\ readit \in Slots /\ BatchLength \in Nat
  BY OutThreadAssumption DEF IInv, AnalysisInv, TypeOK
<1>2. ~Passing /\ qring[readit].used
  BY DEF OutTake, Looking, Passing, Sharing
<1>3. UNCHANGED <<qring, readit, analysed>>
  BY DEF OutTake, ringVars
<1>4. Count \in 0..BatchLength /\ Count = Len(qring[readit].batch)
  BY <1>1, <1>2, Types DEF SlotsInv, Count
<1>5. \A i \in 1..Count : Full(readit, i) /\ i \in 1..BatchLength
  BY <1>1, <1>2, <1>4 DEF Full, Live
<1>6. \A i \in 1..Count : Item(readit, i) \notin analysed
  BY <1>1, <1>2, <1>5 DEF Untouched
<1>7. \A i \in 1..Count : Batch[i] \notin analysed
  BY <1>6 DEF Item, Batch
<1>8. Batch' = Batch /\ Count' = Count
  BY <1>3 DEF Batch, Count
<1> QED BY <1>1, <1>3, <1>4, <1>7, <1>8 DEF OutTake

\* Every step keeps track of what is done of the shares.
LEMMA SharesDoneNext ==
    ASSUME IInv, [Next]_vars
    PROVE  SharesDone'
<1>1. TypeOK /\ SharesDone /\ SlotsInv /\ PhaseInv
  BY DEF IInv, AnalysisInv
<1>2. CASE ~Passing'
  BY <1>2 DEF Passing, SharesDone
<1>3. CASE Passing' /\ ~Passing
  <2>1. OutTake
    BY <1>3, PassingBegins
  <2>2. /\ \A i \in 1..Count : Batch[i] \notin analysed
        /\ Batch' = Batch /\ Count' = Count /\ analysed' = analysed
        /\ Count \in 0..BatchLength /\ BatchLength \in Nat /\ completed' = 0 /\ k' = 1
    BY <2>1, TakenUntouched
  <2>3. outPc' = "serial" => \A i \in 1..Count' : Batch'[i] \in analysed' <=> i <= completed'
    BY <2>2
  <2>4. ASSUME Sharing', NEW a \in Sharers', NEW j \in InShare(ShareOf(a))'
        PROVE  Batch'[j + 1] \in analysed' <=> j < Reached(a)'
    <3>1. n' = nThreads /\ n' \in Nat /\ outPc' = "post"
      BY <2>1, <2>4, OutThreadAssumption DEF OutTake, Sharing, IInv, TypeOK
    <3>2. Reached(a)' = 0
      BY <2>2, <2>4, <3>1 DEF Reached, Sharers
    <3>3. j \in 0..BatchLength - 1 /\ j < ShareOf(a)'.end
      BY <2>4 DEF InShare
    <3>4. ShareOf(a)'.end <= Count
      <4>1. n' >= 1
        BY <2>1, <2>4, <3>1, OutThreadAssumption DEF OutTake, Sharing, IInv, TypeOK
      <4>2. CASE conf'.type = "defrag"
        BY <2>2, <4>2 DEF ShareOf, Share, OwnShare, Piece
      <4>3. CASE conf'.type # "defrag" /\ n' > 1
        <5>1. a # 0
          BY <2>4, <4>3 DEF Sharers
        <5> QED BY <2>2, <4>3, <5>1 DEF ShareOf, Share, Piece
      <4>4. CASE conf'.type # "defrag" /\ n' = 1
        <5>1. a \in {0, 1}
          BY <2>4, <4>4 DEF Sharers
        <5>2. ShareOf(a)' = Piece(0, Count \div 2, 1, 0) \/ ShareOf(a)' = Piece(Count \div 2, Count, 1, 0)
          BY <2>2, <4>4, <5>1 DEF ShareOf, Share, OwnShare
        <5>3. Count \div 2 <= Count
          BY <2>2
        <5> QED BY <2>2, <5>2, <5>3 DEF Piece
      <4> QED BY <3>1, <4>1, <4>2, <4>3, <4>4
    <3>5. ShareOf(a)'.end \in Int
      <4>1. ShareOf(a)'.end = Count \/ ShareOf(a)'.end = Count \div (n' + 1)
            \/ ShareOf(a)'.end = (Count \div (n' + 1)) * (a + 1)
        BY <2>2 DEF ShareOf, Share, OwnShare, Piece
      <4>2. a \in Int /\ n' + 1 > 0 /\ n' + 1 \in Int
        BY <2>4, <3>1 DEF Sharers
      <4>3. Count \div (n' + 1) \in Int
        BY <2>2, <4>2
      <4> QED BY <2>2, <4>1, <4>2, <4>3
    <3>6. j + 1 \in 1..Count
      BY <2>2, <3>3, <3>4, <3>5
    <3> QED BY <2>2, <3>2, <3>3, <3>6
  <2> QED BY <2>3, <2>4 DEF SharesDone
<1>4. CASE Passing' /\ Passing /\ Sharing
  <2>1. Sharing' /\ outPc' # "serial"
    BY <1>4, PassingBegins DEF Sharing
  <2>2. Batch' = Batch /\ Count' = Count /\ conf' = conf /\ n' = n
    BY <1>4, BatchKept
  <2>3. Sharers' = Sharers /\ \A a : InShare(ShareOf(a))' = InShare(ShareOf(a))
    <3>1. Sharers' = Sharers /\ \A a : ShareOf(a)' = ShareOf(a)
      BY <2>2, SharesKept
    <3> QED BY <2>2, <3>1 DEF InShare, ThreadIndex
  <2>4. \A a \in Sharers : \A j \in InShare(ShareOf(a)) : Batch[j + 1] \in analysed <=> j < Reached(a)
    BY <1>1, <1>4 DEF SharesDone
  <2>5. n >= 1 /\ Sharers \subseteq Actors
    <3>1. n >= 1
      BY <1>1, <1>4 DEF PhaseInv
    <3> QED BY <1>1, <3>1, OutThreadAssumption DEF TypeOK, Sharers, Actors, Threads
  <2>6. CASE \E e \in Actors : Ends(e)
    <3>0. PICK e \in Actors : Ends(e)
      BY <2>6
    <3>1. /\ busy[e] # 0 /\ analysed' = analysed \cup {busy[e]}
          /\ Reached(e) = at[e] /\ Reached(e)' = at[e] + 1
          /\ \A b \in Actors : b # e => Reached(b)' = Reached(b)
      BY <3>0, ReachedEnds
    <3>2. at[e] \in 0..Count - 1 /\ Owner(at[e]) = e /\ busy[e] = Batch[at[e] + 1]
      BY <3>1, BusyItem
    <3>3. ASSUME NEW a \in Sharers, NEW j \in InShare(ShareOf(a))
          PROVE  Batch[j + 1] \in analysed' <=> j < Reached(a)'
      <4>1. j \in 0..Count - 1 /\ Owner(j) = a
        BY <1>1, <2>5, ShareOwner
      <4>2. j # at[e] => Batch[j + 1] # busy[e]
        <5>1. j + 1 \in 1..Count /\ at[e] + 1 \in 1..Count /\ Count \in Nat
          BY <1>4, <3>2, <4>1, BatchOrder
        <5>2. /\ \A x, y \in 1..Count : x < y => Batch[x] < Batch[y]
              /\ \A x \in 1..Count : Batch[x] \in Int
          BY <1>4, BatchOrder
        <5> QED BY <3>2, <4>1, <5>1, <5>2
      <4>3. CASE a = e
        <5>1. Reached(a) = at[e] /\ Reached(a)' = at[e] + 1
          BY <3>1, <4>3
        <5>2. Batch[j + 1] \in analysed <=> j < at[e]
          BY <2>4, <5>1
        <5>3. Batch[j + 1] \in analysed' <=> j < at[e] \/ j = at[e]
          BY <3>1, <3>2, <4>2, <5>2
        <5> QED BY <3>2, <4>1, <5>1, <5>3
      <4>4. CASE a # e
        <5>1. j # at[e] /\ Reached(a)' = Reached(a)
          BY <2>5, <3>1, <3>2, <4>1, <4>4
        <5> QED BY <2>4, <3>1, <4>2, <5>1
      <4> QED BY <4>3, <4>4
    <3> QED BY <2>1, <2>2, <2>3, <3>3 DEF SharesDone
  <2>7. CASE ~(\E e \in Actors : Ends(e))
    <3>1. analysed' = analysed
      <4> USE DEF endVars, ringVars, sizeVars, workVars, anVars, passVars
      <4>1. ~(\E f \in Verdicts : OutEnd(f))
        BY <2>7 DEF Ends, Actors
      <4>2. ~(\E t \in Threads : \E f \in Verdicts : NextEnd(t, f))
        <5>1. \A t \in Threads : t # 0
          BY OutThreadAssumption DEF Threads
        <5> QED BY <2>7, <5>1 DEF Ends, Actors
      <4>3. ~(\E f \in Verdicts : OutSerial(f))
        BY <1>4 DEF OutSerial, Sharing
      <4> QED BY <4>1, <4>2, <4>3
             DEF Next, OutStep, OutExit, OutCreate, OutCreated, Push, PushTerminating, PushBatch,
         Delete, OutTerm, OutTermJoined, OutIdle, OutTake, OutPost, OutEarlyPush, OutEarlyEnd,
         OutBegin, Begin, OutOwnEnd, OutJoin, OutRest, OutIdlePushBatch, NextStep, OutRelease,
         NextStart, NextHead, NextWake, NextBegin, NextDone, NextReport,
         AddNextThread, RemoveNextThread, Terminate, StopCall, StopJoined, vars
    <3>2. \A a \in Sharers : \A j \in InShare(ShareOf(a)) : j < Reached(a)' <=> j < Reached(a)
      BY <1>4, <2>1, <2>7, ReachedKept
    <3> QED BY <2>1, <2>2, <2>3, <2>4, <3>1, <3>2 DEF SharesDone
  <2> QED BY <2>6, <2>7
<1>5. CASE Passing' /\ Passing /\ ~Sharing
  <2>1. ~Sharing' /\ outPc = "serial" /\ outPc' = "serial"
    BY <1>5, PassingBegins DEF Passing
  <2>2. Batch' = Batch /\ Count' = Count
    BY <1>5, BatchKept
  <2>3. \A i \in 1..Count : Batch[i] \in analysed <=> i <= completed
    BY <1>1, <2>1 DEF SharesDone
  <2>4. CASE \E f \in Verdicts : OutSerial(f)
    <3>1. analysed' = analysed \cup {Batch[completed + 1]} /\ completed' = completed + 1
          /\ completed < Count
      BY <2>4 DEF OutSerial
    <3>2. completed \in Nat /\ completed + 1 \in 1..Count
      BY <1>5, <3>1, SerialItem
    <3>3. /\ \A x, y \in 1..Count : x < y => Batch[x] < Batch[y]
          /\ \A x \in 1..Count : Batch[x] \in Int
      BY <1>5, BatchOrder
    <3>4. \A i \in 1..Count : Batch[i] \in analysed' <=> i <= completed + 1
      BY <2>3, <3>1, <3>2, <3>3
    <3> QED BY <2>1, <2>2, <3>1, <3>4 DEF SharesDone
  <2>5. CASE ~(\E f \in Verdicts : OutSerial(f))
    <3>1. busy[0] = 0 /\ \A t \in Threads : busy[t] = 0
      BY <1>5, BusyItem DEF Actors
    <3>2. UNCHANGED <<analysed, completed>>
      <4> USE DEF endVars, ringVars, sizeVars, workVars, anVars, passVars
      <4>1. ~OutTake /\ ~OutRelease /\ ~OutEarlyPush /\ ~OutRest
        BY <2>1 DEF OutTake, OutRelease, OutEarlyPush, OutRest, Looking
      <4> QED BY <2>5, <3>1, <4>1
             DEF Next, OutStep, OutExit, OutCreate, OutCreated, Push, PushTerminating, PushBatch,
         Delete, OutTerm, OutTermJoined, OutIdle, OutPost, OutEarlyEnd, OutEnd, NextEnd, End,
         OutBegin, Begin, OutOwnEnd, OutJoin, OutIdlePushBatch, NextStep,
         NextStart, NextHead, NextWake, NextBegin, NextDone, NextReport,
         AddNextThread, RemoveNextThread, Terminate, StopCall, StopJoined, vars
    <3> QED BY <2>1, <2>2, <2>3, <3>2 DEF SharesDone
  <2> QED BY <2>4, <2>5
<1> QED BY <1>2, <1>3, <1>4, <1>5

\* Every step keeps the flags to items that were analysed.
LEMMA FlagsNext ==
    ASSUME IInv, [Next]_vars
    PROVE  FlagsInv'
<1>1. TypeOK /\ FlagsInv /\ flag \in [0..BatchLength - 1 -> {-1, 0, 1}]
  BY DEF IInv, AnalysisInv, TypeOK
<1>2. CASE ~Sharing'
  BY <1>2 DEF FlagsInv
<1>3. CASE Sharing' /\ ~Passing
  <2>1. OutTake
    BY <1>3, PassingBegins DEF Passing
  <2> QED BY <2>1 DEF OutTake, FlagsInv
<1>4. CASE Sharing' /\ Passing
  <2>1. Sharing /\ Passing'
    BY <1>4, PassingBegins DEF Passing
  <2>2. Batch' = Batch /\ Count' = Count
    BY <1>4, <2>1, BatchKept
  <2>3. analysed \subseteq analysed'
    BY AnalysedStep
  <2>4. \A j \in 0..BatchLength - 1 : flag'[j] # flag[j] =>
          \E e \in Actors : Ends(e) /\ j = at[e]
    <3> USE DEF endVars, ringVars, sizeVars, workVars, anVars, passVars
    <3>1. ~OutTake
      BY <2>1 DEF OutTake, Looking, Sharing
    <3>2. CASE \E f \in Verdicts : OutEnd(f)
      <4>1. Ends(0) /\ 0 \in Actors
        BY <3>2 DEF Ends, Actors
      <4>2. \A j \in 0..BatchLength - 1 : flag'[j] # flag[j] => j = at[0]
        BY <1>1, <3>2 DEF OutEnd
      <4> QED BY <4>1, <4>2
    <3>3. CASE \E t \in Threads : \E f \in Verdicts : NextEnd(t, f)
      <4>0. PICK t \in Threads : \E f \in Verdicts : NextEnd(t, f)
        BY <3>3
      <4>1. Ends(t) /\ t \in Actors
        BY <4>0, OutThreadAssumption DEF Ends, Actors, Threads
      <4>2. \A j \in 0..BatchLength - 1 : flag'[j] # flag[j] => j = at[t]
        BY <1>1, <4>0 DEF NextEnd
      <4> QED BY <4>1, <4>2
    <3>4. CASE flag' = flag
      BY <3>4
    <3> QED BY <3>1, <3>2, <3>3, <3>4
             DEF Next, OutStep, OutExit, OutCreate, OutCreated, Push, PushTerminating, PushBatch,
         Delete, OutTerm, OutTermJoined, OutIdle, OutPost, OutEarlyPush, OutEarlyEnd,
         OutBegin, Begin, OutOwnEnd, OutJoin, OutRest, OutSerial, OutIdlePushBatch, NextStep,
         OutRelease, NextStart, NextHead, NextWake, NextBegin, NextDone, NextReport,
         AddNextThread, RemoveNextThread, Terminate, StopCall, StopJoined, vars
  <2>5. \A e \in Actors : Ends(e) => at[e] < Count /\ Batch[at[e] + 1] \in analysed'
    <3>1. ASSUME NEW e \in Actors, Ends(e)
          PROVE  at[e] < Count /\ Batch[at[e] + 1] \in analysed'
      <4>1. busy[e] # 0 /\ analysed' = analysed \cup {busy[e]}
        BY <3>1, ReachedEnds
      <4>2. at[e] \in 0..Count - 1 /\ busy[e] = Batch[at[e] + 1]
        BY <4>1, BusyItem
      <4> QED BY <1>1, <4>1, <4>2, Types
    <3> QED BY <3>1
  <2>6. \A j \in 0..BatchLength - 1 : flag[j] # 0 => j < Count /\ Batch[j + 1] \in analysed
    BY <1>1, <2>1 DEF FlagsInv
  <2> QED BY <2>2, <2>3, <2>4, <2>5, <2>6 DEF FlagsInv
<1> QED BY <1>2, <1>3, <1>4

-----------------------------------------------------------------------------
(* The packets inside the stage. *)

\* Position i of slot s holds a packet that is still inside.
In(s, i) == Full(s, i) /\ (s = readit => i > completed)

HeldFact == \A s \in Slots : \A i \in 1..BatchLength : <<s, i>> \in Held <=> In(s, i)

InsideFact ==
    \A p : p \in Inside <=> \E s \in Slots : \E i \in 1..BatchLength : In(s, i) /\ p = Item(s, i)

\* The positions that hold packets, and the packets inside.
LEMMA HeldIs == TypeOK /\ SlotsInv => HeldFact /\ InsideFact
<1> SUFFICES ASSUME TypeOK, SlotsInv PROVE HeldFact /\ InsideFact
  OBVIOUS
<1>1. BatchLength \in Nat /\ completed \in Int /\ writeit \in Slots /\ readit \in Slots
  BY OutThreadAssumption DEF TypeOK
<1>2. ASSUME NEW s \in Slots, NEW i \in 1..BatchLength
      PROVE  <<s, i>> \in Held <=> In(s, i)
  <2>1. <<s, i>> \in Held <=>
            \/ qring[s].used /\ i <= qring[s].count /\ (s = readit => i > completed)
            \/ pushing /\ s = writeit /\ i <= Len(qring[s].batch)
    BY DEF Held
  <2>2. CASE qring[s].used
    BY <2>1, <2>2 DEF SlotsInv, In, Full, Live
  <2>3. CASE ~qring[s].used
    <3>1. s = readit => completed = 0
      BY <2>3 DEF SlotsInv
    <3> QED BY <1>1, <2>1, <2>3, <3>1 DEF In, Full, Live
  <2> QED BY <2>2, <2>3
<1>3. HeldFact
  BY <1>2 DEF HeldFact
<1>4. \A p : p \in Inside <=> \E s \in Slots : \E i \in 1..BatchLength :
                                 <<s, i>> \in Held /\ p = qring[s].batch[i]
  <2>1. \A p : p \in Inside <=> \E x \in Held : p = qring[x[1]].batch[x[2]]
    BY DEF Inside
  <2>2. ASSUME NEW p, NEW x \in Held, p = qring[x[1]].batch[x[2]]
        PROVE  \E s \in Slots : \E i \in 1..BatchLength : <<s, i>> \in Held /\ p = qring[s].batch[i]
    <3>1. x[1] \in Slots /\ x[2] \in 1..BatchLength /\ x = <<x[1], x[2]>>
      BY DEF Held
    <3>2. <<x[1], x[2]>> \in Held
      BY <3>1
    <3> QED BY <2>2, <3>1, <3>2
  <2>3. ASSUME NEW p, NEW s \in Slots, NEW i \in 1..BatchLength, <<s, i>> \in Held,
               p = qring[s].batch[i]
        PROVE  \E x \in Held : p = qring[x[1]].batch[x[2]]
    <3>1. <<s, i>>[1] = s /\ <<s, i>>[2] = i
      OBVIOUS
    <3> QED BY <2>3, <3>1
  <2>4. ASSUME NEW p
        PROVE  p \in Inside <=> \E s \in Slots : \E i \in 1..BatchLength :
                                 <<s, i>> \in Held /\ p = qring[s].batch[i]
    <3>1. p \in Inside <=> \E x \in Held : p = qring[x[1]].batch[x[2]]
      BY <2>1
    <3>2. (\E x \in Held : p = qring[x[1]].batch[x[2]]) =>
            \E s \in Slots : \E i \in 1..BatchLength : <<s, i>> \in Held /\ p = qring[s].batch[i]
      BY <2>2
    <3>3. (\E s \in Slots : \E i \in 1..BatchLength : <<s, i>> \in Held /\ p = qring[s].batch[i])
            => \E x \in Held : p = qring[x[1]].batch[x[2]]
      BY <2>3
    <3> QED BY <3>1, <3>2, <3>3
  <2> QED BY <2>4
<1>5. InsideFact
  BY <1>2, <1>4 DEF InsideFact, Item
<1> QED BY <1>3, <1>5

\* The same after a step.
LEMMA HeldIsNext ==
    ASSUME IInv, [Next]_vars
    PROVE  HeldFact /\ InsideFact /\ HeldFact' /\ InsideFact'
<1>1. TypeOK /\ SlotsInv /\ TypeOK' /\ SlotsInv'
  BY TypeNext, SlotsNext DEF IInv
<1>2. TypeOK' /\ SlotsInv' => HeldFact' /\ InsideFact'
  BY HeldIs, PTL
<1> QED BY <1>1, <1>2, HeldIs

\* The packet at the front of the batch leaves it.
PassStep == OutEarlyPush \/ OutRest \/ \E f \in Verdicts : OutSerial(f)

\* The items of a batch were all analysed when its next threads were awaited.
LEMMA RestAnalysed ==
    ASSUME IInv, outPc = "rest", NEW j \in 0..Count - 1
    PROVE  Batch[j + 1] \in analysed
<1>1. TypeOK /\ SlotsInv /\ PhaseInv /\ ThreadsInv /\ SharesDone /\ Sharing /\ Passing
  BY DEF IInv, AnalysisInv, Sharing, Passing
<1>2. Count = Len(Batch) /\ n >= 1 /\ n \in 0..MaxThreads /\ Count \in Nat
  <2>1. Count = Len(Batch) /\ Count \in Nat
    BY <1>1, BatchItems, Types
  <2> QED BY <1>1, <2>1 DEF PhaseInv, TypeOK
<1>3. Owner(j) \in Sharers /\ j \in InShare(ShareOf(Owner(j)))
  BY <1>1, <1>2, OwnerShares
<1>4. PICK a \in Sharers : a = Owner(j)
  BY <1>3
<1>5. Reached(a) = BatchLength
  <2>1. CASE a = 0
    BY <2>1 DEF Reached
  <2>2. CASE a # 0
    <3>1. a \in Threads
      BY <1>2, <2>2, OutThreadAssumption DEF Sharers, Threads
    <3>2. Idle(a)
      BY <1>1, <3>1 DEF ThreadsInv, Posted, Leaving
    <3> QED BY <2>2, <3>2 DEF Idle, Reached
  <2> QED BY <2>1, <2>2
<1>6. j < Reached(a)
  BY <1>1, <1>3, <1>4, <1>5, OutThreadAssumption DEF InShare
<1> QED BY <1>1, <1>3, <1>4, <1>6 DEF SharesDone

\* The packet that leaves the batch is the oldest one inside; it was analysed, and is
\* handed on or destroyed, not both.
LEMMA PassEffect ==
    ASSUME IInv, PassStep, [Next]_vars
    PROVE  \E p \in Packets :
              /\ p \in Inside /\ \A q \in Inside : q # p => p < q
              /\ \A q : q \in Inside' <=> q \in Inside /\ q # p
              /\ p \in analysed' /\ analysed \subseteq analysed'
              /\ \/ out' = Append(out, p) /\ gone' = gone /\ p \notin gone
                 \/ out' = out /\ gone' = gone \cup {p}
              /\ UNCHANGED <<qring, writeit, pushing, arrived, readit, flag, conf, stop, outPc>>
              /\ completed' = completed + 1 /\ completed \in Nat
<1> USE DEF endVars, ringVars, sizeVars, workVars, anVars, passVars
<1>1. TypeOK /\ SlotsInv /\ GoneInv /\ FlagsInv /\ BatchLength \in Nat /\ readit \in Slots
  BY OutThreadAssumption DEF IInv, AnalysisInv, AccountInv, TypeOK
<1>2. Passing /\ completed < Count /\ completed' = completed + 1
  BY DEF PassStep, OutEarlyPush, OutRest, OutSerial, Passing, Sharing
<1>3. UNCHANGED <<qring, writeit, pushing, arrived, readit, flag, conf, stop, outPc>>
  BY DEF PassStep, OutEarlyPush, OutRest, OutSerial
<1>4. /\ completed \in Nat /\ completed + 1 \in 1..Count /\ completed \in 0..BatchLength - 1
      /\ Batch[completed + 1] \in 1..arrived
  BY <1>2, SerialItem
<1>5. PICK p \in Packets : p = Batch[completed + 1]
  <2>1. \A j \in 1..Count : Batch[j] \in Packets
    BY <1>1, <1>2, BatchItems
  <2> QED BY <1>4, <2>1
<1>6. HeldFact /\ InsideFact /\ HeldFact' /\ InsideFact'
  BY HeldIsNext
<1>7. /\ Count \in 0..BatchLength
      /\ \A j \in 1..Count : Full(readit, j) /\ Batch[j] = Item(readit, j) /\ Batch[j] \in 1..arrived
      /\ \A i, j \in 1..Count : i < j => Batch[i] < Batch[j]
      /\ \A j \in 1..Count : \A s \in Slots : \A i \in 1..BatchLength :
            Full(s, i) /\ s # readit => Batch[j] < Item(s, i)
  BY <1>2, BatchOrder
<1>8. In(readit, completed + 1) /\ p = Item(readit, completed + 1)
  BY <1>4, <1>5, <1>7 DEF In
<1>9. \A i \in 1..BatchLength : Full(readit, i) => i \in 1..Count
  BY <1>1, <1>2, BatchItems DEF Full, Batch, Count
<1>10. ASSUME NEW s \in Slots, NEW i \in 1..BatchLength, In(s, i), s # readit \/ i # completed + 1
       PROVE  p < Item(s, i) /\ Item(s, i) # p
  <2>0. p \in Int
    BY <1>5 DEF Packets
  <2>1. CASE s # readit
    <3>1. Full(s, i)
      BY <1>10 DEF In
    <3> QED BY <1>4, <1>5, <1>7, <2>0, <2>1, <3>1
  <2>2. CASE s = readit
    <3>1. i \in 1..Count /\ i > completed + 1
      BY <1>4, <1>9, <1>10, <2>2 DEF In
    <3>2. Item(s, i) = Batch[i] /\ Batch[completed + 1] < Batch[i]
      BY <1>4, <1>7, <2>2, <3>1
    <3> QED BY <1>5, <2>0, <3>2
  <2> QED BY <2>1, <2>2
<1>11. \A s \in Slots : \A i \in 1..BatchLength :
          (In(s, i)' <=> In(s, i) /\ (s # readit \/ i # completed + 1)) /\ Item(s, i)' = Item(s, i)
  BY <1>2, <1>3, <1>4 DEF In, Full, Live, Item
<1>12. completed + 1 \in 1..BatchLength
  BY <1>1, <1>4
<1>13. p \in Inside /\ \A q \in Inside : q # p => p < q
  <2>1. p \in Inside
    BY <1>1, <1>6, <1>8, <1>12 DEF InsideFact
  <2>2. ASSUME NEW q \in Inside, q # p
        PROVE  p < q
    <3>1. PICK s \in Slots, i \in 1..BatchLength : In(s, i) /\ q = Item(s, i)
      BY <1>6, <2>2 DEF InsideFact
    <3>2. s # readit \/ i # completed + 1
      BY <1>8, <2>2, <3>1
    <3> QED BY <1>10, <3>1, <3>2
  <2> QED BY <2>1, <2>2
<1>14. ASSUME NEW q
       PROVE  q \in Inside' <=> q \in Inside /\ q # p
  <2>1. ASSUME q \in Inside'
        PROVE  q \in Inside /\ q # p
    <3>1. PICK s \in Slots, i \in 1..BatchLength : In(s, i)' /\ q = Item(s, i)'
      BY <1>6, <2>1 DEF InsideFact
    <3>2. In(s, i) /\ (s # readit \/ i # completed + 1) /\ q = Item(s, i)
      BY <1>11, <3>1
    <3>3. q # p
      BY <1>10, <3>2
    <3>4. q \in Inside
      BY <1>6, <3>2 DEF InsideFact
    <3> QED BY <3>3, <3>4
  <2>2. ASSUME q \in Inside, q # p
        PROVE  q \in Inside'
    <3>1. PICK s \in Slots, i \in 1..BatchLength : In(s, i) /\ q = Item(s, i)
      BY <1>6, <2>2 DEF InsideFact
    <3>2. s # readit \/ i # completed + 1
      BY <1>8, <2>2, <3>1
    <3>3. In(s, i)' /\ q = Item(s, i)'
      BY <1>11, <3>1, <3>2
    <3> QED BY <1>6, <3>3 DEF InsideFact
  <2> QED BY <2>1, <2>2
<1>15. p \in analysed' /\ analysed \subseteq analysed'
  <2>1. CASE OutEarlyPush
    <3>1. flag[completed] # 0 /\ Sharing /\ analysed' = analysed
      BY <2>1 DEF OutEarlyPush, Sharing
    <3> QED BY <1>1, <1>4, <1>5, <3>1 DEF FlagsInv
  <2>2. CASE OutRest
    <3>0. completed \in 0..Count - 1
      BY <1>4, <1>7
    <3>1. outPc = "rest" /\ analysed' = analysed /\ completed \in 0..Count - 1
      BY <2>2, <3>0 DEF OutRest
    <3> QED BY <1>5, <3>1, RestAnalysed
  <2>3. CASE \E f \in Verdicts : OutSerial(f)
    BY <1>5, <2>3 DEF OutSerial
  <2> QED BY <2>1, <2>2, <2>3 DEF PassStep
<1>16. \/ out' = Append(out, p) /\ gone' = gone /\ p \notin gone
       \/ out' = out /\ gone' = gone \cup {p}
  <2>1. <<readit, completed + 1>> \in Held
    BY <1>1, <1>6, <1>8, <1>12 DEF HeldFact
  <2>2. p \in gone => conf.type = "defrag" /\ Sharing /\ flag[completed] = -1
    <3>1. <<readit, completed + 1>>[1] = readit /\ <<readit, completed + 1>>[2] = completed + 1
      OBVIOUS
    <3>2. Item(readit, completed + 1) \in gone =>
             conf.type = "defrag" /\ Sharing /\ flag[(completed + 1) - 1] = -1
      BY <1>1, <2>1, <3>1 DEF GoneInv
    <3>3. (completed + 1) - 1 = completed
      BY <1>4
    <3> QED BY <1>8, <3>2, <3>3
  <2>3. CASE OutEarlyPush \/ OutRest
    <3>1. PassOn(p, flag[completed])
      BY <1>5, <2>3 DEF OutEarlyPush, OutRest
    <3> QED BY <2>2, <3>1 DEF PassOn
  <2>4. CASE \E f \in Verdicts : OutSerial(f)
    <3>1. PICK f \in Verdicts : OutSerial(f)
      BY <2>4
    <3>2. PassOn(p, f) /\ ~Sharing
      BY <1>5, <3>1 DEF OutSerial, Sharing
    <3> QED BY <2>2, <3>2 DEF PassOn
  <2> QED BY <2>3, <2>4 DEF PassStep
<1> QED BY <1>2, <1>3, <1>4, <1>13, <1>14, <1>15, <1>16

\* Apart from those that push, pass on or delete, a step leaves the packets inside as they are.
LEMMA InsideKept ==
    ASSUME IInv, [Next]_vars, ~PassStep, ~(\E late \in BOOLEAN : Push(late)), ~Delete
    PROVE  /\ \A s \in Slots : \A i \in 1..BatchLength :
                 (In(s, i)' <=> In(s, i)) /\ Item(s, i)' = Item(s, i)
           /\ Inside' = Inside
<1>1. TypeOK /\ SlotsInv /\ readit \in Slots /\ BatchLength \in Nat
  BY OutThreadAssumption DEF IInv, TypeOK
<1>2. ASSUME NEW s \in Slots, NEW i \in 1..BatchLength
      PROVE  (In(s, i)' <=> In(s, i)) /\ Item(s, i)' = Item(s, i)
  <2>1. CASE ~RingStep
    <3>1. UNCHANGED <<qring, writeit, readit, pushing>>
      BY <2>1, RingKept
    <3>2. completed' = completed
      <4> USE DEF endVars, ringVars, sizeVars, workVars, anVars, passVars
      <4>1. CASE OutTake
        BY <1>1, <4>1 DEF OutTake, Looking, SlotsInv, Passing, Sharing
      <4> QED BY <2>1, <4>1
             DEF RingStep, PassStep, Next, OutStep, OutExit, OutCreate, OutCreated,
                 OutTerm, OutTermJoined, OutIdle, OutPost, OutEarlyEnd,
                 OutBegin, OutEnd, OutOwnEnd, OutJoin, OutIdlePushBatch, NextStep,
                 NextStart, NextHead, NextWake, NextBegin, NextEnd, NextDone, NextReport,
                 AddNextThread, RemoveNextThread, Terminate, StopCall, StopJoined, vars
    <3> QED BY <3>1, <3>2 DEF In, Full, Live, Item
  <2>2. CASE PushTerminating
    BY <2>2 DEF PushTerminating, In, Full, Live, Item
  <2>3. CASE PushBatch
    <3>1. (Full(s, i)' <=> Full(s, i)) /\ Item(s, i)' = Item(s, i)
      BY <2>3, PushBatchEffect
    <3>2. UNCHANGED <<readit, completed>>
      BY <2>3 DEF PushBatch
    <3> QED BY <3>1, <3>2 DEF In
  <2>4. CASE OutRelease
    <3>1. /\ (Full(s, i)' <=> Full(s, i) /\ s # readit) /\ Item(s, i)' = Item(s, i)
          /\ Passing /\ completed = Count /\ completed' = 0
      BY <2>4, ReleaseEffect
    <3>2. Full(readit, i) => i <= Count /\ Count \in Nat
      BY <1>1, <3>1, BatchItems DEF Full, Batch, Count
    <3> QED BY <1>1, <3>1, <3>2 DEF In
  <2> QED BY <2>1, <2>2, <2>3, <2>4 DEF RingStep
<1>3. InsideFact /\ InsideFact'
  BY HeldIsNext
<1>4. \A p : p \in Inside' <=> \E s \in Slots : \E i \in 1..BatchLength : In(s, i)' /\ p = Item(s, i)'
  BY <1>3 DEF InsideFact
<1>5. \A p : p \in Inside <=> \E s \in Slots : \E i \in 1..BatchLength : In(s, i) /\ p = Item(s, i)
  BY <1>3 DEF InsideFact
<1>6. \A p : p \in Inside' <=> p \in Inside
  BY <1>2, <1>4, <1>5
<1> QED BY <1>2, <1>6

\* A pushed packet is inside.
LEMMA InsidePush ==
    ASSUME IInv, [Next]_vars, NEW late \in BOOLEAN, Push(late)
    PROVE  /\ \A p : p \in Inside' <=> p \in Inside \/ p = arrived + 1
           /\ \A s \in Slots : \A i \in 1..BatchLength : In(s, i)' =>
                 \/ In(s, i) /\ Item(s, i)' = Item(s, i)
                 \/ Item(s, i)' = arrived + 1
<1>1. PICK w \in Slots, m \in 1..BatchLength :
              /\ w = writeit
              /\ \A s \in Slots : \A i \in 1..BatchLength :
                    /\ Full(s, i)' <=> Full(s, i) \/ (s = w /\ i = m)
                    /\ Full(s, i) => Item(s, i)' = Item(s, i)
                    /\ Full(s, i) /\ s = w => i < m
              /\ ~Full(w, m) /\ Full(w, m)' /\ Item(w, m)' = arrived + 1
  BY PushEffect
<1>2. UNCHANGED <<readit, completed>>
  BY DEF Push
<1>3. w = readit => completed = 0
  <2>1. ~qring[writeit].used
    BY WriteFree DEF Push
  <2> QED BY <1>1, <2>1 DEF IInv, SlotsInv
<1>4. \A s \in Slots : \A i \in 1..BatchLength : In(s, i)' <=> In(s, i) \/ (s = w /\ i = m)
  BY <1>1, <1>2, <1>3 DEF In
<1>5. InsideFact /\ InsideFact'
  BY HeldIsNext
<1>6. \A p : p \in Inside' <=> \E s \in Slots : \E i \in 1..BatchLength : In(s, i)' /\ p = Item(s, i)'
  BY <1>5 DEF InsideFact
<1>7. \A p : p \in Inside <=> \E s \in Slots : \E i \in 1..BatchLength : In(s, i) /\ p = Item(s, i)
  BY <1>5 DEF InsideFact
<1>8. \A s \in Slots : \A i \in 1..BatchLength : In(s, i) => Item(s, i)' = Item(s, i)
  BY <1>1 DEF In
<1>9. \A p : p \in Inside' <=> p \in Inside \/ p = arrived + 1
  BY <1>1, <1>4, <1>6, <1>7, <1>8
<1> QED BY <1>1, <1>4, <1>8, <1>9

\* What is inside has arrived.
LEMMA InsideArrived ==
    ASSUME IInv
    PROVE  Inside \subseteq 1..arrived
<1>1. InsideFact
  BY HeldIs DEF IInv
<1>2. \A s \in Slots : \A i \in 1..BatchLength : In(s, i) => Item(s, i) \in 1..arrived
  BY ItemTypes DEF In
<1> QED BY <1>1, <1>2 DEF InsideFact

\* A packet that is being analysed was not analysed before and has no flag.
LEMMA BusyUntouched ==
    ASSUME IInv, NEW a \in Actors, busy[a] # 0
    PROVE  busy[a] \notin analysed /\ flag[at[a]] = 0
<1>1. /\ Sharing /\ a \in Sharers /\ Active(a) /\ at[a] \in InShare(ShareOf(a))
      /\ busy[a] = Batch[at[a] + 1]
  BY BusyItem
<1>2. Reached(a) = at[a] /\ at[a] \in Nat
  BY <1>1, ReachedActive DEF IInv, TypeOK, Actors
<1>3. busy[a] \notin analysed
  BY <1>1, <1>2 DEF IInv, AnalysisInv, SharesDone
<1>4. at[a] \in 0..BatchLength - 1
  BY <1>1 DEF InShare
<1> QED BY <1>1, <1>3, <1>4 DEF IInv, AnalysisInv, FlagsInv

-----------------------------------------------------------------------------
(* The account of the packets. *)

\* The elements of a sequence that grows by one.
LEMMA ElementsAppend ==
    ASSUME NEW S, NEW s \in Seq(S), NEW p \in S
    PROVE  Elements(Append(s, p)) = Elements(s) \cup {p}
<1>1. /\ DOMAIN s = 1..Len(s) /\ Len(s) \in Nat /\ DOMAIN Append(s, p) = 1..Len(s) + 1
      /\ Append(s, p)[Len(s) + 1] = p /\ \A i \in 1..Len(s) : Append(s, p)[i] = s[i]
  OBVIOUS
<1>2. PICK t : t = Append(s, p)
  OBVIOUS
<1>3. \A i \in 1..Len(s) + 1 : i \in 1..Len(s) \/ i = Len(s) + 1
  BY <1>1
<1>4. Elements(t) = Elements(s) \cup {p}
  <2>1. \A x : x \in Elements(t) <=> \E i \in 1..Len(s) + 1 : x = t[i]
    BY <1>1, <1>2 DEF Elements
  <2>2. \A x : x \in Elements(s) <=> \E i \in 1..Len(s) : x = s[i]
    BY <1>1 DEF Elements
  <2>3. \A i \in 1..Len(s) : i \in 1..Len(s) + 1
    BY <1>1
  <2>4. Len(s) + 1 \in 1..Len(s) + 1
    BY <1>1
  <2>5. \A x : x \in Elements(t) <=> x \in Elements(s) \/ x = p
    BY <1>1, <1>2, <1>3, <2>1, <2>2, <2>3, <2>4
  <2> QED BY <2>5
<1> QED BY <1>2, <1>4

\* What a step does to the account.
LEMMA AccountKept ==
    ASSUME IInv, [Next]_vars, ~PassStep, ~(\E late \in BOOLEAN : Push(late)), ~PushTerminating,
           ~(\E e \in Actors : Ends(e)), ~Delete
    PROVE  /\ UNCHANGED <<out, gone, arrived, conf>> /\ (stop = "deleted" <=> stop' = "deleted")
           /\ analysed' = analysed
           /\ OutTake \/ UNCHANGED flag
<1> USE DEF endVars, ringVars, sizeVars, workVars, anVars, passVars
<1>1. ~(\E f \in Verdicts : OutEnd(f))
  BY DEF Ends, Actors
<1>2. ~(\E t \in Threads : \E f \in Verdicts : NextEnd(t, f))
  <2>1. \A t \in Threads : t # 0
    BY OutThreadAssumption DEF Threads
  <2> QED BY <2>1 DEF Ends, Actors
<1>3. CASE PushBatch \/ OutRelease \/ StopCall \/ StopJoined \/ Terminate
           \/ AddNextThread \/ RemoveNextThread \/ UNCHANGED vars
  BY <1>3 DEF PushBatch, OutRelease, StopCall, StopJoined, Terminate, AddNextThread, RemoveNextThread,
              vars
<1>4. CASE \E t \in Threads : NextStep(t)
  BY <1>2, <1>4 DEF NextStep, NextStart, NextHead, NextWake, NextBegin, Begin, NextDone, NextReport
<1>5. CASE OutExit \/ OutCreate \/ OutCreated \/ OutTerm \/ OutTermJoined \/ OutIdle \/ OutTake
           \/ OutIdlePushBatch
  BY <1>5 DEF OutExit, OutCreate, OutCreated, OutTerm, OutTermJoined, OutIdle, OutTake,
              OutIdlePushBatch
<1>6. CASE OutPost \/ OutEarlyEnd \/ OutBegin \/ OutOwnEnd \/ OutJoin
  BY <1>6 DEF OutPost, OutEarlyEnd, OutBegin, Begin, OutOwnEnd, OutJoin
<1> QED BY <1>1, <1>3, <1>4, <1>5, <1>6 DEF Next, OutStep, PassStep

\* The invariant as a statement on positions.
GoneFact ==
    \A s \in Slots : \A i \in 1..BatchLength : In(s, i) /\ Item(s, i) \in gone =>
        conf.type = "defrag" /\ Sharing /\ s = readit /\ flag[i - 1] = -1

GoneArrived == gone \subseteq 1..arrived

\* The two forms say the same.
LEMMA GoneIs == HeldFact => (GoneInv <=> GoneArrived /\ GoneFact)
<1> SUFFICES ASSUME HeldFact PROVE GoneInv <=> GoneArrived /\ GoneFact
  OBVIOUS
<1>1. ASSUME GoneInv, NEW s \in Slots, NEW i \in 1..BatchLength, In(s, i), Item(s, i) \in gone
      PROVE  conf.type = "defrag" /\ Sharing /\ s = readit /\ flag[i - 1] = -1
  <2>1. <<s, i>> \in Held /\ <<s, i>>[1] = s /\ <<s, i>>[2] = i
    BY <1>1 DEF HeldFact
  <2> QED BY <1>1, <2>1 DEF GoneInv
<1>2. ASSUME GoneFact, NEW x \in Held, Item(x[1], x[2]) \in gone
      PROVE  conf.type = "defrag" /\ Sharing /\ x[1] = readit /\ flag[x[2] - 1] = -1
  <2>1. x[1] \in Slots /\ x[2] \in 1..BatchLength /\ x = <<x[1], x[2]>>
    BY DEF Held
  <2>2. In(x[1], x[2])
    BY <2>1 DEF HeldFact
  <2> QED BY <1>2, <2>1, <2>2 DEF GoneFact
<1> QED BY <1>1, <1>2 DEF GoneInv, GoneFact, GoneArrived

\* The end of an analysis, for the account.
LEMMA EndsEffect ==
    ASSUME IInv, NEW e \in Actors, Ends(e)
    PROVE  /\ UNCHANGED <<out, arrived, conf, stop, readit, qring, outPc>>
           /\ busy[e] # 0 /\ analysed \subseteq analysed' /\ flag' \in [0..BatchLength - 1 -> {-1, 0, 1}]
           /\ \/ gone' = gone
              \/ gone' = gone \cup {busy[e]} /\ flag'[at[e]] = -1 /\ conf.type = "defrag"
           /\ \A j \in 0..BatchLength - 1 : j # at[e] => flag'[j] = flag[j]
<1> USE DEF endVars, ringVars, sizeVars, workVars, anVars, passVars
<1>1. busy[e] # 0 /\ UNCHANGED <<out, arrived, conf, stop, readit, qring, outPc>>
      /\ analysed \subseteq analysed'
  BY DEF Ends, OutEnd, NextEnd, End
<1>2. at[e] \in 0..BatchLength - 1
  <2>1. at[e] \in InShare(ShareOf(e))
    BY <1>1, BusyItem
  <2> QED BY <2>1 DEF InShare
<1>3. flag \in [0..BatchLength - 1 -> {-1, 0, 1}]
  BY DEF IInv, TypeOK
<1>4. PICK f \in Verdicts : \/ e = 0 /\ OutEnd(f)
                            \/ e # 0 /\ e \in Threads /\ NextEnd(e, f)
  BY DEF Ends
<1>5. f \in {-1, 1} /\ gone' = IF f < 0 /\ conf.type = "defrag" THEN gone \cup {busy[e]} ELSE gone
  BY <1>4 DEF Verdicts, OutEnd, NextEnd, End
<1>6. \/ flag' = [flag EXCEPT ![at[e]] = f]
      \/ flag' = flag /\ conf.type = "detach"
  BY <1>4 DEF OutEnd, NextEnd
<1>7. flag' \in [0..BatchLength - 1 -> {-1, 0, 1}]
  BY <1>2, <1>3, <1>5, <1>6
<1>8. \A j \in 0..BatchLength - 1 : j # at[e] => flag'[j] = flag[j]
  BY <1>2, <1>3, <1>6
<1>9. f < 0 /\ conf.type = "defrag" => flag'[at[e]] = -1
  <2>1. f < 0 => f = -1
    BY <1>5
  <2>2. conf.type = "defrag" => flag' = [flag EXCEPT ![at[e]] = f]
    BY <1>6
  <2>3. conf.type = "defrag" => flag'[at[e]] = f
    BY <1>2, <1>3, <2>2
  <2> QED BY <2>1, <2>3
<1> QED BY <1>1, <1>5, <1>7, <1>8, <1>9

\* Every step keeps what was handed on apart from the rest.
LEMMA PassedNext ==
    ASSUME IInv, [Next]_vars
    PROVE  PassedInv'
<1>1. /\ PassedInv /\ TypeOK /\ Untouched /\ out \in Seq(Packets)
      /\ Elements(out) \subseteq analysed /\ Elements(out) \cap gone = {}
      /\ analysed \subseteq 1..arrived
      /\ \A p \in Elements(out) : \A q \in Inside : p < q
  BY DEF IInv, AccountInv, AnalysisInv, TypeOK, PassedInv, Untouched
<1>2. arrived \in Nat
  BY <1>1, ArrivedNat
<1>5. \A r \in Elements(out) : r \in Int /\ r <= arrived
  <2>1. \A r \in Elements(out) : r \in 1..arrived
    BY <1>1
  <2>2. \A r \in 1..arrived : r \in Int /\ r <= arrived
    BY <1>2
  <2> QED BY <2>1, <2>2
<1>3. CASE PassStep
  <2>1. PICK p \in Packets :
              /\ p \in Inside /\ \A q \in Inside : q # p => p < q
              /\ \A q : q \in Inside' <=> q \in Inside /\ q # p
              /\ p \in analysed' /\ analysed \subseteq analysed'
              /\ \/ out' = Append(out, p) /\ gone' = gone /\ p \notin gone
                 \/ out' = out /\ gone' = gone \cup {p}
    BY <1>3, PassEffect
  <2>2. p \notin Elements(out)
    <3>1. \A r \in Elements(out) : r < p /\ r \in Int
      BY <1>1, <1>5, <2>1
    <3>2. p \in Int
      BY DEF Packets
    <3> QED BY <3>1, <3>2
  <2>3. CASE out' = Append(out, p) /\ gone' = gone /\ p \notin gone
    <3>1. Elements(out)' = Elements(out) \cup {p}
      <4>1. Elements(out)' = Elements(Append(out, p))
        BY <2>3 DEF Elements
      <4> QED BY <1>1, <4>1, ElementsAppend
    <3> QED BY <1>1, <2>1, <2>3, <3>1 DEF PassedInv
  <2>4. CASE out' = out /\ gone' = gone \cup {p}
    <3>1. Elements(out)' = Elements(out)
      BY <2>4 DEF Elements
    <3> QED BY <1>1, <2>1, <2>2, <2>4, <3>1 DEF PassedInv
  <2> QED BY <2>1, <2>3, <2>4
<1>4. CASE ~PassStep
  <2>1. out' = out /\ analysed \subseteq analysed'
    <3>1. analysed \subseteq analysed'
      BY AnalysedStep
    <3>2. out' = out
      <4>1. CASE \E late \in BOOLEAN : Push(late)
        BY <4>1 DEF Push, passVars
      <4>2. CASE \E e \in Actors : Ends(e)
        BY <4>2, EndsEffect
      <4>3. CASE PushTerminating \/ Delete
        BY <4>3 DEF PushTerminating, Delete
      <4> QED BY <1>4, <4>1, <4>2, <4>3, AccountKept
    <3> QED BY <3>1, <3>2
  <2>2. Elements(out)' = Elements(out)
    BY <2>1 DEF Elements
  <2>3. \A p \in Elements(out) : p \notin gone' \* new in gone: not analysed yet, or inside
    <3>1. CASE \E late \in BOOLEAN : Push(late)
      BY <1>1, <3>1 DEF Push, passVars
    <3>2. CASE PushTerminating
      BY <1>1, <1>2, <3>2 DEF PushTerminating
    <3>3. CASE \E e \in Actors : Ends(e)
      <4>1. PICK e \in Actors : Ends(e)
        BY <3>3
      <4>2. busy[e] # 0 /\ (gone' = gone \/ gone' = gone \cup {busy[e]})
        BY <4>1, EndsEffect
      <4>3. busy[e] \notin analysed
        BY <4>2, BusyUntouched
      <4> QED BY <1>1, <4>2, <4>3
    <3>4. CASE Delete
      <4>1. gone' = gone \cup UNION {{qring[s].batch[j] : j \in 1..qring[s].count} : s \in Slots}
            /\ stop = "stopped"
        BY <3>4 DEF Delete
      <4>2. completed = 0
        BY <4>1 DEF IInv, PhaseInv, SlotsInv, Passing, Sharing
      <4>3. \A s \in Slots : \A j \in 1..qring[s].count : qring[s].batch[j] \in Inside
        <5>1. ASSUME NEW s \in Slots, NEW j \in 1..qring[s].count
              PROVE  qring[s].batch[j] \in Inside
          <6>1. qring[s].count \in 0..BatchLength /\ qring[s].used \in BOOLEAN
            BY <1>1, Types
          <6>2. qring[s].used /\ qring[s].count = Len(qring[s].batch)
            BY <5>1, <6>1 DEF IInv, SlotsInv
          <6>3. In(s, j) /\ j \in 1..BatchLength
            BY <4>2, <6>1, <6>2, OutThreadAssumption DEF In, Full, Live
          <6>4. InsideFact
            BY HeldIsNext
          <6> QED BY <6>3, <6>4 DEF InsideFact, Item
        <5> QED BY <5>1
      <4>4. \A q \in Inside : q \notin Elements(out)
        <5>1. \A r \in Elements(out) : r \in Int
          BY <1>5
        <5>2. \A r \in Elements(out) : \A q \in Inside : r < q
          BY <1>1
        <5> QED BY <5>1, <5>2
      <4> QED BY <1>1, <4>1, <4>3, <4>4
    <3> QED BY <1>1, <1>4, <3>1, <3>2, <3>3, <3>4, AccountKept
  <2>4. \A p \in Elements(out) : \A q \in Inside' : p < q
    <3>1. CASE \E late \in BOOLEAN : Push(late)
      <4>1. \A q \in Inside' : q \in Inside \/ q = arrived + 1
        BY <3>1, InsidePush
      <4>2. \A p \in Elements(out) : p < arrived + 1
        BY <1>2, <1>5
      <4> QED BY <1>1, <4>1, <4>2
    <3>2. CASE Delete
      <4>1. InsideFact'
        BY HeldIsNext
      <4>2. \A s \in Slots : \A i : ~Full(s, i)'
        BY <3>2, DeleteEffect
      <4>3. \A q : q \notin Inside'
        BY <4>1, <4>2 DEF InsideFact, In
      <4> QED BY <4>3
    <3>3. CASE ~Delete /\ ~(\E late \in BOOLEAN : Push(late))
      BY <1>1, <1>4, <3>3, InsideKept
    <3> QED BY <3>1, <3>2, <3>3
  <2> QED BY <1>1, <2>1, <2>2, <2>3, <2>4 DEF PassedInv
<1> QED BY <1>3, <1>4

\* Every step keeps the flags of the packets inside that are destroyed.
LEMMA GoneNext ==
    ASSUME IInv, [Next]_vars
    PROVE  GoneInv'
<1>1. HeldFact /\ InsideFact /\ HeldFact' /\ InsideFact'
  BY HeldIsNext
<1>2. GoneInv <=> GoneArrived /\ GoneFact
  BY <1>1, GoneIs
<1>3. HeldFact' => (GoneInv' <=> GoneArrived' /\ GoneFact')
  BY GoneIs, PTL
<1>4. GoneInv /\ TypeOK /\ gone \subseteq 1..arrived /\ GoneFact
  BY <1>2 DEF IInv, AccountInv, GoneArrived
<1>5. arrived \in Nat
  BY <1>4, ArrivedNat
<1>6. \A s \in Slots : \A i \in 1..BatchLength : In(s, i) => Item(s, i) \in 1..arrived
  BY ItemTypes DEF In
<1>7. SUFFICES gone' \subseteq 1..arrived' /\ GoneFact'
  BY <1>1, <1>3 DEF GoneArrived
<1>8. CASE PassStep
  <2>1. PICK p \in Packets :
              /\ p \in Inside /\ \A q : q \in Inside' <=> q \in Inside /\ q # p
              /\ \/ out' = Append(out, p) /\ gone' = gone /\ p \notin gone
                 \/ out' = out /\ gone' = gone \cup {p}
              /\ UNCHANGED <<qring, writeit, pushing, arrived, readit, flag, conf, stop, outPc>>
              /\ completed' = completed + 1 /\ completed \in Nat
    BY <1>8, PassEffect
  <2>2. p \in 1..arrived
    BY <2>1, InsideArrived
  <2>3. gone' \subseteq 1..arrived'
    BY <1>4, <2>1, <2>2
  <2>4. ASSUME NEW s \in Slots, NEW i \in 1..BatchLength, In(s, i)', Item(s, i)' \in gone'
        PROVE  conf'.type = "defrag" /\ Sharing' /\ s = readit' /\ flag'[i - 1] = -1
    <3>1. Item(s, i)' = Item(s, i)
      BY <2>1 DEF Item
    <3>2. In(s, i)
      <4>1. i \in Int
        OBVIOUS
      <4> QED BY <2>1, <2>4, <4>1 DEF In, Full, Live
    <3>3. Item(s, i)' \in Inside'
      BY <1>1, <2>4 DEF InsideFact
    <3>4. Item(s, i) \in gone
      BY <2>1, <2>4, <3>1, <3>3
    <3>5. conf.type = "defrag" /\ Sharing /\ s = readit /\ flag[i - 1] = -1
      BY <1>4, <3>2, <3>4 DEF GoneFact
    <3> QED BY <2>1, <3>5 DEF Sharing
  <2> QED BY <2>3, <2>4 DEF GoneFact
<1>9. CASE \E late \in BOOLEAN : Push(late)
  <2>0. PICK late \in BOOLEAN : Push(late)
    BY <1>9
  <2>1. UNCHANGED <<gone, conf, readit, flag, outPc>> /\ arrived' = arrived + 1
    BY <2>0 DEF Push, passVars, endVars, anVars
  <2>2. \A s \in Slots : \A i \in 1..BatchLength : In(s, i)' =>
                 \/ In(s, i) /\ Item(s, i)' = Item(s, i)
                 \/ Item(s, i)' = arrived + 1
    BY <2>0, InsidePush
  <2>3. arrived + 1 \notin gone /\ gone' \subseteq 1..arrived'
    BY <1>4, <1>5, <2>1
  <2>4. Sharing' <=> Sharing
    BY <2>1 DEF Sharing
  <2> QED BY <1>4, <2>1, <2>2, <2>3, <2>4 DEF GoneFact
<1>10. CASE PushTerminating
  <2>1. UNCHANGED <<conf, readit, flag, outPc>> /\ arrived' = arrived + 1
        /\ gone' = gone \cup {arrived + 1}
    BY <1>10 DEF PushTerminating, endVars, anVars
  <2>2. ~PassStep /\ ~(\E late \in BOOLEAN : Push(late)) /\ ~Delete
    BY <1>10 DEF PushTerminating, PassStep, Push, OutEarlyPush, OutRest, OutSerial, Delete, passVars,
                 ringVars
  <2>3. \A s \in Slots : \A i \in 1..BatchLength :
                 (In(s, i)' <=> In(s, i)) /\ Item(s, i)' = Item(s, i)
    BY <2>2, InsideKept
  <2>4. \A s \in Slots : \A i \in 1..BatchLength : In(s, i) => Item(s, i) # arrived + 1
    BY <1>5, <1>6
  <2>5. gone' \subseteq 1..arrived'
    BY <1>4, <1>5, <2>1
  <2>6. Sharing' <=> Sharing
    BY <2>1 DEF Sharing
  <2> QED BY <1>4, <2>1, <2>3, <2>4, <2>5, <2>6 DEF GoneFact
<1>11. CASE \E e \in Actors : Ends(e)
  <2>0. PICK e \in Actors : Ends(e)
    BY <1>11
  <2>1. /\ UNCHANGED <<out, arrived, conf, stop, readit, qring, outPc>>
        /\ busy[e] # 0
        /\ \/ gone' = gone
           \/ gone' = gone \cup {busy[e]} /\ flag'[at[e]] = -1 /\ conf.type = "defrag"
        /\ \A j \in 0..BatchLength - 1 : j # at[e] => flag'[j] = flag[j]
    BY <2>0, EndsEffect
  <2>2. /\ Sharing /\ Passing /\ at[e] \in 0..Count - 1 /\ busy[e] = Batch[at[e] + 1]
        /\ busy[e] \in 1..arrived
    BY <2>1, BusyItem
  <2>3. flag[at[e]] = 0
    BY <2>1, BusyUntouched
  <2>4. ~PassStep /\ ~(\E late \in BOOLEAN : Push(late)) /\ ~Delete
    <3>1. busy'[e] # busy[e]
      BY <2>0, <2>1 DEF Ends, OutEnd, NextEnd, End, IInv, TypeOK, Actors
    <3> QED BY <3>1 DEF PassStep, Push, OutEarlyPush, OutRest, OutSerial, Delete, anVars
  <2>5. \A s \in Slots : \A i \in 1..BatchLength :
                 (In(s, i)' <=> In(s, i)) /\ Item(s, i)' = Item(s, i)
    BY <2>4, InsideKept
  <2>6. gone' \subseteq 1..arrived'
    BY <1>4, <2>1, <2>2
  <2>7. ASSUME NEW s \in Slots, NEW i \in 1..BatchLength, In(s, i)', Item(s, i)' \in gone'
        PROVE  conf'.type = "defrag" /\ Sharing' /\ s = readit' /\ flag'[i - 1] = -1
    <3>1. In(s, i) /\ Item(s, i)' = Item(s, i) /\ i - 1 \in 0..BatchLength - 1
      BY <2>5, <2>7, OutThreadAssumption
    <3>2. Sharing'
      BY <2>1, <2>2 DEF Sharing
    <3>3. CASE Item(s, i) \in gone
      <4>1. conf.type = "defrag" /\ Sharing /\ s = readit /\ flag[i - 1] = -1
        BY <1>4, <3>1, <3>3 DEF GoneFact
      <4>2. i - 1 # at[e]
        BY <2>3, <4>1
      <4> QED BY <2>1, <3>1, <3>2, <4>1, <4>2
    <3>4. CASE Item(s, i) \notin gone
      <4>1. Item(s, i) = busy[e] /\ flag'[at[e]] = -1 /\ conf.type = "defrag"
        BY <2>1, <2>7, <3>1, <3>4
      <4>2. s = readit /\ i = at[e] + 1
        <5>1. Full(s, i)
          BY <3>1 DEF In
        <5>2. /\ Count \in 0..BatchLength
              /\ \A j \in 1..Count : Batch[j] = Item(readit, j) /\ Batch[j] \in 1..arrived
              /\ \A x, y \in 1..Count : x < y => Batch[x] < Batch[y]
              /\ \A j \in 1..Count : \A u \in Slots : \A x \in 1..BatchLength :
                    Full(u, x) /\ u # readit => Batch[j] < Item(u, x)
          BY <2>2, BatchOrder
        <5>3. at[e] + 1 \in 1..Count /\ busy[e] \in Int
          BY <2>2, <5>2
        <5>4. s = readit
          BY <2>2, <4>1, <5>1, <5>2, <5>3
        <5>5. i \in 1..Count
          BY <2>2, <5>1, <5>4, BatchItems DEF Full, Batch, Count, IInv
        <5>6. Batch[i] = Batch[at[e] + 1] /\ Batch[i] \in Int
          BY <2>2, <4>1, <5>2, <5>4, <5>5
        <5>7. ~(i < at[e] + 1) /\ ~(at[e] + 1 < i)
          BY <5>2, <5>3, <5>5, <5>6
        <5> QED BY <5>3, <5>4, <5>5, <5>7
      <4>3. i - 1 = at[e]
        BY <2>2, <4>2
      <4> QED BY <2>1, <3>2, <4>1, <4>2, <4>3
    <3> QED BY <3>3, <3>4
  <2> QED BY <2>6, <2>7 DEF GoneFact
<1>12. CASE Delete
  <2>1. \A s \in Slots : \A i : ~Full(s, i)'
    BY <1>12, DeleteEffect
  <2>2. GoneFact'
    BY <2>1 DEF GoneFact, In
  <2>3. gone' = gone \cup UNION {{qring[s].batch[j] : j \in 1..qring[s].count} : s \in Slots}
        /\ arrived' = arrived
    BY <1>12 DEF Delete
  <2>4. \A s \in Slots : \A j \in 1..qring[s].count : qring[s].batch[j] \in 1..arrived
    <3>1. ASSUME NEW s \in Slots, NEW j \in 1..qring[s].count
          PROVE  qring[s].batch[j] \in 1..arrived
      <4>1. qring[s].count \in 0..BatchLength /\ qring[s].used \in BOOLEAN
        BY <1>4, Types
      <4>2. qring[s].used /\ qring[s].count = Len(qring[s].batch)
        BY <3>1, <4>1 DEF IInv, SlotsInv
      <4>3. Full(s, j) /\ j \in 1..BatchLength
        BY <4>1, <4>2, OutThreadAssumption DEF Full, Live
      <4> QED BY <4>3, ItemTypes DEF Item
    <3> QED BY <3>1
  <2>5. UNION {{qring[s].batch[j] : j \in 1..qring[s].count} : s \in Slots} \subseteq 1..arrived
    BY <2>4
  <2> QED BY <1>4, <2>2, <2>3, <2>5
<1>13. CASE ~PassStep /\ ~(\E late \in BOOLEAN : Push(late)) /\ ~PushTerminating
            /\ ~(\E e \in Actors : Ends(e)) /\ ~Delete
  <2>1. UNCHANGED <<gone, arrived, conf>> /\ (OutTake \/ UNCHANGED flag)
    BY <1>13, AccountKept
  <2>2. \A s \in Slots : \A i \in 1..BatchLength :
                 (In(s, i)' <=> In(s, i)) /\ Item(s, i)' = Item(s, i)
    BY <1>13, InsideKept
  <2>3. ASSUME NEW s \in Slots, NEW i \in 1..BatchLength, In(s, i)', Item(s, i)' \in gone'
        PROVE  conf'.type = "defrag" /\ Sharing' /\ s = readit' /\ flag'[i - 1] = -1
    <3>1. In(s, i) /\ Item(s, i) \in gone
      BY <2>1, <2>2, <2>3
    <3>2. conf.type = "defrag" /\ Sharing /\ s = readit /\ flag[i - 1] = -1
      BY <1>4, <3>1 DEF GoneFact
    <3>3. Passing /\ ~OutTake
      BY <3>2 DEF Passing, OutTake, Looking, Sharing
    <3>4. ~OutRelease
      <4>1. ASSUME OutRelease PROVE FALSE
        <5>1. Full(s, i)' <=> Full(s, i) /\ s # readit
          BY <4>1, ReleaseEffect
        <5> QED BY <2>3, <3>2, <5>1 DEF In
      <4> QED BY <4>1
    <3>5. Passing' /\ Sharing'
      BY <3>2, <3>3, <3>4, PassingEnds, PassingBegins
    <3>6. readit' = readit
      BY <3>3, <3>5, BatchKept
    <3> QED BY <2>1, <3>2, <3>3, <3>5, <3>6
  <2> QED BY <1>4, <2>1, <2>3 DEF GoneFact
<1> QED BY <1>8, <1>9, <1>10, <1>11, <1>12, <1>13

\* No step forgets a packet.
LEMMA NoneLostNext ==
    ASSUME IInv, [Next]_vars
    PROVE  NoneLost'
<1>1. NoneLost /\ TypeOK /\ arrived \in Nat
  BY ArrivedNat DEF IInv, AccountInv
<1>2. CASE Delete
  BY <1>2 DEF Delete, NoneLost
<1>3. CASE PassStep
  <2>1. PICK p \in Packets :
              /\ p \in Inside /\ \A q : q \in Inside' <=> q \in Inside /\ q # p
              /\ \/ out' = Append(out, p) /\ gone' = gone /\ p \notin gone
                 \/ out' = out /\ gone' = gone \cup {p}
              /\ UNCHANGED <<qring, writeit, pushing, arrived, readit, flag, conf, stop, outPc>>
    BY <1>3, PassEffect
  <2>2. CASE out' = Append(out, p) /\ gone' = gone
    <3>1. Elements(out)' = Elements(out) \cup {p}
      <4>1. Elements(out)' = Elements(Append(out, p))
        BY <2>2 DEF Elements
      <4> QED BY <1>1, <4>1, ElementsAppend DEF TypeOK
    <3> QED BY <1>1, <2>1, <2>2, <3>1 DEF NoneLost
  <2>3. CASE out' = out /\ gone' = gone \cup {p}
    <3>1. Elements(out)' = Elements(out)
      BY <2>3 DEF Elements
    <3> QED BY <1>1, <2>1, <2>3, <3>1 DEF NoneLost
  <2> QED BY <2>1, <2>2, <2>3
<1>4. CASE \E late \in BOOLEAN : Push(late)
  <2>1. PICK late \in BOOLEAN : Push(late)
    BY <1>4
  <2>2. UNCHANGED <<out, gone, stop>> /\ arrived' = arrived + 1
    BY <2>1 DEF Push, passVars, endVars
  <2>3. \A p : p \in Inside' <=> p \in Inside \/ p = arrived + 1
    BY <2>1, InsidePush
  <2>4. Elements(out)' = Elements(out)
    BY <2>2 DEF Elements
  <2>5. \A p \in 1..arrived' : p \in 1..arrived \/ p = arrived + 1
    BY <1>1, <2>2
  <2> QED BY <1>1, <2>2, <2>3, <2>4, <2>5 DEF NoneLost
<1>5. CASE ~Delete /\ ~PassStep /\ ~(\E late \in BOOLEAN : Push(late))
  <2>1. Inside' = Inside
    BY <1>5, InsideKept
  <2>2. CASE PushTerminating
    <3>1. out' = out /\ gone' = gone \cup {arrived + 1} /\ stop' = stop /\ arrived' = arrived + 1
      BY <2>2 DEF PushTerminating, endVars
    <3>2. Elements(out)' = Elements(out)
      BY <3>1 DEF Elements
    <3>3. \A p \in 1..arrived' : p \in 1..arrived \/ p = arrived + 1
      BY <1>1, <3>1
    <3> QED BY <1>1, <2>1, <3>1, <3>2, <3>3 DEF NoneLost
  <2>3. CASE \E e \in Actors : Ends(e)
    <3>1. gone \subseteq gone' /\ UNCHANGED <<out, stop, arrived>>
      BY <2>3, EndsEffect
    <3>2. Elements(out)' = Elements(out)
      BY <3>1 DEF Elements
    <3> QED BY <1>1, <2>1, <3>1, <3>2 DEF NoneLost
  <2>4. CASE ~PushTerminating /\ ~(\E e \in Actors : Ends(e))
    <3>1. UNCHANGED <<out, gone, arrived>> /\ (stop = "deleted" <=> stop' = "deleted")
      BY <1>5, <2>4, AccountKept
    <3>2. Elements(out)' = Elements(out)
      BY <3>1 DEF Elements
    <3> QED BY <1>1, <2>1, <3>1, <3>2 DEF NoneLost
  <2> QED BY <2>2, <2>3, <2>4
<1> QED BY <1>2, <1>3, <1>4, <1>5

-----------------------------------------------------------------------------
(* The theorems. *)

\* The initial states satisfy the invariant.
LEMMA InitIInv == Init => IInv
<1> SUFFICES ASSUME Init PROVE IInv
  OBVIOUS
<1>1. /\ QRingLength \in Nat \ {0} /\ BatchLength \in Nat \ {0} /\ MaxThreads \in Nat
      /\ MaxPackets \in Nat /\ 0 \in Slots /\ conf \in ConfType
  BY OutThreadAssumption DEF Init, Slots
<1>2. \A s \in Slots : /\ qring[s] = Slot(<<>>, 0, FALSE) /\ qring[s].batch = <<>>
                       /\ qring[s].count = 0 /\ qring[s].used = FALSE
  BY DEF Init, Slot
<1>3. TypeOK
  <2>1. qring \in [Slots -> [batch : Seq(Packets), count : 0..BatchLength, used : BOOLEAN]]
    <3>1. Slot(<<>>, 0, FALSE) \in [batch : Seq(Packets), count : 0..BatchLength, used : BOOLEAN]
      BY <1>1 DEF Slot
    <3> QED BY <3>1 DEF Init
  <2>2. \A s \in Slots : Len(qring[s].batch) <= BatchLength
    <3>1. Len(<<>>) = 0 /\ 0 <= BatchLength
      BY <1>1
    <3>2. \A s \in Slots : qring[s].batch = <<>>
      BY <1>2
    <3> QED BY <3>1, <3>2
  <2>3. data \in [Threads -> [start : Nat, end : Nat, skip : Nat, index : Nat, batch : BOOLEAN]]
    BY DEF Init, NullData
  <2>4. nThreads \in 0..MaxThreads /\ resizes \in 0..conf.maxResize
    BY <1>1 DEF Init, ConfType
  <2>5. flag \in [0..BatchLength - 1 -> {-1, 0, 1}]
    BY DEF Init
  <2>6. nextPc \in [Threads -> {"none", "start", "head", "wait", "work", "report", "exited"}]
    BY DEF Init
  <2>7. /\ ready \in [Threads -> BOOLEAN] /\ processing \in [Threads -> BOOLEAN]
        /\ semWork \in [Threads -> Nat] /\ semDone \in [Threads -> Nat]
        /\ terminate \in [Threads -> BOOLEAN]
    BY DEF Init
  <2>8. at \in [{0} \cup Threads -> Nat] /\ busy \in [{0} \cup Threads -> 0..MaxPackets]
    BY <1>1 DEF Init
  <2>9. /\ terminating \in BOOLEAN /\ terminatingThread \in BOOLEAN
        /\ stop \in {"none", "joining", "stopped", "deleted"}
        /\ writeit \in Slots /\ readit \in Slots /\ pushing \in BOOLEAN
        /\ arrived \in 0..MaxPackets /\ countMod \in {-1, 0, 1} /\ conf \in Confs
        /\ outPc \in {"loop", "created", "joined", "batch", "post", "early", "own", "join",
                      "rest", "serial", "done"}
    <3>1. /\ terminating = FALSE /\ terminatingThread = FALSE /\ stop = "none" /\ writeit = 0
          /\ readit = 0 /\ pushing = FALSE /\ arrived = 0 /\ countMod = 0 /\ outPc = "loop"
      BY DEF Init
    <3>2. 0 \in 0..MaxPackets /\ conf \in Confs
      BY <1>1 DEF Init
    <3> QED BY <1>1, <3>1, <3>2
  <2>10. n \in 0..MaxThreads /\ k \in 0..MaxThreads + 1 /\ completed \in 0..BatchLength
    <3>1. n = 0 /\ k = 0 /\ completed = 0
      BY DEF Init
    <3>2. 0 \in 0..MaxThreads /\ 0 \in 0..MaxThreads + 1 /\ 0 \in 0..BatchLength
      BY <1>1
    <3> QED BY <3>1, <3>2
  <2>11. analysed \subseteq Packets /\ out \in Seq(Packets) /\ gone \subseteq Packets
         /\ down \in 0..BatchLength - 1
    <3>1. down = 0 /\ out = <<>> /\ analysed = {} /\ gone = {}
      BY DEF Init
    <3>2. 0 \in 0..BatchLength - 1
      BY <1>1
    <3> QED BY <3>1, <3>2
  <2> QED BY <2>1, <2>2, <2>3, <2>4, <2>5, <2>6, <2>7, <2>8, <2>9, <2>10, <2>11 DEF TypeOK
<1>4. ~Sharing /\ ~Passing /\ outPc = "loop" /\ stop = "none"
  BY DEF Init, Sharing, Passing
<1>5. PhaseInv
  BY <1>4 DEF PhaseInv, Sharing
<1>6. \A s \in Slots : ~Live(s)
  BY <1>2 DEF Live, Init
<1>7. SlotsInv
  <2>1. writeit = 0 /\ readit = 0 /\ completed = 0 /\ ~pushing
    BY DEF Init
  <2>2. \A s \in Slots : ~(Ahead(readit, s) < Ahead(readit, writeit))
    <3>1. \A s \in Slots : s \in Int /\ s >= 0
      BY <1>1 DEF Slots
    <3> QED BY <2>1, <3>1 DEF Ahead
  <2> QED BY <1>1, <1>2, <1>4, <2>1, <2>2 DEF SlotsInv
<1>8. OrderInv
  BY <1>6 DEF OrderInv, Full
<1>9. ThreadsInv
  <2>1. \A i \in Threads : ~Posted(i)
    BY <1>4 DEF Posted
  <2>2. \A i \in Threads : ~ready[i] /\ ~processing[i] /\ semWork[i] = 0 /\ semDone[i] = 0
    BY DEF Init
  <2>3. \A i \in Threads : nextPc[i] \notin {"work", "report"}
    BY DEF Init
  <2> QED BY <2>1, <2>2, <2>3 DEF ThreadsInv, Idle
<1>10. AnalysisInv
  <2>1. Untouched
    BY <1>6 DEF Untouched, Full, Init
  <2>2. SharesDone /\ FlagsInv
    BY <1>4 DEF SharesDone, FlagsInv
  <2>3. BusyInv
    BY DEF BusyInv, Init, Actors
  <2> QED BY <2>1, <2>2, <2>3 DEF AnalysisInv
<1>11. HeldFact /\ InsideFact
  BY <1>3, <1>7, HeldIs
<1>12. Elements(out) = {} /\ gone = {} /\ arrived = 0
  BY DEF Init, Elements
<1>13. AccountInv
  <2>1. PassedInv
    BY <1>12 DEF PassedInv
  <2>2. GoneInv
    BY <1>12 DEF GoneInv
  <2>3. NoneLost
    <3>1. 1..arrived = {}
      BY <1>12
    <3> QED BY <3>1 DEF NoneLost
  <2> QED BY <2>1, <2>2, <2>3 DEF AccountInv
<1> QED BY <1>3, <1>5, <1>7, <1>8, <1>9, <1>10, <1>13 DEF IInv

\* Every step keeps the invariant.
LEMMA NextIInv == IInv /\ [Next]_vars => IInv'
<1> SUFFICES ASSUME IInv, [Next]_vars PROVE IInv'
  OBVIOUS
<1>1. TypeOK' /\ PhaseInv' /\ SlotsInv' /\ OrderInv' /\ ThreadsInv'
  BY TypeNext, PhaseNext, SlotsNext, OrderNext, ThreadsNext
<1>2. AnalysisInv'
  BY UntouchedNext, SharesDoneNext, BusyNext, FlagsNext DEF AnalysisInv
<1>3. AccountInv'
  BY PassedNext, GoneNext, NoneLostNext DEF AccountInv
<1> QED BY <1>1, <1>2, <1>3 DEF IInv

\* The invariant holds in every state.
LEMMA Inductive == Spec => []IInv
  BY InitIInv, NextIInv, PTL DEF Spec

\* The state has its type in every state of the stage (PcapQueue_outputThread),
\* whatever the ring, the batches, the number of threads and the traffic.
THEOREM TypeCorrect == Spec => []TypeOK
<1>1. IInv => TypeOK
  BY DEF IInv
<1> QED BY <1>1, Inductive, PTL

\* No packet is lost, and none is handed on and destroyed as well.
THEOREM Accounted == Spec => []PacketsAccounted
<1>1. IInv => PacketsAccounted
  <2> SUFFICES ASSUME IInv PROVE PacketsAccounted
    OBVIOUS
  <2>1. PassedInv /\ GoneInv /\ NoneLost /\ Untouched
    BY DEF IInv, AccountInv, AnalysisInv
  <2>2. Inside \subseteq 1..arrived
    BY InsideArrived
  <2>3. Elements(out) \subseteq 1..arrived /\ gone \subseteq 1..arrived
    BY <2>1 DEF PassedInv, GoneInv, Untouched
  <2> QED BY <2>1, <2>2, <2>3 DEF PassedInv, NoneLost, PacketsAccounted
<1> QED BY <1>1, Inductive, PTL

\* Two actors never analyse the same item (nextThreadFunction and the share of
\* the output thread), none is analysed again, and its batch is not given back
\* meanwhile.
THEOREM EachAnalysedOnce == Spec => []AnalysedOnce
<1>1. IInv => AnalysedOnce
  <2> SUFFICES ASSUME IInv PROVE AnalysedOnce
    OBVIOUS
  <2>1. SUFFICES ASSUME NEW a \in Actors, busy[a] # 0
                 PROVE  /\ busy[a] \notin analysed
                        /\ \A b \in Actors : b # a => busy[b] # busy[a]
                        /\ qring[readit].used /\ busy[a] \in Elements(Batch)
    BY DEF AnalysedOnce, Actors
  <2>2. busy[a] \notin analysed
    BY <2>1, BusyUntouched
  <2>3. /\ Passing /\ at[a] \in 0..Count - 1 /\ Owner(at[a]) = a
        /\ busy[a] = Batch[at[a] + 1]
    BY <2>1, BusyItem
  <2>4. TypeOK /\ SlotsInv /\ Count \in Nat /\ Count = Len(Batch) /\ qring[readit].used
    BY <2>3, Types, BatchItems DEF IInv, SlotsInv
  <2>5. at[a] + 1 \in 1..Count
    BY <2>3, <2>4
  <2>6. busy[a] \in Elements(Batch)
    <3>1. Batch \in Seq(Packets) /\ DOMAIN Batch = 1..Len(Batch)
      BY <2>4, Types
    <3> QED BY <2>3, <2>4, <2>5, <3>1 DEF Elements
  <2>7. ASSUME NEW b \in Actors, b # a, busy[b] = busy[a]
        PROVE  FALSE
    <3>1. at[b] \in 0..Count - 1 /\ Owner(at[b]) = b /\ busy[b] = Batch[at[b] + 1]
      BY <2>1, <2>7, BusyItem
    <3>2. at[b] + 1 \in 1..Count
      BY <2>4, <3>1
    <3>3. /\ \A x, y \in 1..Count : x < y => Batch[x] < Batch[y]
          /\ \A x \in 1..Count : Batch[x] \in 1..arrived
      BY <2>3, BatchOrder
    <3>6. PICK x \in 1..Count : x = at[a] + 1
      BY <2>5
    <3>7. PICK y \in 1..Count : y = at[b] + 1
      BY <3>2
    <3>8. Batch[x] = Batch[y] /\ Batch[x] \in 1..arrived
      BY <2>3, <2>7, <3>1, <3>3, <3>6, <3>7
    <3>9. Batch[x] \in Int
      BY <3>8
    <3>4. ~(x < y) /\ ~(y < x)
      BY <3>3, <3>8, <3>9
    <3>5. at[a] = at[b]
      BY <2>3, <2>4, <3>1, <3>4, <3>6, <3>7
    <3> QED BY <2>3, <2>7, <3>1, <3>5
  <2> QED BY <2>2, <2>4, <2>6, <2>7
<1> QED BY <1>1, Inductive, PTL

\* The output thread hands nothing on whose analysis has not ended, also when it
\* hands items on while the next threads work.
THEOREM PassedAfterAnalysis == Spec => []AnalysedBeforePassed
<1>1. IInv => AnalysedBeforePassed
  BY DEF IInv, AccountInv, PassedInv, AnalysedBeforePassed
<1> QED BY <1>1, Inductive, PTL

\* The packets of a source are defragmented one after the other, in the order of
\* their arrival (processDefrag_defrag), also when the number of threads changes.
THEOREM SourcesInOrder == Spec => []SourceInOrder
<1>1. IInv => SourceInOrder
  <2> SUFFICES ASSUME IInv, conf.type = "defrag", NEW a \in Actors, busy[a] # 0,
                      NEW q \in 1..busy[a] - 1, Hash[q] = Hash[busy[a]]
               PROVE  q \in analysed \cup gone
    BY DEF SourceInOrder, Actors
  <2>1. /\ Sharing /\ Passing /\ n >= 1 /\ a \in Sharers /\ Active(a)
        /\ at[a] \in InShare(ShareOf(a)) /\ at[a] \in 0..Count - 1
        /\ Owner(at[a]) = a /\ busy[a] = Batch[at[a] + 1] /\ busy[a] \in 1..arrived
    BY BusyItem
  <2>2. TypeOK /\ SlotsInv /\ PassedInv /\ NoneLost /\ PhaseInv /\ SharesDone
    BY DEF IInv, AccountInv, AnalysisInv
  <2>3. arrived \in Nat /\ q \in 1..arrived /\ q < busy[a] /\ q \in Int
    BY <2>1, <2>2, ArrivedNat
  <2>4. stop # "deleted"
    BY <2>1, <2>2 DEF PhaseInv, Sharing
  <2>5. q \in Elements(out) \cup gone \cup Inside
    BY <2>2, <2>3, <2>4 DEF NoneLost
  <2>6. CASE q \in Inside
    <3>1. InsideFact
      BY <2>2, HeldIs
    <3>2. PICK s \in Slots, i \in 1..BatchLength : In(s, i) /\ q = Item(s, i)
      BY <2>6, <3>1 DEF InsideFact
    <3>3. /\ Count \in 0..BatchLength
          /\ \A j \in 1..Count : Batch[j] = Item(readit, j) /\ Batch[j] \in 1..arrived
          /\ \A x, y \in 1..Count : x < y => Batch[x] < Batch[y]
          /\ \A j \in 1..Count : \A u \in Slots : \A x \in 1..BatchLength :
                Full(u, x) /\ u # readit => Batch[j] < Item(u, x)
      BY <2>1, BatchOrder
    <3>4. at[a] + 1 \in 1..Count /\ Full(s, i)
      BY <2>1, <3>2, <3>3 DEF In
    <3>5. s = readit
      BY <2>1, <2>3, <3>2, <3>3, <3>4
    <3>6. Count = Len(Batch)
      BY <2>1, <2>2, BatchItems
    <3>7. i \in 1..Count
      BY <3>3, <3>4, <3>5, <3>6 DEF Full, Batch, Count
    <3>8. q = Batch[i]
      BY <3>2, <3>3, <3>5, <3>7
    <3>9. i < at[a] + 1
      <4>1. ~(at[a] + 1 < i) /\ i # at[a] + 1
        BY <2>1, <2>3, <3>3, <3>4, <3>7, <3>8
      <4> QED BY <2>1, <3>4, <3>7, <4>1
    <3>10. PICK j \in 0..Count - 1 : j = i - 1 /\ j < at[a] /\ j + 1 = i
      BY <2>1, <3>3, <3>7, <3>9
    <3>11. Owner(j) = a
      <4>1. ThreadIndex(Batch[j + 1]) = ThreadIndex(Batch[at[a] + 1])
        BY <2>1, <3>8, <3>10 DEF ThreadIndex
      <4> QED BY <2>1, <4>1 DEF Owner
    <3>12. j \in InShare(ShareOf(a))
      BY <2>1, <2>2, <3>3, <3>6, <3>10, <3>11, OwnerShares
    <3>13. j < Reached(a)
      BY <2>1, <3>10, ReachedActive
    <3>14. Batch[j + 1] \in analysed
      BY <2>1, <2>2, <3>12, <3>13 DEF SharesDone
    <3> QED BY <3>8, <3>10, <3>14
  <2> QED BY <2>2, <2>5, <2>6 DEF PassedInv
<1> QED BY <1>1, Inductive, PTL

\* Between two batches no wake-up is left in a semaphore or in data_ready, whatever
\* sem_sync is set to: no next thread starts before its next share is complete.
THEOREM Quiet == Spec => []QuietBetweenBatches
<1>1. IInv => QuietBetweenBatches
  <2> SUFFICES ASSUME IInv, outPc \in {"loop", "batch"}, NEW i \in Threads
               PROVE  semWork[i] = 0 /\ semDone[i] = 0 /\ ~ready[i] /\ ~processing[i]
    BY DEF QuietBetweenBatches
  <2>1. ~Posted(i) /\ ~Leaving(i)
    BY DEF Posted, Leaving
  <2> QED BY <2>1 DEF IInv, ThreadsInv, Idle
<1> QED BY <1>1, Inductive, PTL

-----------------------------------------------------------------------------
(* Sets of numbers in ascending order. *)

\* s lists S in ascending order.
Sorts(s, S) ==
    /\ s \in [1..Cardinality(S) -> S]
    /\ Elements(s) = S
    /\ \A i, j \in DOMAIN s : i < j => s[i] < s[j]

Below == {p \in Nat \X Nat : p[1] < p[2]}

\* The order of the numbers, as a relation, has no infinite descent.
LEMMA BelowWellFounded == IsWellFoundedOn(Below, Nat)
<1>1. Below = OpToRel(<, Nat)
  BY DEF Below, OpToRel
<1> QED BY <1>1, NatLessThanWellFounded

\* A set of numbers has a least one.
LEMMA LeastNumber ==
    ASSUME NEW T, T \subseteq Nat, T # {}
    PROVE  \E x \in T : \A y \in T : x <= y
<1>1. PICK x \in T : \A y \in T : ~ (<<y, x>> \in Below)
  BY BelowWellFounded, WFMin
<1>2. \A y \in Nat : y < x => <<y, x>> \in Below
  BY DEF Below
<1>3. x \in Nat /\ \A y \in T : y \in Nat
  OBVIOUS
<1>4. \A y \in T : ~ (y < x)
  BY <1>1, <1>2, <1>3
<1>5. \A y \in T : x <= y
  BY <1>3, <1>4
<1> QED BY <1>5

\* A list in ascending order is a sequence of numbers.
LEMMA SortsSeq ==
    ASSUME NEW S, S \subseteq Nat, IsFiniteSet(S), NEW s, Sorts(s, S)
    PROVE  /\ Cardinality(S) \in Nat /\ Len(s) = Cardinality(S) /\ s \in Seq(S)
           /\ DOMAIN s = 1..Cardinality(S)
           /\ \A i \in 1..Cardinality(S) : s[i] \in S /\ s[i] \in Nat
           /\ \A x : x \in S <=> \E i \in 1..Cardinality(S) : x = s[i]
<1>1. Cardinality(S) \in Nat
  BY FS_CardinalityType
<1>2. PICK c \in Nat : c = Cardinality(S)
  BY <1>1
<1>3. s \in [1..c -> S]
  BY <1>2 DEF Sorts
<1>4. DOMAIN s = 1..c /\ s \in Seq(S) /\ Len(s) = c /\ \A i \in 1..c : s[i] \in S
  BY <1>3
<1>5. \A x : x \in S <=> \E i \in 1..c : x = s[i]
  BY <1>4 DEF Sorts, Elements
<1> QED BY <1>2, <1>4, <1>5

\* Where two lists of a set differ first, the one is not the smaller.
LEMMA SortsNotBelow ==
    ASSUME NEW S, S \subseteq Nat, IsFiniteSet(S), NEW s, NEW t, Sorts(s, S), Sorts(t, S),
           NEW i \in 1..Cardinality(S), \A j \in 1..Cardinality(S) : j < i => s[j] = t[j]
    PROVE  ~(s[i] < t[i])
<1>1. /\ Cardinality(S) \in Nat /\ DOMAIN s = 1..Cardinality(S) /\ DOMAIN t = 1..Cardinality(S)
      /\ \A x \in 1..Cardinality(S) : s[x] \in S /\ s[x] \in Nat
      /\ \A x \in 1..Cardinality(S) : t[x] \in S /\ t[x] \in Nat
  <2>1. /\ Cardinality(S) \in Nat /\ DOMAIN s = 1..Cardinality(S)
        /\ \A x \in 1..Cardinality(S) : s[x] \in S /\ s[x] \in Nat
    BY SortsSeq
  <2>2. /\ DOMAIN t = 1..Cardinality(S)
        /\ \A x \in 1..Cardinality(S) : t[x] \in S /\ t[x] \in Nat
    BY SortsSeq
  <2> QED BY <2>1, <2>2
<1>2. PICK j \in 1..Cardinality(S) : s[i] = t[j]
  BY <1>1 DEF Sorts, Elements
<1>3. SUFFICES ASSUME s[i] < t[i] PROVE FALSE
  OBVIOUS
<1>4. ~(i < j) /\ i # j
  <2>1. i < j => t[i] < t[j]
    BY <1>1 DEF Sorts
  <2>2. PICK a \in Nat : a = s[i]
    BY <1>1
  <2>3. PICK b \in Nat : b = t[i]
    BY <1>1
  <2>4. a < b /\ (i < j => b < a) /\ (i = j => a = b)
    BY <1>2, <1>3, <2>1, <2>2, <2>3
  <2> QED BY <2>4
<1>5. j < i
  BY <1>1, <1>4
<1>6. s[j] < s[i] /\ s[j] = t[j]
  BY <1>1, <1>5 DEF Sorts
<1> QED BY <1>1, <1>2, <1>6

\* A set has one list.
LEMMA SortsUnique ==
    ASSUME NEW S, S \subseteq Nat, IsFiniteSet(S), NEW s, NEW t, Sorts(s, S), Sorts(t, S)
    PROVE  s = t
<1>1. Cardinality(S) \in Nat
  BY FS_CardinalityType
<1>2. PICK c \in Nat : c = Cardinality(S)
  BY <1>1
<1>3. /\ \A x \in 1..c : s[x] \in Nat /\ t[x] \in Nat
      /\ s \in [1..c -> S] /\ t \in [1..c -> S]
  BY <1>2, SortsSeq DEF Sorts
<1>4. DEFINE T == {x \in 1..c : s[x] # t[x]}
<1>5. T = {}
  <2> SUFFICES ASSUME T # {} PROVE FALSE
    OBVIOUS
  <2>1. T \subseteq Nat
    OBVIOUS
  <2>2. PICK i \in T : \A y \in T : i <= y
    BY <2>1, LeastNumber
  <2>3. i \in 1..c /\ s[i] # t[i]
    OBVIOUS
  <2>4. \A j \in 1..c : j < i => s[j] = t[j]
    <3>1. ASSUME NEW j \in 1..c, j < i, s[j] # t[j] PROVE FALSE
      <4>1. j \in T
        BY <3>1
      <4>2. i <= j
        BY <2>2, <4>1
      <4> QED BY <2>3, <3>1, <4>2
    <3> QED BY <3>1
  <2>5. \A j \in 1..c : j < i => t[j] = s[j]
    BY <2>4
  <2>6. ~(s[i] < t[i])
    BY <1>2, <2>3, <2>4, SortsNotBelow
  <2>7. ~(t[i] < s[i])
    BY <1>2, <2>3, <2>5, SortsNotBelow
  <2> QED BY <1>3, <2>3, <2>6, <2>7
<1>6. \A x \in 1..c : s[x] = t[x]
  BY <1>5
<1> QED BY <1>3, <1>6

\* The list of a set that has one.
LEMMA AscendingIs ==
    ASSUME NEW S, S \subseteq Nat, IsFiniteSet(S), NEW s, Sorts(s, S)
    PROVE  Ascending(S) = s
<1>1. \E t \in [1..Cardinality(S) -> S] :
        Elements(t) = S /\ \A i, j \in DOMAIN t : i < j => t[i] < t[j]
  BY DEF Sorts
<1>2. Sorts(Ascending(S), S)
  BY <1>1, Zenon DEF Sorts, Ascending
<1> QED BY <1>2, SortsUnique

\* The empty list.
LEMMA SortsEmpty == Sorts(<<>>, {})
<1>1. Cardinality({}) = 0
  BY FS_EmptySet
<1>2. 1..0 = {} /\ DOMAIN <<>> = {} /\ <<>> \in [{} -> {}]
  OBVIOUS
<1> QED BY <1>1, <1>2 DEF Sorts, Elements

\* A list grows by a number that is greater than all.
LEMMA SortsAppend ==
    ASSUME NEW S, S \subseteq Nat, IsFiniteSet(S), NEW s, Sorts(s, S), NEW p \in Nat,
           \A q \in S : q < p
    PROVE  Sorts(Append(s, p), S \cup {p}) /\ IsFiniteSet(S \cup {p}) /\ S \cup {p} \subseteq Nat
<1>1. /\ Cardinality(S) \in Nat /\ Len(s) = Cardinality(S) /\ s \in Seq(S)
      /\ DOMAIN s = 1..Cardinality(S)
      /\ \A i \in 1..Cardinality(S) : s[i] \in S /\ s[i] \in Nat
  BY SortsSeq
<1>2. PICK c \in Nat : c = Cardinality(S)
  BY <1>1
<1>3. p \notin S
  BY \A q \in S : q \in Nat
<1>4. Cardinality(S \cup {p}) = c + 1 /\ IsFiniteSet(S \cup {p})
  BY <1>2, <1>3, FS_AddElement
<1>5. PICK t : t = Append(s, p)
  OBVIOUS
<1>6. s \in Seq(S \cup {p}) /\ Len(s) = c
  BY <1>1, <1>2
<1>7. /\ t \in Seq(S \cup {p}) /\ Len(t) = c + 1 /\ t[c + 1] = p
      /\ \A i \in 1..c : t[i] = s[i]
  BY <1>5, <1>6
<1>8. t \in [1..c + 1 -> S \cup {p}] /\ DOMAIN t = 1..c + 1
  BY <1>7
<1>9. Elements(t) = S \cup {p}
  <2>1. Elements(t) = Elements(s) \cup {p}
    BY <1>5, <1>6, ElementsAppend
  <2> QED BY <2>1 DEF Sorts
<1>10. ASSUME NEW i \in 1..c + 1, NEW j \in 1..c + 1, i < j
       PROVE  t[i] < t[j]
  <2>1. i \in 1..c /\ t[i] = s[i] /\ s[i] \in S
    BY <1>1, <1>2, <1>7, <1>10
  <2>2. CASE j = c + 1
    BY <1>7, <2>1, <2>2
  <2>3. CASE j # c + 1
    <3>1. j \in 1..c /\ t[j] = s[j]
      BY <1>7, <2>3
    <3>2. s[i] < s[j]
      BY <1>1, <1>2, <1>10, <2>1, <3>1 DEF Sorts
    <3> QED BY <2>1, <3>1, <3>2
  <2> QED BY <2>2, <2>3
<1>11. Sorts(t, S \cup {p})
  BY <1>4, <1>8, <1>9, <1>10 DEF Sorts
<1> QED BY <1>4, <1>5, <1>11

\* A list begins with the least number.
LEMMA SortsTail ==
    ASSUME NEW S, S \subseteq Nat, IsFiniteSet(S), NEW s, Sorts(s, S), NEW p \in S,
           \A q \in S : q # p => p < q
    PROVE  /\ s # <<>> /\ Head(s) = p /\ Sorts(Tail(s), S \ {p})
           /\ IsFiniteSet(S \ {p}) /\ S \ {p} \subseteq Nat
<1>1. /\ Cardinality(S) \in Nat /\ Len(s) = Cardinality(S) /\ s \in Seq(S)
      /\ DOMAIN s = 1..Cardinality(S)
      /\ \A i \in 1..Cardinality(S) : s[i] \in S /\ s[i] \in Nat
      /\ \A x : x \in S <=> \E i \in 1..Cardinality(S) : x = s[i]
  BY SortsSeq
<1>2. PICK c \in Nat : c = Cardinality(S)
  BY <1>1
<1>3. PICK x \in 1..c : s[x] = p
  BY <1>1, <1>2
<1>4. c >= 1 /\ 1 \in 1..c
  BY <1>3
<1>5. s # <<>> /\ Head(s) = s[1]
  BY <1>1, <1>2, <1>4
<1>6. \A i, j \in 1..c : i < j => s[i] < s[j]
  BY <1>1, <1>2 DEF Sorts
<1>7. x = 1
  <2>1. ASSUME x # 1 PROVE FALSE
    <3>1. s[1] < s[x] /\ s[1] \in S /\ s[1] \in Nat /\ p \in Nat
      BY <1>1, <1>2, <1>3, <1>4, <1>6, <2>1
    <3>2. s[1] # p
      BY <1>3, <3>1
    <3>3. p < s[1]
      BY <3>1, <3>2
    <3> QED BY <1>3, <3>1, <3>3
  <2> QED BY <2>1
<1>8. Head(s) = p
  BY <1>3, <1>5, <1>7
<1>9. Cardinality(S \ {p}) = c - 1 /\ IsFiniteSet(S \ {p})
  BY <1>2, FS_RemoveElement
<1>10. PICK t : t = Tail(s)
  OBVIOUS
<1>11. t \in Seq(S) /\ Len(t) = c - 1 /\ \A i \in 1..c - 1 : t[i] = s[i + 1]
  <2>1. t \in Seq(S) /\ Len(t) = Len(s) - 1
    <3>1. s \in Seq(S) /\ s # <<>>
      BY <1>1, <1>5
    <3>2. Tail(s) \in Seq(S) /\ Len(Tail(s)) = Len(s) - 1
      BY <3>1
    <3> QED BY <1>10, <3>2
  <2>2. \A i \in 1..Len(s) - 1 : t[i] = s[i + 1]
    <3>1. s \in Seq(S) /\ s # <<>>
      BY <1>1, <1>5
    <3>2. \A i \in 1..Len(s) - 1 : Tail(s)[i] = s[i + 1]
      BY <3>1
    <3> QED BY <1>10, <3>2
  <2> QED BY <1>1, <1>2, <2>1, <2>2
<1>12. \A i \in 1..c - 1 : i + 1 \in 1..c /\ s[i + 1] \in S /\ s[i + 1] # p
  <2>1. ASSUME NEW i \in 1..c - 1
        PROVE  i + 1 \in 1..c /\ s[i + 1] \in S /\ s[i + 1] # p
    <3>1. i + 1 \in 1..c /\ 1 < i + 1
      OBVIOUS
    <3>2. s[1] < s[i + 1] /\ s[i + 1] \in S /\ s[1] \in Nat
      BY <1>1, <1>2, <1>4, <1>6, <3>1
    <3> QED BY <1>3, <1>7, <3>1, <3>2
  <2> QED BY <2>1
<1>13. DOMAIN t = 1..c - 1 /\ t \in [1..c - 1 -> S \ {p}]
  BY <1>11, <1>12
<1>14. Elements(t) = S \ {p}
  <2>1. \A y : y \in Elements(t) => y \in S \ {p}
    BY <1>11, <1>12, <1>13 DEF Elements
  <2>2. ASSUME NEW y \in S \ {p}
        PROVE  y \in Elements(t)
    <3>1. PICK i \in 1..c : y = s[i]
      BY <1>1, <1>2
    <3>2. i # 1
      BY <1>3, <1>7, <3>1
    <3>3. PICK j \in 1..c - 1 : j = i - 1 /\ j + 1 = i
      BY <3>2
    <3>4. y = t[j]
      BY <1>11, <3>1, <3>3
    <3> QED BY <1>13, <3>4 DEF Elements
  <2> QED BY <2>1, <2>2
<1>15. \A i, j \in 1..c - 1 : i < j => t[i] < t[j]
  <2>1. ASSUME NEW i \in 1..c - 1, NEW j \in 1..c - 1, i < j
        PROVE  t[i] < t[j]
    <3>1. i + 1 \in 1..c /\ j + 1 \in 1..c /\ i + 1 < j + 1
      BY <2>1
    <3>2. s[i + 1] < s[j + 1]
      BY <1>6, <3>1
    <3> QED BY <1>11, <3>2
  <2> QED BY <2>1
<1>16. Sorts(t, S \ {p})
  BY <1>9, <1>13, <1>14, <1>15 DEF Sorts
<1> QED BY <1>5, <1>8, <1>9, <1>10, <1>16

-----------------------------------------------------------------------------
(* The stage implements OrderedPipe. *)

\* The packets inside can be listed.
PendingInv == Sorts(Pending, Inside)

\* The packets inside are finitely many numbers.
LEMMA InsideFinite ==
    ASSUME IInv
    PROVE  Inside \subseteq Nat /\ IsFiniteSet(Inside) /\ arrived \in Nat
<1>1. arrived \in Nat
  BY ArrivedNat DEF IInv
<1>2. Inside \subseteq 1..arrived
  BY InsideArrived
<1>3. IsFiniteSet(1..arrived)
  BY <1>1, FS_Interval
<1>4. IsFiniteSet(Inside)
  BY <1>2, <1>3, FS_Subset
<1> QED BY <1>1, <1>2, <1>4

\* A packet that is pushed finds room: the ring has a position that holds none.
LEMMA RoomLeft ==
    ASSUME IInv, NEW late \in BOOLEAN, Push(late)
    PROVE  Cardinality(Inside) < QRingLength * BatchLength
<1>1. QRingLength \in Nat \ {0} /\ BatchLength \in Nat \ {0}
  BY OutThreadAssumption
<1>2. IsFiniteSet(Slots) /\ Cardinality(Slots) = QRingLength
  BY <1>1, FS_Interval DEF Slots
<1>3. IsFiniteSet(1..BatchLength) /\ Cardinality(1..BatchLength) = BatchLength
  BY <1>1, FS_Interval
<1>4. PICK P : P = Slots \X (1..BatchLength)
  OBVIOUS
<1>5. IsFiniteSet(P) /\ Cardinality(P) = QRingLength * BatchLength
  BY <1>2, <1>3, <1>4, FS_Product
<1>6. PICK w \in Slots, m \in 1..BatchLength : ~Full(w, m)
  <2>1. \E w \in Slots : \E m \in 1..BatchLength : ~Full(w, m)
    BY PushEffect
  <2> QED BY <2>1
<1>7. Held \in SUBSET P /\ Held # P
  <2>1. HeldFact
    BY HeldIs DEF IInv
  <2>2. <<w, m>> \notin Held /\ <<w, m>> \in P
    BY <1>4, <1>6, <2>1 DEF HeldFact, In
  <2> QED BY <1>4, <2>2 DEF Held
<1>8. IsFiniteSet(Held) /\ Cardinality(Held) <= Cardinality(P) /\ Cardinality(Held) # Cardinality(P)
  BY <1>5, <1>7, FS_Subset
<1>9. PICK f : f = [x \in Held |-> qring[x[1]].batch[x[2]]]
  OBVIOUS
<1>10. f \in Surjection(Held, Inside)
  BY <1>9 DEF Inside, Surjection
<1>11. IsFiniteSet(Inside) /\ Cardinality(Inside) <= Cardinality(Held)
  BY <1>8, <1>10, FS_Surjection
<1>12. Cardinality(Inside) \in Nat /\ Cardinality(Held) \in Nat /\ Cardinality(P) \in Nat
  BY <1>5, <1>8, <1>11, FS_CardinalityType
<1>13. Cardinality(Inside) < Cardinality(P)
  BY <1>8, <1>11, <1>12
<1> QED BY <1>5, <1>13

\* Every step of the stage is a step of the pipe or none.
LEMMA StagePipe ==
    ASSUME IInv, PendingInv, [Next]_vars
    PROVE  PendingInv' /\ [Pipe!Next]_(Pipe!vars)
<1>1. Inside \subseteq Nat /\ IsFiniteSet(Inside) /\ arrived \in Nat
  BY InsideFinite
<1>2. PICK T : T = Inside'
  OBVIOUS
<1>3. Pending' = Ascending(T)
  BY <1>2 DEF Pending, Ascending, Elements
<1>4. \A s : Sorts(s, T) /\ T \subseteq Nat /\ IsFiniteSet(T) => Pending' = s /\ PendingInv'
  <2>1. ASSUME NEW s, Sorts(s, T), T \subseteq Nat, IsFiniteSet(T)
        PROVE  Pending' = s /\ PendingInv'
    <3>1. Pending' = s
      BY <1>3, <2>1, AscendingIs
    <3>2. PendingInv' <=> Sorts(Pending', T)
      BY <1>2 DEF PendingInv, Sorts, Elements
    <3> QED BY <2>1, <3>1, <3>2
  <2> QED BY <2>1
<1>5. PICK s : s = Pending
  OBVIOUS
<1>6. Sorts(s, Inside)
  BY <1>5 DEF PendingInv
<1>7. Len(s) = Cardinality(Inside) /\ DOMAIN s = 1..Cardinality(Inside)
      /\ \A i \in DOMAIN s : s[i] \in Inside
  BY <1>1, <1>6, SortsSeq
<1>8. CASE \E late \in BOOLEAN : Push(late)
  <2>0. PICK late \in BOOLEAN : Push(late)
    BY <1>8
  <2>1. PICK p \in Packets : p = arrived + 1
    BY <2>0, <1>1, OutThreadAssumption DEF Push, Packets
  <2>2. T = Inside \cup {p} /\ out' = out
    BY <1>2, <2>0, <2>1, InsidePush DEF Push, passVars
  <2>3. p \in Nat /\ \A q \in Inside : q < p
    <3>1. \A q \in Inside : q \in 1..arrived
      BY InsideArrived
    <3> QED BY <1>1, <2>1, <3>1
  <2>4. Sorts(Append(s, p), T) /\ T \subseteq Nat /\ IsFiniteSet(T)
    BY <1>1, <1>6, <2>2, <2>3, SortsAppend
  <2>5. Pending' = Append(s, p) /\ PendingInv'
    BY <1>4, <2>4
  <2>6. \A i \in DOMAIN out : out[i] < p
    <3>1. \A x \in Elements(out) : x \in 1..arrived
      BY DEF IInv, AccountInv, AnalysisInv, PassedInv, Untouched
    <3>2. \A x \in Elements(out) : x < p
      BY <1>1, <2>1, <3>1
    <3> QED BY <3>2 DEF Elements
  <2>7. Len(s) < QRingLength * BatchLength
    BY <1>7, <2>0, RoomLeft
  <2>8. \A i \in DOMAIN s : s[i] < p
    BY <1>7, <2>3
  <2>9. Pipe!Accept(p)
    BY <1>5, <2>2, <2>5, <2>6, <2>7, <2>8 DEF Pipe!Accept
  <2> QED BY <2>5, <2>9 DEF Pipe!Next
<1>9. CASE PassStep
  <2>1. PICK p \in Packets :
              /\ p \in Inside /\ \A q \in Inside : q # p => p < q
              /\ \A q : q \in Inside' <=> q \in Inside /\ q # p
              /\ \/ out' = Append(out, p)
                 \/ out' = out
    BY <1>9, PassEffect
  <2>2. T = Inside \ {p}
    BY <1>2, <2>1
  <2>3. s # <<>> /\ Head(s) = p /\ Sorts(Tail(s), T) /\ IsFiniteSet(T) /\ T \subseteq Nat
    BY <1>1, <1>6, <2>1, <2>2, SortsTail
  <2>4. Pending' = Tail(s) /\ PendingInv'
    BY <1>4, <2>3
  <2>5. Pipe!Deliver \/ Pipe!Discard
    BY <1>5, <2>1, <2>3, <2>4 DEF Pipe!Deliver, Pipe!Discard
  <2> QED BY <2>4, <2>5 DEF Pipe!Next
<1>10. CASE Delete
  <2>1. InsideFact' /\ \A u \in Slots : \A i : ~Full(u, i)'
    BY <1>10, HeldIsNext, DeleteEffect
  <2>2. T = {}
    BY <1>2, <2>1 DEF InsideFact, In
  <2>3. Sorts(<<>>, T) /\ IsFiniteSet(T) /\ T \subseteq Nat
    BY <2>2, SortsEmpty, FS_EmptySet
  <2>4. Pending' = <<>> /\ PendingInv'
    BY <1>4, <2>3
  <2>5. out' = out
    BY <1>10 DEF Delete
  <2> QED BY <2>4, <2>5 DEF Pipe!Next, Pipe!Close
<1>11. CASE ~PassStep /\ ~(\E late \in BOOLEAN : Push(late)) /\ ~Delete
  <2>1. T = Inside
    BY <1>2, <1>11, InsideKept
  <2>2. Pending' = s /\ PendingInv'
    BY <1>1, <1>4, <1>6, <2>1
  <2>3. out' = out
    <3>1. CASE PushTerminating
      BY <3>1 DEF PushTerminating
    <3>2. CASE \E e \in Actors : Ends(e)
      BY <3>2, EndsEffect
    <3> QED BY <1>11, <3>1, <3>2, AccountKept
  <2> QED BY <1>5, <2>2, <2>3 DEF Pipe!vars
<1> QED BY <1>8, <1>9, <1>10, <1>11

\* The stage is an ordered pipe of QRingLength * BatchLength packets, whatever the
\* number of its threads and however it changes: packets leave in the order of their
\* arrival, each once, and one that is refused only when it is its turn.
THEOREM StageImplementsPipe == Spec => StageIsOrderedPipe
<1>1. Init => PendingInv /\ Pipe!Init
  <2> SUFFICES ASSUME Init PROVE PendingInv /\ Pipe!Init
    OBVIOUS
  <2>1. IInv
    BY InitIInv
  <2>2. InsideFact
    BY <2>1, HeldIs DEF IInv
  <2>3. \A u \in Slots : \A i \in 1..BatchLength : ~Full(u, i)
    BY DEF Init, Full, Live, Slot
  <2>4. Inside = {}
    BY <2>2, <2>3 DEF InsideFact, In
  <2>5. Ascending({}) = <<>>
    BY SortsEmpty, FS_EmptySet, AscendingIs
  <2>6. Pending = <<>>
    BY <2>4, <2>5 DEF Pending
  <2>7. PendingInv
    BY <2>4, <2>6, SortsEmpty DEF PendingInv
  <2> QED BY <2>6, <2>7 DEF Pipe!Init, Init
<1>2. IInv /\ PendingInv /\ [Next]_vars => PendingInv' /\ [Pipe!Next]_(Pipe!vars)
  BY StagePipe
<1> QED BY <1>1, <1>2, Inductive, PTL DEF Spec, StageIsOrderedPipe, Pipe!Spec

\* What is proved of every ordered pipe.
EveryPipe == INSTANCE OrderedPipe_proofs WITH Packets <- Packets,
                 Capacity <- QRingLength * BatchLength, queue <- Pending, out <- out

\* Packets leave the stage in the order of their arrival and at most once, and what is
\* inside is younger than all that has left.
THEOREM LeaveInOrder == Spec => []Pipe!InOrder
<1>1. Pipe!Init => EveryPipe!Init
  BY DEF Pipe!Init, EveryPipe!Init
<1>2. [Pipe!Next]_(Pipe!vars) => [EveryPipe!Next]_(EveryPipe!vars)
  BY DEF Pipe!Next, Pipe!Accept, Pipe!Deliver, Pipe!Discard, Pipe!Close, Pipe!vars,
         EveryPipe!Next, EveryPipe!Accept, EveryPipe!Deliver, EveryPipe!Discard, EveryPipe!Close,
         EveryPipe!vars
<1>3. EveryPipe!InOrder => Pipe!InOrder
  BY DEF EveryPipe!InOrder, Pipe!InOrder, EveryPipe!Growing, Pipe!Growing
<1> QED
  BY <1>1, <1>2, <1>3, StageImplementsPipe, EveryPipe!PipeInOrder, PTL
     DEF StageIsOrderedPipe, Pipe!Spec, EveryPipe!Spec

=============================================================================
