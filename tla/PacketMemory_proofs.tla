------------------------- MODULE PacketMemory_proofs -------------------------
(* Proofs about the memory accounts of PacketBuffer, without a disk buffer. *)
EXTENDS PacketBuffer_proofs

-----------------------------------------------------------------------------
(* The invariants *)

\* Sum and SizeOf for block objects B.
SumIn(B, S) ==
    ZipSize * Cardinality({b \in S : B[b].zip}) + RawSize * Cardinality({b \in S : ~B[b].zip})

SizeIn(B, b) == IF B[b].zip THEN ZipSize ELSE RawSize

\* Without a disk buffer no block is ever in a file.
NoDisk ==
    /\ \A p \in Producers : ppc[p] \notin {"ask", "disk"}
    /\ \A b \in Blocks : blk[b].place # "none" => blk[b].inMem /\ blk[b].file = 0
    /\ wpc \notin {"wait", "dangling"}

\* The blocks whose packets are handed on are uncompressed.
Unzipped == \A b \in Blocks : blk[b].place = "trash" \/ (b = wblk /\ wpc = "hand") => ~blk[b].zip

\* The block that is on its way from one account to the other.
Moving == IF wpc \in {"leave", "account"} THEN 1 ELSE 0

MemInv ==
    /\ NoDisk
    /\ Unzipped
    /\ used = SumIn(blk, Charged)
    /\ trashSize = RawSize * (Len(trash) - Moving)

-----------------------------------------------------------------------------
(* Sums of block sizes *)

\* Blocks can be counted.
LEMMA BlocksFinite ==
    ASSUME NEW S \in SUBSET Blocks
    PROVE  IsFiniteSet(S) /\ Cardinality(S) \in Nat
  <1>1. IsFiniteSet(Blocks)
    BY Constants, FS_Interval DEF Blocks
  <1> QED
    BY <1>1, FS_Subset, FS_CardinalityType

\* The size of blocks together is a natural number.
LEMMA SumType ==
    ASSUME NEW B, NEW S \in SUBSET Blocks
    PROVE  SumIn(B, S) \in Nat
  <1> DEFINE Z == {b \in S : B[b].zip}
             R == {b \in S : ~B[b].zip}
  <1>1. Cardinality(Z) \in Nat /\ Cardinality(R) \in Nat
    BY BlocksFinite
  <1>2. \A m, n, x, y \in Nat : m * x + n * y \in Nat
    OBVIOUS
  <1> HIDE DEF Z, R
  <1>3. ZipSize * Cardinality(Z) + RawSize * Cardinality(R) \in Nat
    BY <1>1, <1>2, Constants
  <1> QED
    BY <1>3 DEF SumIn, Z, R

\* The sum depends only on which blocks are compressed.
LEMMA SumSame ==
    ASSUME NEW B, NEW C, NEW S, \A b \in S : C[b].zip = B[b].zip
    PROVE  SumIn(C, S) = SumIn(B, S)
  <1>1. {b \in S : C[b].zip} = {b \in S : B[b].zip} /\ {b \in S : ~C[b].zip} = {b \in S : ~B[b].zip}
    OBVIOUS
  <1> QED
    BY <1>1 DEF SumIn

\* One more block adds its size.
LEMMA SumAdd ==
    ASSUME NEW B, NEW S \in SUBSET Blocks, NEW b \in Blocks, b \notin S
    PROVE  SumIn(B, S \cup {b}) = SumIn(B, S) + SizeIn(B, b)
  <1> DEFINE Z == {c \in S : B[c].zip}
             R == {c \in S : ~B[c].zip}
             ZZ == {c \in S \cup {b} : B[c].zip}
             RR == {c \in S \cup {b} : ~B[c].zip}
  <1>1. /\ IsFiniteSet(Z) /\ Cardinality(Z) \in Nat /\ IsFiniteSet(R) /\ Cardinality(R) \in Nat
        /\ b \notin Z /\ b \notin R
    BY BlocksFinite
  <1>2. \A m, x \in Nat : m * (x + 1) = m * x + m
    OBVIOUS
  <1>3. SumIn(B, S) = ZipSize * Cardinality(Z) + RawSize * Cardinality(R)
    BY DEF SumIn
  <1>4. SumIn(B, S \cup {b}) = ZipSize * Cardinality(ZZ) + RawSize * Cardinality(RR)
    BY DEF SumIn
  <1>5. CASE B[b].zip
    <2>1. ZZ = Z \cup {b} /\ RR = R
      BY <1>5
    <2> HIDE DEF Z, R, ZZ, RR
    <2>2. Cardinality(ZZ) = Cardinality(Z) + 1
      BY <1>1, <2>1, FS_AddElement
    <2>3. ZipSize * Cardinality(ZZ) = ZipSize * Cardinality(Z) + ZipSize
      BY <1>1, <1>2, <2>2, Constants
    <2>4. PICK x \in Nat, y \in Nat : x = ZipSize * Cardinality(Z) /\ y = RawSize * Cardinality(R)
      BY <1>1, Constants
    <2> QED
      BY <1>3, <1>4, <1>5, <2>1, <2>3, <2>4, Constants DEF SizeIn
  <1>6. CASE ~B[b].zip
    <2>1. RR = R \cup {b} /\ ZZ = Z
      BY <1>6
    <2> HIDE DEF Z, R, ZZ, RR
    <2>2. Cardinality(RR) = Cardinality(R) + 1
      BY <1>1, <2>1, FS_AddElement
    <2>3. RawSize * Cardinality(RR) = RawSize * Cardinality(R) + RawSize
      BY <1>1, <1>2, <2>2, Constants
    <2>4. PICK x \in Nat, y \in Nat : x = ZipSize * Cardinality(Z) /\ y = RawSize * Cardinality(R)
      BY <1>1, Constants
    <2> QED
      BY <1>3, <1>4, <1>6, <2>1, <2>3, <2>4, Constants DEF SizeIn
  <1> QED
    BY <1>5, <1>6

\* sub__pb_used_size of a block that the account stands for does not underflow.
LEMMA SumRemove ==
    ASSUME NEW B, NEW S \in SUBSET Blocks, NEW b \in S
    PROVE  Sub(SumIn(B, S), SizeIn(B, b)) = SumIn(B, S \ {b})
  <1>1. PICK T \in SUBSET Blocks : T = S \ {b}
    OBVIOUS
  <1>2. S = T \cup {b} /\ b \in Blocks /\ b \notin T
    BY <1>1
  <1>3. SumIn(B, S) = SumIn(B, T) + SizeIn(B, b)
    BY <1>2, SumAdd
  <1>4. SumIn(B, T) \in Nat /\ SizeIn(B, b) \in Nat
    BY SumType, Constants DEF SizeIn
  <1>5. PICK x \in Nat, y \in Nat : x = SumIn(B, T) /\ y = SizeIn(B, b)
    BY <1>4
  <1>6. Sub(x + y, y) = x
    BY DEF Sub
  <1> QED
    BY <1>1, <1>3, <1>5, <1>6

-----------------------------------------------------------------------------
(* The steps of the producers *)

\* The account stays exact while it stands for the same blocks.
LEMMA UsedSame ==
    ASSUME used = SumIn(blk, Charged), used' = used, Charged' = Charged,
           \A b \in Charged : blk'[b].zip = blk[b].zip
    PROVE  used' = SumIn(blk', Charged')
  BY SumSame

\* The block of a producer is charged by that producer only.
LEMMA ProducerCharged ==
    ASSUME TypeOK, OwnInv, NEW p \in Producers, ppc[p] # "idle"
    PROVE  /\ pblk[p] \in Blocks /\ blk[pblk[p]] \in BlockStore
           /\ blk[pblk[p]].place = "producer"
           /\ \A q \in Producers : pblk[q] = pblk[p] => q = p
           /\ pblk[p] \in Charged <=> ppc[p] = "enqueue"
  <1>1. /\ pblk[p] \in Blocks /\ blk[pblk[p]] \in BlockStore
        /\ blk[pblk[p]].place = "producer"
    BY DEF OwnInv, ProducersOwn, TypeOK
  <1>2. \A q \in Producers : pblk[q] = pblk[p] => q = p
    BY <1>1 DEF OwnInv, ProducersOwn, TypeOK
  <1>3. ~(pblk[p] = wblk /\ wpc = "leave")
    BY <1>1 DEF OwnInv, WriterOwns, Lists, TypeOK
  <1>4. pblk[p] \in Charged <=> \E q \in Producers : pblk[q] = pblk[p] /\ ppc[q] = "enqueue"
    BY <1>1, <1>3 DEF Charged
  <1> QED
    BY <1>1, <1>2, <1>4

\* Neither account changes in the checks of push.
LEMMA PushCheckMem ==
    ASSUME TypeOK, OwnInv, MemInv, DiskMax = 0, NEW p \in Producers,
           PushCheck(p) \/ PushMemoryCheck(p)
    PROVE  MemInv'
  <1>1. /\ \E x \in {"push", "memory", "add"} : ppc' = [ppc EXCEPT ![p] = x]
        /\ ppc[p] # "enqueue"
        /\ UNCHANGED <<blk, pblk, used, trashSize, trash, wpc, wblk>>
    BY DEF PushCheck, PushMemoryCheck, wvars
  <1>2. PICK x \in {"push", "memory", "add"} : ppc' = [ppc EXCEPT ![p] = x]
    BY <1>1
  <1>3. \A q \in Producers : /\ ppc'[q] = "enqueue" <=> ppc[q] = "enqueue"
                             /\ ppc'[q] \notin {"ask", "disk"}
    BY <1>1, <1>2 DEF TypeOK, MemInv, NoDisk
  <1>4. Charged' = Charged
    BY <1>1, <1>3 DEF Charged
  <1>5. used' = SumIn(blk', Charged')
    BY <1>1, <1>4, UsedSame DEF MemInv
  <1> QED
    BY <1>1, <1>3, <1>5 DEF MemInv, NoDisk, Unzipped, Moving

\* add__pb_used_size
LEMMA PushMemoryAddMem ==
    ASSUME TypeOK, OwnInv, MemInv, DiskMax = 0, NEW p \in Producers, PushMemoryAdd(p)
    PROVE  MemInv'
  <1>1. /\ ppc[p] = "add" /\ ppc' = [ppc EXCEPT ![p] = "enqueue"]
        /\ used' = used + SizeIn(blk, pblk[p])
        /\ UNCHANGED <<blk, pblk, trashSize, trash, wpc, wblk>>
    BY DEF PushMemoryAdd, wvars, SizeOf, SizeIn
  <1>2. \A q \in Producers : ppc'[q] = IF q = p THEN "enqueue" ELSE ppc[q]
    BY <1>1 DEF TypeOK
  <1>3. /\ pblk[p] \in Blocks /\ pblk[p] \notin Charged
        /\ \A q \in Producers : pblk[q] = pblk[p] => q = p
    BY <1>1, ProducerCharged
  <1>4. Charged' = Charged \cup {pblk[p]}
    BY <1>1, <1>2, <1>3 DEF Charged
  <1>5. Charged \in SUBSET Blocks
    BY DEF Charged
  <1>6. used' = SumIn(blk', Charged')
    BY <1>1, <1>3, <1>4, <1>5, SumAdd DEF MemInv
  <1> QED
    BY <1>1, <1>2, <1>6 DEF MemInv, NoDisk, Unzipped, Moving

\* A new block is in no account.
LEMMA NewBlockStoreMem ==
    ASSUME TypeOK, OwnInv, MemInv, DiskMax = 0, NEW p \in Producers, NewBlockStore(p)
    PROVE  MemInv'
  <1>1. /\ ppc[p] = "idle" /\ ppc' = [ppc EXCEPT ![p] = "push"]
        /\ UNCHANGED <<used, trashSize, trash, wpc, wblk>>
    BY DEF NewBlockStore, wvars
  <1>2. PICK b \in Blocks, t \in BlockStore :
              /\ blk[b] = Unborn /\ Becomes(b, t)
              /\ t.place = "producer" /\ t.inMem = TRUE /\ t.file = 0
              /\ pblk' = [pblk EXCEPT ![p] = b]
    BY NewBlockStoreBlock
  <1>3. /\ blk'[b] = t /\ blk[b].place = "none"
        /\ \A c \in Blocks : c # b => blk'[c] = blk[c]
    BY <1>2, UnbornType DEF Becomes
  <1>4. \A q \in Producers : /\ ppc'[q] = IF q = p THEN "push" ELSE ppc[q]
                             /\ pblk'[q] = IF q = p THEN b ELSE pblk[q]
    BY <1>1, <1>2 DEF TypeOK
  <1>5. /\ \A q \in Producers : pblk[q] # b
        /\ pblk[p] = NoBlock /\ ~(b = wblk /\ wpc \in {"leave", "hand"})
    BY <1>1, <1>3, Constants DEF OwnInv, ProducersOwn, WriterOwns, Lists, Working, TypeOK
  <1>6. b \notin Charged /\ b \notin Charged'
    BY <1>1, <1>2, <1>3, <1>4, <1>5 DEF Charged
  <1>7. ASSUME NEW c \in Blocks, c # b PROVE c \in Charged <=> c \in Charged'
    <2>1. (\E q \in Producers : pblk[q] = c /\ ppc[q] = "enqueue")
             <=> (\E q \in Producers : pblk'[q] = c /\ ppc'[q] = "enqueue")
      BY <1>1, <1>4, <1>7
    <2> QED
      BY <1>1, <1>3, <1>7, <2>1 DEF Charged
  <1>8. Charged' = Charged /\ b \notin Charged
    BY <1>6, <1>7 DEF Charged
  <1>9. used' = SumIn(blk', Charged')
    <2>1. \A c \in Charged : blk'[c].zip = blk[c].zip
      BY <1>3, <1>8 DEF Charged
    <2> QED
      BY <1>1, <1>8, <2>1, UsedSame DEF MemInv
  <1>10. NoDisk'
    BY <1>1, <1>2, <1>3, <1>4 DEF MemInv, NoDisk
  <1>11. Unzipped'
    BY <1>1, <1>2, <1>3, <1>5 DEF MemInv, Unzipped
  <1> QED
    BY <1>1, <1>9, <1>10, <1>11 DEF MemInv, Moving

\* The block that was charged joins the queue.
LEMMA PushEnqueueMem ==
    ASSUME TypeOK, OwnInv, MemInv, DiskMax = 0, NEW p \in Producers, PushEnqueue(p)
    PROVE  MemInv'
  <1> DEFINE b == pblk[p]
  <1>1. /\ ppc[p] = "enqueue" /\ ppc' = [ppc EXCEPT ![p] = "idle"]
        /\ pblk' = [pblk EXCEPT ![p] = NoBlock]
        /\ blk' = [blk EXCEPT ![b].place = "queue"]
        /\ UNCHANGED <<used, trashSize, trash, wpc, wblk>>
    BY DEF PushEnqueue, wvars
  <1>2. /\ b \in Blocks /\ b \in Charged /\ blk[b].place = "producer"
        /\ \A q \in Producers : pblk[q] = b => q = p
    BY <1>1, ProducerCharged
  <1>3. /\ blk'[b].place = "queue" /\ blk'[b].zip = blk[b].zip
        /\ blk'[b].inMem = blk[b].inMem /\ blk'[b].file = blk[b].file
        /\ \A c \in Blocks : c # b => blk'[c] = blk[c]
    BY <1>1, <1>2, PlaceChanges DEF TypeOK, Places, Becomes
  <1>4. \A q \in Producers : /\ ppc'[q] = IF q = p THEN "idle" ELSE ppc[q]
                             /\ pblk'[q] = IF q = p THEN NoBlock ELSE pblk[q]
    BY <1>1 DEF TypeOK
  <1> HIDE DEF b
  <1>5. b \in Charged'
    BY <1>2, <1>3 DEF Charged
  <1>6. ASSUME NEW c \in Blocks, c # b PROVE c \in Charged <=> c \in Charged'
    <2>1. (\E q \in Producers : pblk[q] = c /\ ppc[q] = "enqueue")
             <=> (\E q \in Producers : pblk'[q] = c /\ ppc'[q] = "enqueue")
      BY <1>1, <1>4, <1>6 DEF b
    <2> QED
      BY <1>1, <1>3, <1>6, <2>1 DEF Charged
  <1>7. Charged' = Charged
    BY <1>2, <1>5, <1>6 DEF Charged
  <1>8. used' = SumIn(blk', Charged')
    <2>1. \A c \in Charged : blk'[c].zip = blk[c].zip
      BY <1>3 DEF Charged
    <2> QED
      BY <1>1, <1>7, <2>1, UsedSame DEF MemInv
  <1>9. NoDisk'
    BY <1>1, <1>2, <1>3, <1>4 DEF MemInv, NoDisk
  <1>10. Unzipped'
    BY <1>1, <1>2, <1>3 DEF MemInv, Unzipped
  <1> QED
    BY <1>1, <1>8, <1>9, <1>10 DEF MemInv, Moving

-----------------------------------------------------------------------------
(* The steps of the write thread and of the other threads *)

\* Steps between the accounts: neither changes.
LEMMA WriterOnlyMem ==
    ASSUME TypeOK, OwnInv, MemInv, PopEmpty \/ PopCount \/ SkipCleanup \/ WriteThreadStop
    PROVE  MemInv'
  <1>1. /\ wpc \in {"pop", "count", "clean"} /\ wpc' \in {"clean", "unzip", "pop", "stopped"}
        /\ UNCHANGED <<blk, ppc, pblk, used, trashSize, trash, wblk>>
    BY DEF PopEmpty, PopCount, SkipCleanup, WriteThreadStop, pvars
  <1>2. Charged' = Charged
    BY <1>1 DEF Charged
  <1>3. used' = SumIn(blk', Charged')
    BY <1>1, <1>2, UsedSame DEF MemInv
  <1>4. NoDisk' /\ Unzipped'
    BY <1>1 DEF MemInv, NoDisk, Unzipped
  <1> QED
    BY <1>1, <1>3, <1>4 DEF MemInv, Moving

\* The size of the block comes into the trash account.
LEMMA TrashAccountMem ==
    ASSUME TypeOK, OwnInv, MemInv, TrashAccount
    PROVE  MemInv'
  <1>1. /\ wpc = "account" /\ wpc' = "clean" /\ trashSize' = trashSize + RawSize
        /\ UNCHANGED <<blk, ppc, pblk, used, trash>>
    BY DEF TrashAccount, pvars
  <1>2. Charged' = Charged
    BY <1>1 DEF Charged
  <1>3. used' = SumIn(blk', Charged')
    BY <1>1, <1>2, UsedSame DEF MemInv
  <1>4. NoDisk' /\ Unzipped'
    BY <1>1 DEF MemInv, NoDisk, Unzipped
  <1>5. PICK n \in Nat : n = Len(trash)
    BY DEF TypeOK
  <1>6. trashSize = RawSize * (n - 1)
    BY <1>1, <1>5 DEF MemInv, Moving
  <1>7. \A m \in Nat : m * (n - 1) + m = m * (n - 0)
    OBVIOUS
  <1>8. trashSize' = RawSize * (Len(trash') - Moving')
    BY <1>1, <1>5, <1>6, <1>7, Constants DEF Moving
  <1> QED
    BY <1>3, <1>4, <1>8 DEF MemInv

\* The block that the write thread has put at the end of the trash.
LEMMA LeavingBlock ==
    ASSUME TypeOK, OwnInv, wpc \in {"leave", "account"}
    PROVE  /\ wblk \in Blocks /\ blk[wblk].place = "trash"
           /\ \A p \in Producers : pblk[p] # wblk
  <1>1. wblk = trash[Len(trash)] /\ Len(trash) \in DOMAIN trash
    BY DEF OwnInv, WriterOwns, TypeOK
  <1>2. wblk \in Blocks /\ blk[wblk].place = "trash"
    BY <1>1 DEF OwnInv, Lists, TypeOK
  <1> QED
    BY <1>2, Constants DEF OwnInv, ProducersOwn, TypeOK

\* The block leaves the used account.
LEMMA TrashLeaveUsedMem ==
    ASSUME TypeOK, OwnInv, MemInv, TrashLeaveUsed
    PROVE  MemInv'
  <1>1. /\ wpc = "leave" /\ wpc' = "account" /\ used' = Sub(used, SizeIn(blk, wblk))
        /\ UNCHANGED <<blk, ppc, pblk, trashSize, trash, wblk>>
    BY DEF TrashLeaveUsed, pvars, SizeOf, SizeIn
  <1>2. /\ wblk \in Blocks /\ blk[wblk].place = "trash"
        /\ \A p \in Producers : pblk[p] # wblk
    BY <1>1, LeavingBlock
  <1>3. wblk \in Charged /\ Charged \in SUBSET Blocks
    BY <1>1, <1>2 DEF Charged
  <1>4. Charged' = Charged \ {wblk}
    BY <1>1, <1>2 DEF Charged
  <1>5. used' = SumIn(blk', Charged')
    BY <1>1, <1>3, <1>4, SumRemove DEF MemInv
  <1>6. NoDisk' /\ Unzipped'
    BY <1>1 DEF MemInv, NoDisk, Unzipped
  <1> QED
    BY <1>1, <1>5, <1>6 DEF MemInv, Moving

\* The block in work, and how it is charged.
LEMMA WorkingBlock ==
    ASSUME TypeOK, OwnInv, wpc \in Working
    PROVE  /\ wblk \in Blocks /\ blk[wblk] \in BlockStore /\ blk[wblk].place = "writer"
           /\ \A p \in Producers : pblk[p] # wblk
           /\ \A b \in Blocks : blk[b].place = "writer" => b = wblk
           /\ wblk \in Charged <=> wpc # "unzipping"
           /\ Charged \in SUBSET Blocks
  <1>1. wblk \in Blocks /\ blk[wblk] \in BlockStore /\ blk[wblk].place = "writer"
    BY WriterBlock
  <1>2. \A p \in Producers : pblk[p] # wblk
    BY <1>1, Constants DEF OwnInv, ProducersOwn, TypeOK
  <1>3. \A b \in Blocks : blk[b].place = "writer" => b = wblk
    BY DEF OwnInv, WriterOwns
  <1>4. wblk \in Charged <=> wpc # "unzipping"
    BY <1>1, <1>2 DEF Charged, Working
  <1> QED
    BY <1>1, <1>2, <1>3, <1>4 DEF Charged

\* A compressed block leaves the account.
LEMMA UncompressBeginMem ==
    ASSUME TypeOK, OwnInv, MemInv, UncompressBegin
    PROVE  MemInv'
  <1>1. /\ wpc = "unzip"
        /\ used' = IF blk[wblk].zip THEN Sub(used, SizeIn(blk, wblk)) ELSE used
        /\ wpc' = IF blk[wblk].zip THEN "unzipping" ELSE "hand"
        /\ UNCHANGED <<blk, ppc, pblk, trashSize, trash, wblk>>
    BY DEF UncompressBegin, pvars, SizeOf, SizeIn
  <1>2. /\ wblk \in Blocks /\ blk[wblk].place = "writer"
        /\ \A p \in Producers : pblk[p] # wblk
        /\ \A b \in Blocks : blk[b].place = "writer" => b = wblk
        /\ wblk \in Charged /\ Charged \in SUBSET Blocks
    BY <1>1, WorkingBlock DEF Working
  <1>3. used' = SumIn(blk', Charged')
    <2>1. CASE blk[wblk].zip
      <3>1. Charged' = Charged \ {wblk}
        BY <1>1, <1>2, <2>1 DEF Charged
      <3> QED
        BY <1>1, <1>2, <2>1, <3>1, SumRemove DEF MemInv
    <2>2. CASE ~blk[wblk].zip
      <3>1. Charged' = Charged
        BY <1>1, <2>2 DEF Charged
      <3> QED
        BY <1>1, <2>2, <3>1, UsedSame DEF MemInv
    <2> QED
      BY <2>1, <2>2
  <1>4. NoDisk'
    BY <1>1 DEF MemInv, NoDisk
  <1>5. Unzipped'
    BY <1>1 DEF MemInv, Unzipped
  <1> QED
    BY <1>1, <1>3, <1>4, <1>5 DEF MemInv, Moving

\* It comes back larger.
LEMMA UncompressEndMem ==
    ASSUME TypeOK, OwnInv, MemInv, UncompressEnd
    PROVE  MemInv'
  <1>1. /\ wpc = "unzipping" /\ wpc' = "hand" /\ used' = used + RawSize
        /\ UNCHANGED <<ppc, pblk, trashSize, trash, wblk>>
    BY DEF UncompressEnd, pvars
  <1>2. /\ wblk \in Blocks /\ blk[wblk].place = "writer"
        /\ \A b \in Blocks : blk[b].place = "writer" => b = wblk
        /\ wblk \notin Charged /\ Charged \in SUBSET Blocks
    BY <1>1, WorkingBlock DEF Working
  <1>3. /\ blk'[wblk].place = "writer" /\ blk'[wblk].zip = FALSE
        /\ blk'[wblk].inMem = blk[wblk].inMem /\ blk'[wblk].file = blk[wblk].file
        /\ \A c \in Blocks : c # wblk => blk'[c] = blk[c]
    <2>1. PICK v \in BOOLEAN : v = FALSE
      OBVIOUS
    <2>2. blk' = [blk EXCEPT ![wblk].zip = v]
      BY <2>1 DEF UncompressEnd
    <2>3. blk \in [Blocks -> BlockStore]
      BY DEF TypeOK
    <2>4. Becomes(wblk, blk'[wblk])
      BY <1>2, <2>2, <2>3, ZipChanges
    <2> QED
      BY <1>2, <2>1, <2>2, <2>3, <2>4, ZipChanges DEF Becomes
  <1>4. Charged' = Charged \cup {wblk}
    BY <1>1, <1>2, <1>3 DEF Charged
  <1>5. SumIn(blk', Charged) = used
    <2>1. \A c \in Charged : blk'[c].zip = blk[c].zip
      BY <1>2, <1>3
    <2> QED
      BY <2>1, SumSame DEF MemInv
  <1>6. used' = SumIn(blk', Charged')
    <2>1. SizeIn(blk', wblk) = RawSize
      BY <1>3 DEF SizeIn
    <2> QED
      BY <1>1, <1>2, <1>4, <1>5, <2>1, SumAdd
  <1>7. NoDisk'
    BY <1>1, <1>2, <1>3 DEF MemInv, NoDisk
  <1>8. Unzipped'
    BY <1>1, <1>2, <1>3 DEF MemInv, Unzipped
  <1> QED
    BY <1>1, <1>6, <1>7, <1>8 DEF MemInv, Moving

\* A block that cannot be uncompressed is in no account any more.
LEMMA UncompressFailMem ==
    ASSUME TypeOK, OwnInv, MemInv, UncompressFail
    PROVE  MemInv'
  <1>1. /\ wpc = "unzipping" /\ wpc' = "clean" /\ blk' = [blk EXCEPT ![wblk] = Unborn]
        /\ UNCHANGED <<ppc, pblk, used, trashSize, trash>>
    BY DEF UncompressFail, pvars
  <1>2. /\ wblk \in Blocks /\ blk[wblk].place = "writer"
        /\ \A p \in Producers : pblk[p] # wblk
        /\ \A b \in Blocks : blk[b].place = "writer" => b = wblk
        /\ wblk \notin Charged
    BY <1>1, WorkingBlock DEF Working
  <1>3. /\ blk'[wblk].place = "none"
        /\ \A c \in Blocks : c # wblk => blk'[c] = blk[c]
    BY <1>1, <1>2, UnbornType DEF TypeOK
  <1>4. Charged' = Charged
    BY <1>1, <1>2, <1>3 DEF Charged
  <1>5. used' = SumIn(blk', Charged')
    <2>1. \A c \in Charged : blk'[c].zip = blk[c].zip
      BY <1>2, <1>3 DEF Charged
    <2> QED
      BY <1>1, <1>4, <2>1, UsedSame DEF MemInv
  <1>6. NoDisk'
    BY <1>1, <1>3 DEF MemInv, NoDisk
  <1>7. Unzipped'
    BY <1>1, <1>3 DEF MemInv, Unzipped
  <1> QED
    BY <1>1, <1>5, <1>6, <1>7 DEF MemInv, Moving

\* Steps that only lock or unlock a block.
LEMMA LocksMem ==
    ASSUME TypeOK, OwnInv, MemInv, UNCHANGED <<ppc, pblk, used, trashSize, trash, wpc, wblk>>,
           \A c \in Blocks : /\ blk'[c].place = blk[c].place /\ blk'[c].inMem = blk[c].inMem
                             /\ blk'[c].file = blk[c].file /\ blk'[c].zip = blk[c].zip
    PROVE  MemInv'
  <1>1. Charged' = Charged
    BY DEF Charged
  <1>2. \A c \in Charged : blk'[c].zip = blk[c].zip
    BY DEF Charged
  <1>3. used' = SumIn(blk', Charged')
    BY <1>1, <1>2, UsedSame DEF MemInv
  <1>4. NoDisk' /\ Unzipped'
    BY DEF MemInv, NoDisk, Unzipped
  <1> QED
    BY <1>3, <1>4 DEF MemInv, Moving

\* Handing out a packet changes only locks.
LEMMA HandPacketBlock ==
    ASSUME TypeOK, OwnInv, HandPacket
    PROVE  \A c \in Blocks : /\ blk'[c].place = blk[c].place /\ blk'[c].inMem = blk[c].inMem
                             /\ blk'[c].file = blk[c].file /\ blk'[c].zip = blk[c].zip
  <1>1. /\ wpc = "hand" /\ handed < Packets
        /\ blk' = blk \/ blk' = [blk EXCEPT ![wblk].locks = @ + 1]
    BY DEF HandPacket
  <1>2. CASE blk' = [blk EXCEPT ![wblk].locks = @ + 1]
    <2> wpc \in Working
      BY <1>1 DEF Working
    <2>1. wblk \in Blocks /\ blk[wblk] \in BlockStore
      BY WriterBlock
    <2>2. blk[wblk].locks <= handed
      BY <1>1, <2>1 DEF OwnInv, LocksHeld
    <2>3. PICK n \in 0 .. Packets : n = blk[wblk].locks + 1
      <3>1. PICK l \in 0 .. Packets : l = blk[wblk].locks
        BY <2>1, BlockFields
      <3>2. PICK h \in Nat : h = handed
        BY Constants DEF TypeOK
      <3>3. l + 1 \in 0 .. Packets
        BY <1>1, <2>2, <3>1, <3>2, Constants
      <3> QED
        BY <3>1, <3>3
    <2>4. blk' = [blk EXCEPT ![wblk].locks = n]
      BY <1>2, <2>3
    <2>5. /\ Becomes(wblk, blk'[wblk])
          /\ blk'[wblk].place = blk[wblk].place /\ blk'[wblk].inMem = blk[wblk].inMem
          /\ blk'[wblk].file = blk[wblk].file /\ blk'[wblk].zip = blk[wblk].zip
      BY <2>1, <2>4, LocksChanges DEF TypeOK
    <2> QED
      BY <2>5 DEF Becomes
  <1> QED
    BY <1>1, <1>2

\* Handing out a packet leaves the accounts.
LEMMA HandPacketMem ==
    ASSUME TypeOK, OwnInv, MemInv, HandPacket
    PROVE  MemInv'
  <1>1. UNCHANGED <<ppc, pblk, used, trashSize, trash, wpc, wblk>>
    BY DEF HandPacket, pvars
  <1> QED
    BY <1>1, HandPacketBlock, LocksMem

\* The block joins the trash and stays in the used account.
LEMMA TrashPushMem ==
    ASSUME TypeOK, OwnInv, MemInv, TrashPush
    PROVE  MemInv'
  <1>1. /\ wpc = "hand" /\ wpc' = "leave" /\ trash' = Append(trash, wblk)
        /\ blk' = [blk EXCEPT ![wblk].place = "trash"]
        /\ UNCHANGED <<ppc, pblk, used, trashSize, wblk>>
    BY DEF TrashPush, pvars
  <1> wpc \in Working
    BY <1>1 DEF Working
  <1>2. /\ wblk \in Blocks /\ blk[wblk].place = "writer"
        /\ \A b \in Blocks : blk[b].place = "writer" => b = wblk
        /\ wblk \in Charged /\ Charged \in SUBSET Blocks
    BY <1>1, WorkingBlock
  <1>3. /\ blk'[wblk].place = "trash" /\ blk'[wblk].zip = blk[wblk].zip
        /\ blk'[wblk].inMem = blk[wblk].inMem /\ blk'[wblk].file = blk[wblk].file
        /\ \A c \in Blocks : c # wblk => blk'[c] = blk[c]
    BY <1>1, <1>2, PlaceChanges DEF TypeOK, Places, Becomes
  <1>4. Charged' = Charged
    BY <1>1, <1>2, <1>3 DEF Charged
  <1>5. used' = SumIn(blk', Charged')
    <2>1. \A c \in Charged : blk'[c].zip = blk[c].zip
      BY <1>2, <1>3
    <2> QED
      BY <1>1, <1>4, <2>1, UsedSame DEF MemInv
  <1>6. NoDisk'
    BY <1>1, <1>2, <1>3 DEF MemInv, NoDisk
  <1>7. Unzipped'
    BY <1>1, <1>2, <1>3 DEF MemInv, Unzipped
  <1>8. trashSize' = RawSize * (Len(trash') - Moving')
    <2>1. Len(trash') = Len(trash) + 1 /\ Len(trash) \in Nat
      BY <1>1, <1>2 DEF TypeOK
    <2>2. trashSize = RawSize * (Len(trash) - 0)
      BY <1>1 DEF MemInv, Moving
    <2>3. Len(trash') - Moving' = Len(trash) - 0
      BY <1>1, <2>1 DEF Moving
    <2> QED
      BY <1>1, <2>2, <2>3
  <1> QED
    BY <1>5, <1>6, <1>7, <1>8 DEF MemInv

\* The block at the front of the queue is in memory, and the write thread takes it.
LEMMA PopFrontMem ==
    ASSUME TypeOK, OwnInv, MemInv, PopFront
    PROVE  MemInv'
  <1>1. PICK b : b = Head(queueStore)
    OBVIOUS
  <1>2. /\ b \in Blocks /\ blk[b] \in BlockStore /\ blk[b].place = "queue"
    <2>1. queueStore # <<>> /\ queueStore \in Seq(Blocks)
      BY DEF PopFront, TypeOK
    <2>2. 1 \in DOMAIN queueStore /\ b = queueStore[1]
      BY <1>1, <2>1
    <2> QED
      BY <2>1, <2>2 DEF OwnInv, Lists, TypeOK
  <1>3. blk[b].inMem /\ blk[b].file = 0
    BY <1>2 DEF MemInv, NoDisk
  <1>4. /\ wpc = "pop" /\ wpc' = "count" /\ wblk' = b
        /\ blk' = [blk EXCEPT ![b].place = "writer"]
        /\ UNCHANGED <<ppc, pblk, used, trashSize, trash>>
    BY <1>1, <1>3 DEF PopFront, pvars
  <1>5. /\ blk'[b].place = "writer" /\ blk'[b].zip = blk[b].zip
        /\ blk'[b].inMem = blk[b].inMem /\ blk'[b].file = blk[b].file
        /\ \A c \in Blocks : c # b => blk'[c] = blk[c]
    BY <1>2, <1>4, PlaceChanges DEF TypeOK, Places, Becomes
  <1>6. Charged' = Charged
    BY <1>2, <1>4, <1>5 DEF Charged
  <1>7. used' = SumIn(blk', Charged')
    <2>1. \A c \in Charged : blk'[c].zip = blk[c].zip
      BY <1>2, <1>5 DEF Charged
    <2> QED
      BY <1>4, <1>6, <2>1, UsedSame DEF MemInv
  <1>8. NoDisk'
    BY <1>2, <1>3, <1>4, <1>5 DEF MemInv, NoDisk
  <1>9. Unzipped'
    BY <1>4, <1>5 DEF MemInv, Unzipped
  <1> QED
    BY <1>4, <1>7, <1>8, <1>9 DEF MemInv, Moving

\* sub__pb_trash_size for the blocks deleted does not underflow, not even while the size
\* of the youngest block is still missing.
LEMMA DestroyTrashMem ==
    ASSUME TypeOK, OwnInv, MemInv, NEW D \in SUBSET DOMAIN trash, DestroyTrash(D),
           UNCHANGED <<ppc, pblk, used, wblk>>,
           \/ wpc = "clean" /\ wpc' = "pop"
           \/ wpc' = wpc /\ Len(trash) \in DOMAIN trash \ D
    PROVE  MemInv'
  <1>1. /\ \A b \in Blocks : blk'[b] = IF \E i \in D : trash[i] = b THEN Unborn ELSE blk[b]
        /\ \A b \in Blocks : (\E i \in D : trash[i] = b) => blk[b].place = "trash"
        /\ Len(trash) \in DOMAIN trash \ D => trash' # <<>>
        /\ Cardinality(D) \in Nat /\ trash' \in Seq(Blocks)
        /\ Len(trash') = Len(trash) - Cardinality(D)
    BY DestroyTrashStep
  <1>2. \A b \in Blocks : blk'[b] = blk[b] \/ (blk'[b].place = "none" /\ blk[b].place = "trash")
    BY <1>1, UnbornType
  <1>3. wpc = "leave" => wblk \in Blocks /\ blk'[wblk] = blk[wblk]
    <2> SUFFICES ASSUME wpc = "leave" PROVE wblk \in Blocks /\ blk'[wblk] = blk[wblk]
      OBVIOUS
    <2>1. Len(trash) \in DOMAIN trash \ D /\ wblk = trash[Len(trash)] /\ wblk \in Blocks
      BY LeavingBlock DEF OwnInv, WriterOwns
    <2>2. ~\E i \in D : trash[i] = wblk
      BY <2>1 DEF OwnInv, Lists
    <2> QED
      BY <1>1, <2>1, <2>2
  <1>4. \A b \in Blocks : /\ b \in Charged => blk'[b] = blk[b]
                          /\ b \in Charged' => blk'[b] = blk[b]
    <2>1. ASSUME NEW b \in Blocks, b \in Charged, blk'[b] # blk[b] PROVE FALSE
      <3>1. blk[b].place = "trash"
        BY <1>2, <2>1
      <3>2. \A p \in Producers : pblk[p] # b
        BY <3>1, Constants DEF OwnInv, ProducersOwn, TypeOK
      <3>3. b = wblk /\ wpc = "leave"
        BY <2>1, <3>1, <3>2 DEF Charged
      <3> QED
        BY <1>3, <2>1, <3>3
    <2>2. ASSUME NEW b \in Blocks, b \in Charged', blk'[b] # blk[b] PROVE FALSE
      <3>1. blk[b].place = "trash" /\ blk'[b].place = "none"
        BY <1>2, <2>2
      <3>2. \A p \in Producers : pblk[p] # b
        BY <3>1, Constants DEF OwnInv, ProducersOwn, TypeOK
      <3>3. b = wblk /\ wpc = "leave"
        BY <2>2, <3>1, <3>2 DEF Charged
      <3> QED
        BY <1>3, <2>2, <3>3
    <2> QED
      BY <2>1, <2>2
  <1>5. wpc' = wpc \/ (wpc = "clean" /\ wpc' = "pop")
    OBVIOUS
  <1>6. Charged' = Charged
    <2>1. ASSUME NEW b \in Blocks, blk'[b] = blk[b] PROVE b \in Charged' <=> b \in Charged
      BY <1>5, <2>1 DEF Charged
    <2> QED
      BY <1>4, <2>1 DEF Charged
  <1>7. used' = SumIn(blk', Charged')
    <2>1. \A c \in Charged : blk'[c].zip = blk[c].zip
      BY <1>4 DEF Charged
    <2> QED
      BY <1>6, <2>1, UsedSame DEF MemInv
  <1>8. NoDisk'
    BY <1>2, <1>5 DEF MemInv, NoDisk
  <1>9. Unzipped'
    <2> SUFFICES ASSUME NEW b \in Blocks, blk'[b].place = "trash" \/ (b = wblk /\ wpc' = "hand")
                 PROVE  ~blk'[b].zip
      BY DEF Unzipped
    <2>1. blk'[b] = blk[b] => ~blk'[b].zip
      BY <1>5 DEF MemInv, Unzipped
    <2>2. blk[b].place = "trash" /\ blk'[b].place = "none" => FALSE
      <3>1. wpc = "hand" => blk[wblk].place = "writer"
        BY DEF OwnInv, WriterOwns, Working
      <3> QED
        BY <1>5, <3>1
    <2> QED
      BY <1>2, <2>1, <2>2
  <1>10. trashSize' = RawSize * (Len(trash') - Moving')
    <2>1. PICK n \in Nat, d \in Nat, m \in {0, 1} :
             n = Len(trash) /\ d = Cardinality(D) /\ m = Moving
      BY <1>1 DEF TypeOK, Moving
    <2>2. trashSize' = Sub(RawSize * (n - m), RawSize * d) /\ Moving' = m
      BY <1>5, <2>1 DEF DestroyTrash, MemInv, Moving
    <2>3. n - d - m \in Nat
      <3>1. Len(trash') \in Nat /\ Len(trash') = n - d
        BY <1>1, <2>1
      <3>2. CASE m = 0
        BY <3>1, <3>2
      <3>3. CASE m = 1
        <4>1. trash' # <<>>
          BY <1>1, <2>1, <3>3 DEF Moving
        <4>2. Len(trash') # 0
          BY <1>1, <4>1, EmptySeq
        <4> QED
          BY <3>1, <3>3, <4>2
      <3> QED
        BY <3>2, <3>3
    <2>4. PICK k \in Nat : k = n - d - m
      BY <2>3
    <2>5. n - m = k + d
      BY <2>1, <2>4
    <2>6. \A r \in Nat : Sub(r * (k + d), r * d) = r * k
      <3> SUFFICES ASSUME NEW r \in Nat PROVE Sub(r * (k + d), r * d) = r * k
        OBVIOUS
      <3>1. PICK x \in Nat, y \in Nat : x = r * k /\ y = r * d
        OBVIOUS
      <3>2. r * (k + d) = x + y
        BY <3>1
      <3>3. Sub(x + y, y) = x
        BY DEF Sub
      <3> QED
        BY <3>1, <3>2, <3>3
    <2>7. trashSize' = RawSize * k
      BY <2>2, <2>5, <2>6, Constants
    <2>8. Len(trash') - Moving' = k
      BY <1>1, <2>1, <2>2, <2>4
    <2> QED
      BY <2>7, <2>8
  <1> QED
    BY <1>7, <1>8, <1>9, <1>10 DEF MemInv

\* The configuration never changes.
LEMMA SetupKept ==
    ASSUME [Next]_vars
    PROVE  setup' = setup
  <1>1. ASSUME NEW p \in Producers, Push(p) PROVE setup' = setup
    BY <1>1 DEF Push, NewBlockStore, PushCheck, PushAskFile, PushToDisk, PushMemoryCheck,
                PushMemoryAdd, PushEnqueue, process
  <1>2. ASSUME WriteThread PROVE setup' = setup
    BY <1>2 DEF WriteThread, PopFront, PopEmpty, PopFromFile, PopFromFileFail, PopCount,
                UncompressBegin, UncompressEnd, UncompressFail, HandPacket, TrashPush,
                TrashLeaveUsed, TrashAccount, CleanupBlockStoreTrash, SkipCleanup,
                WriteThreadStop, process
  <1> QED
    BY <1>1, <1>2 DEF Next, DestroyBlock, UnlockPacket, Terminate, vars, process

\* At the start the accounts are empty.
LEMMA MemInit ==
    ASSUME Init
    PROVE  MemInv
  <1>1. Charged = {}
    BY UnbornType DEF Init, Charged
  <1>2. SumIn(blk, {}) = 0
    <2>1. {b \in {} : blk[b].zip} = {} /\ {b \in {} : ~blk[b].zip} = {}
      OBVIOUS
    <2>2. \A m, n \in Nat : m * 0 + n * 0 = 0
      OBVIOUS
    <2> QED
      BY <2>1, <2>2, FS_EmptySet, Constants DEF SumIn
  <1>3. NoDisk /\ Unzipped
    BY UnbornType DEF Init, NoDisk, Unzipped
  <1>4. trashSize = RawSize * (Len(trash) - Moving)
    BY Constants DEF Init, Moving
  <1> QED
    BY <1>1, <1>2, <1>3, <1>4 DEF MemInv, Init

\* Without spill files every step keeps the accounts exact.
LEMMA MemStep ==
    ASSUME TypeOK, OwnInv, MemInv, DiskMax = 0, [Next]_vars
    PROVE  MemInv'
  <1>1. ASSUME NEW p \in Producers, Push(p) PROVE MemInv'
    <2>1. ~PushAskFile(p) /\ ~PushToDisk(p)
      BY DEF MemInv, NoDisk, PushAskFile, PushToDisk
    <2> QED
      BY <1>1, <2>1, NewBlockStoreMem, PushCheckMem, PushMemoryAddMem, PushEnqueueMem DEF Push
  <1>2. ASSUME NEW D \in SUBSET DOMAIN trash, DestroyTrash(D),
               UNCHANGED <<pvars, used, wblk>>,
               \/ wpc = "clean" /\ wpc' = "pop"
               \/ wpc' = wpc /\ Len(trash) \in DOMAIN trash \ D
        PROVE  MemInv'
    BY <1>2, DestroyTrashMem DEF pvars
  <1>3. ASSUME NEW k \in 0 .. Len(trash), CleanupBlockStoreTrash(k) PROVE MemInv'
    <2>1. PICK D : D = {i \in Destroyable : i <= k}
      OBVIOUS
    <2>2. D \in SUBSET DOMAIN trash
      BY <2>1, DestroyableProperties
    <2> QED
      BY <1>2, <1>3, <2>1, <2>2 DEF CleanupBlockStoreTrash
  <1>4. ASSUME WriteThread PROVE MemInv'
    <2>1. ~PopFromFile /\ ~PopFromFileFail
      BY DEF MemInv, NoDisk, PopFromFile, PopFromFileFail
    <2> QED
      BY <1>3, <1>4, <2>1, PopFrontMem, WriterOnlyMem, UncompressBeginMem, UncompressEndMem,
         UncompressFailMem, HandPacketMem, TrashPushMem, TrashLeaveUsedMem, TrashAccountMem
         DEF WriteThread
  <1>5. ASSUME DestroyBlock PROVE MemInv'
    <2>1. PICK D \in SUBSET DOMAIN trash :
                DestroyTrash(D) /\ Len(trash) \in DOMAIN trash \ D
      BY <1>5, DestroyBlockSet
    <2>2. UNCHANGED <<pvars, used, wblk>> /\ wpc' = wpc
      BY <1>5 DEF DestroyBlock, wvars
    <2> QED
      BY <1>2, <2>1, <2>2
  <1>6. ASSUME NEW b \in Blocks, UnlockPacket(b) PROVE MemInv'
    <2>1. PICK t \in BlockStore :
              /\ Becomes(b, t) /\ t.place = blk[b].place /\ t.inMem = blk[b].inMem
              /\ t.file = blk[b].file /\ t.zip = blk[b].zip
      BY <1>6, UnlockPacketBlock
    <2>2. \A c \in Blocks : /\ blk'[c].place = blk[c].place /\ blk'[c].inMem = blk[c].inMem
                            /\ blk'[c].file = blk[c].file /\ blk'[c].zip = blk[c].zip
      BY <2>1 DEF Becomes
    <2>3. UNCHANGED <<ppc, pblk, used, trashSize, trash, wpc, wblk>>
      BY <1>6 DEF UnlockPacket, pvars, wvars
    <2> QED
      BY <2>2, <2>3, LocksMem
  <1>7. ASSUME Terminate \/ UNCHANGED vars PROVE MemInv'
    <2>1. UNCHANGED <<blk, ppc, pblk, used, trashSize, trash, wpc, wblk>>
      BY <1>7 DEF Terminate, vars, pvars, wvars
    <2> QED
      BY <2>1, LocksMem
  <1> QED
    BY <1>1, <1>4, <1>5, <1>6, <1>7 DEF Next

-----------------------------------------------------------------------------
(* The accounts are exact *)

\* The trash holds as many blocks as there are in that place.
LEMMA TrashCount ==
    ASSUME TypeOK, OwnInv
    PROVE  Cardinality({b \in Blocks : blk[b].place = "trash"}) = Len(trash)
  <1> DEFINE T == {b \in Blocks : blk[b].place = "trash"}
  <1>1. PICK n \in Nat : n = Len(trash) /\ DOMAIN trash = 1 .. n
    BY DEF TypeOK
  <1>2. trash \in [1 .. n -> T]
    <2>0. \A i \in 1 .. n : trash[i] \in Blocks
      BY <1>1 DEF TypeOK
    <2>1. \A i \in 1 .. n : trash[i] \in T
      BY <1>1, <2>0 DEF OwnInv, Lists
    <2> QED
      BY <1>1, <2>1 DEF TypeOK
  <1>3. trash \in Bijection(1 .. n, T)
    <2>1. \A i, j \in 1 .. n : trash[i] = trash[j] => i = j
      BY <1>1 DEF OwnInv, Lists
    <2>2. \A b \in T : \E i \in 1 .. n : trash[i] = b
      BY <1>1 DEF OwnInv, Lists
    <2> HIDE DEF T
    <2> QED
      BY <1>2, <2>1, <2>2, Fun_IsBij
  <1> HIDE DEF T
  <1>4. IsFiniteSet(1 .. n) /\ Cardinality(1 .. n) = n
    BY FS_Interval
  <1>5. ExistsBijection(1 .. n, T)
    BY <1>3, Fun_ExistsBij
  <1>6. Cardinality(T) = n
    BY <1>4, <1>5, FS_Bijection
  <1> QED
    BY <1>1, <1>6 DEF T

\* Sum is the sum over the blocks of the current state.
LEMMA SumIsSumIn ==
    ASSUME NEW S
    PROVE  Sum(S) = SumIn(blk, S)
  <1>1. S \ {b \in S : blk[b].zip} = {b \in S : ~blk[b].zip}
    OBVIOUS
  <1> QED
    BY <1>1 DEF Sum, SumIn

\* The sum over blocks that are not compressed.
LEMMA RawSum ==
    ASSUME NEW S \in SUBSET Blocks, \A b \in S : ~blk[b].zip
    PROVE  Sum(S) = RawSize * Cardinality(S)
  <1>1. {b \in S : blk[b].zip} = {} /\ S \ {} = S
    OBVIOUS
  <1>2. Sum(S) = ZipSize * Cardinality({}) + RawSize * Cardinality(S)
    BY <1>1 DEF Sum
  <1>3. PICK x \in Nat : x = RawSize * Cardinality(S)
    BY BlocksFinite, Constants
  <1>4. ZipSize * 0 + x = x
    BY Constants
  <1> QED
    BY <1>2, <1>3, <1>4, FS_EmptySet

\* The invariant gives the property of the run.
LEMMA AccountsFromInv ==
    ASSUME TypeOK, OwnInv, MemInv
    PROVE  AccountingExact
  <1>1. used = Sum(Charged)
    BY SumIsSumIn DEF MemInv
  <1>2. PICK T \in SUBSET Blocks : T = {b \in Blocks : blk[b].place = "trash"}
    OBVIOUS
  <1>3. Sum(T) = RawSize * Len(trash)
    <2>1. \A b \in T : ~blk[b].zip
      BY <1>2 DEF MemInv, Unzipped
    <2> QED
      BY <1>2, <2>1, RawSum, TrashCount
  <1>4. trashSize = Sum(T) - (IF wpc \in {"leave", "account"} THEN RawSize ELSE 0)
    <2>1. PICK n \in Nat, m \in {0, 1} : n = Len(trash) /\ m = Moving
      BY DEF TypeOK, Moving
    <2>2. trashSize = RawSize * (n - m) /\ Sum(T) = RawSize * n
      BY <1>3, <2>1 DEF MemInv
    <2>3. \A r \in Nat : r * (n - 1) = r * n - r /\ r * (n - 0) = r * n - 0
      OBVIOUS
    <2> QED
      BY <2>1, <2>2, <2>3, Constants DEF Moving
  <1> QED
    BY <1>1, <1>2, <1>4 DEF AccountingExact

\* The invariant for a process without a disk buffer.
AccountInv == DiskMax = 0 => MemInv

\* The two counters of cBuffersControl, which six places of the code add to and subtract
\* from, are exact after every step of every thread, when there is no disk buffer: no
\* block is charged twice, none is forgotten, and no subtraction ever underflows.
THEOREM BufferAccounts == Spec => []AccountingExact
  <1>1. Init => TypeOK /\ OwnInv /\ AccountInv
    BY OwnInit, MemInit DEF AccountInv
  <1>2. TypeOK /\ OwnInv /\ AccountInv /\ [Next]_vars => TypeOK' /\ OwnInv' /\ AccountInv'
    <2> SUFFICES ASSUME TypeOK, OwnInv, AccountInv, [Next]_vars
                 PROVE  TypeOK' /\ OwnInv' /\ AccountInv'
      OBVIOUS
    <2>1. TypeOK' /\ OwnInv'
      BY OwnStep
    <2>2. DiskMax' = DiskMax
      BY SetupKept DEF DiskMax
    <2> QED
      BY <2>1, <2>2, MemStep DEF AccountInv
  <1>3. TypeOK /\ OwnInv /\ AccountInv => AccountingExact
    BY AccountsFromInv DEF AccountInv, AccountingExact
  <1> QED
    BY <1>1, <1>2, <1>3, PTL DEF Spec

-----------------------------------------------------------------------------
(* The memory is bounded, without a disk buffer and without compression *)

\* The producers that have passed the check and not added their block yet.
Adding == {p \in Producers : ppc[p] = "add"}

\* The block that is in neither account.
Between == IF wpc = "account" THEN 1 ELSE 0

\* What is in the accounts and what is on its way there.
Load == used + trashSize + RawSize * (Between + Cardinality(Adding))

\* The most it can be: when the last check was passed, the accounts were below the limit.
Limit == 9 * MemMax + 10 * RawSize * (Cardinality(setup.producers) + 1)

PlainInv ==
    /\ \A b \in Blocks : ~blk[b].zip
    /\ wpc # "unzipping"
    /\ 10 * Load < Limit

\* The producers between the check and the account can be counted.
LEMMA AddingType ==
    ASSUME TypeOK, OwnInv
    PROVE  /\ IsFiniteSet(Adding) /\ Cardinality(Adding) \in Nat
           /\ Cardinality(setup.producers) \in Nat
           /\ Cardinality(Adding) <= Cardinality(setup.producers)
           /\ used \in Nat /\ trashSize \in Nat /\ MemMax \in Nat /\ setup \in Setups
  <1>1. setup.producers \subseteq Producers /\ MemMax \in Nat
    BY SetupType DEF TypeOK, MemMax
  <1>2. IsFiniteSet(setup.producers)
    BY <1>1, Constants, FS_Subset
  <1>3. Adding \in SUBSET setup.producers
    BY DEF Adding, OwnInv, ProducersOwn
  <1>4. IsFiniteSet(Adding) /\ Cardinality(Adding) <= Cardinality(setup.producers)
    BY <1>2, <1>3, FS_Subset
  <1> QED
    BY <1>1, <1>2, <1>4, FS_CardinalityType DEF TypeOK

\* A check that is passed leaves room for one block of each producer and one more.
LEMMA CheckedLoad ==
    ASSUME NEW u \in Nat, NEW t \in Nat, NEW m \in Nat, NEW a \in Nat, NEW c \in Nat,
           NEW r \in Nat, NEW w \in {0, 1}, a <= c, 10 * (u + t) < 9 * m
    PROVE  10 * (u + t + r * (w + a)) < 9 * m + 10 * r * (c + 1)
  <1>1. PICK d \in Nat : w + a + d = c + 1
    OBVIOUS
  <1>2. r * (c + 1) = r * (w + a) + r * d
    BY <1>1
  <1>3. PICK x \in Nat, y \in Nat : x = r * (w + a) /\ y = r * d
    OBVIOUS
  <1>4. 10 * (u + t + x) < 9 * m + 10 * (x + y)
    OBVIOUS
  <1>5. 10 * r * (c + 1) = 10 * (x + y)
    BY <1>2, <1>3
  <1> QED
    BY <1>3, <1>4, <1>5

\* No block is ever compressed.
LEMMA NeverZipped ==
    ASSUME TypeOK, OwnInv, MemInv, PlainInv, DiskMax = 0, ~setup.compress, [Next]_vars
    PROVE  (\A b \in Blocks : ~blk'[b].zip) /\ wpc' # "unzipping"
  <1>1. ASSUME NEW p \in Producers, Push(p) PROVE (\A b \in Blocks : ~blk'[b].zip) /\ wpc' = wpc
    <2>1. ~PushAskFile(p) /\ ~PushToDisk(p)
      BY DEF MemInv, NoDisk, PushAskFile, PushToDisk
    <2>2. CASE NewBlockStore(p)
      <3>1. PICK b \in Blocks, t \in BlockStore : Becomes(b, t) /\ t.zip = setup.compress
        BY <2>2, NewBlockStoreBlock
      <3>2. wpc' = wpc
        BY <2>2 DEF NewBlockStore, wvars
      <3> QED
        BY <3>1, <3>2 DEF Becomes, PlainInv
    <2>3. CASE PushCheck(p) \/ PushMemoryCheck(p) \/ PushMemoryAdd(p)
      BY <2>3 DEF PushCheck, PushMemoryCheck, PushMemoryAdd, wvars, PlainInv
    <2>4. CASE PushEnqueue(p)
      <3>1. /\ ppc[p] = "enqueue" /\ blk' = [blk EXCEPT ![pblk[p]].place = "queue"] /\ wpc' = wpc
        BY <2>4 DEF PushEnqueue, wvars
      <3>2. pblk[p] \in Blocks
        BY <3>1, ProducerCharged
      <3>3. Becomes(pblk[p], blk'[pblk[p]]) /\ blk'[pblk[p]].zip = blk[pblk[p]].zip
        BY <3>1, <3>2, PlaceChanges DEF TypeOK, Places
      <3> QED
        BY <3>1, <3>2, <3>3 DEF Becomes, PlainInv
    <2> QED
      BY <1>1, <2>1, <2>2, <2>3, <2>4 DEF Push
  <1>2. ASSUME NEW D \in SUBSET DOMAIN trash, DestroyTrash(D) PROVE \A b \in Blocks : ~blk'[b].zip
    <2>1. \A b \in Blocks : blk'[b] = IF \E i \in D : trash[i] = b THEN Unborn ELSE blk[b]
      BY <1>2, DestroyTrashStep
    <2> QED
      BY <2>1, UnbornType DEF PlainInv
  <1>3. ASSUME NEW k \in 0 .. Len(trash), CleanupBlockStoreTrash(k)
        PROVE  (\A b \in Blocks : ~blk'[b].zip) /\ wpc' = "pop"
    <2>1. PICK D : D = {i \in Destroyable : i <= k}
      OBVIOUS
    <2>2. D \in SUBSET DOMAIN trash
      BY <2>1, DestroyableProperties
    <2>3. DestroyTrash(D) /\ wpc' = "pop"
      BY <1>3, <2>1 DEF CleanupBlockStoreTrash
    <2> QED
      BY <1>2, <2>2, <2>3
  <1>4. ASSUME WriteThread PROVE (\A b \in Blocks : ~blk'[b].zip) /\ wpc' # "unzipping"
    <2>1. ~PopFromFile /\ ~PopFromFileFail /\ ~UncompressEnd /\ ~UncompressFail
      BY DEF MemInv, NoDisk, PlainInv, PopFromFile, PopFromFileFail, UncompressEnd, UncompressFail
    <2>2. CASE PopEmpty \/ PopCount \/ TrashLeaveUsed \/ TrashAccount \/ SkipCleanup \/ WriteThreadStop
      BY <2>2 DEF PopEmpty, PopCount, TrashLeaveUsed, TrashAccount, SkipCleanup, WriteThreadStop,
                  PlainInv
    <2>3. CASE UncompressBegin
      <3>1. wblk \in Blocks
        BY <2>3, WriterBlock DEF UncompressBegin, Working
      <3> QED
        BY <2>3, <3>1 DEF UncompressBegin, PlainInv
    <2>4. CASE PopFront
      <3>1. PICK b : b = Head(queueStore)
        OBVIOUS
      <3>2. b \in Blocks
        BY <2>4, <3>1 DEF PopFront, TypeOK
      <3>0. wpc' # "unzipping"
        BY <2>4 DEF PopFront
      <3>3. CASE blk' = [blk EXCEPT ![b] = Unborn]
        BY <3>0, <3>2, <3>3, UnbornType DEF PlainInv, TypeOK
      <3>4. CASE blk' = [blk EXCEPT ![b].place = "writer"]
        <4>1. Becomes(b, blk'[b]) /\ blk'[b].zip = blk[b].zip
          BY <3>2, <3>4, PlaceChanges DEF TypeOK, Places
        <4> QED
          BY <3>0, <3>2, <4>1 DEF Becomes, PlainInv
      <3>5. blk' = [blk EXCEPT ![b] = Unborn] \/ blk' = [blk EXCEPT ![b].place = "writer"]
        BY <2>4, <3>1 DEF PopFront
      <3> QED
        BY <3>3, <3>4, <3>5
    <2>5. CASE HandPacket
      <3>1. wpc' = wpc
        BY <2>5 DEF HandPacket
      <3>2. \A b \in Blocks : blk'[b].zip = blk[b].zip
        BY <2>5, HandPacketBlock
      <3> QED
        BY <3>1, <3>2 DEF PlainInv
    <2>6. CASE TrashPush
      <3>1. /\ wpc = "hand" /\ wpc' = "leave" /\ blk' = [blk EXCEPT ![wblk].place = "trash"]
        BY <2>6 DEF TrashPush
      <3>2. wblk \in Blocks
        BY <3>1, WriterBlock DEF Working
      <3>3. Becomes(wblk, blk'[wblk]) /\ blk'[wblk].zip = blk[wblk].zip
        BY <3>1, <3>2, PlaceChanges DEF TypeOK, Places
      <3> QED
        BY <3>1, <3>2, <3>3 DEF Becomes, PlainInv
    <2> QED
      BY <1>3, <1>4, <2>1, <2>2, <2>3, <2>4, <2>5, <2>6 DEF WriteThread
  <1>5. ASSUME DestroyBlock PROVE (\A b \in Blocks : ~blk'[b].zip) /\ wpc' = wpc
    <2>1. PICK D \in SUBSET DOMAIN trash : DestroyTrash(D)
      BY <1>5, DestroyBlockSet
    <2>2. wpc' = wpc
      BY <1>5 DEF DestroyBlock, wvars
    <2> QED
      BY <1>2, <2>1, <2>2
  <1>6. ASSUME NEW b \in Blocks, UnlockPacket(b) PROVE (\A c \in Blocks : ~blk'[c].zip) /\ wpc' = wpc
    <2>1. PICK t \in BlockStore : Becomes(b, t) /\ t.zip = blk[b].zip
      BY <1>6, UnlockPacketBlock
    <2>2. wpc' = wpc
      BY <1>6 DEF UnlockPacket, wvars
    <2> QED
      BY <2>1, <2>2 DEF Becomes, PlainInv
  <1>7. ASSUME Terminate \/ UNCHANGED vars PROVE (\A c \in Blocks : ~blk'[c].zip) /\ wpc' = wpc
    BY <1>7 DEF Terminate, vars, wvars, PlainInv
  <1>8. wpc # "unzipping"
    BY DEF PlainInv
  <1> QED
    BY <1>1, <1>4, <1>5, <1>6, <1>7, <1>8 DEF Next

\* The limit stays, and what is in the accounts or on its way there does not grow.
LEMMA LoadKept ==
    ASSUME TypeOK, OwnInv, PlainInv, setup' = setup, Load' <= Load, Load' \in Int
    PROVE  10 * Load' < Limit'
  <1>1. Limit' = Limit
    BY DEF Limit, MemMax
  <1>2. Load \in Int /\ Limit \in Int
    BY AddingType, Constants DEF Load, Limit, Between
  <1>3. 10 * Load < Limit
    BY DEF PlainInv
  <1>4. PICK x \in Int, y \in Int, z \in Int : x = Load /\ y = Load' /\ z = Limit
    BY <1>2
  <1>5. y <= x /\ 10 * x < z
    BY <1>3, <1>4
  <1>6. 10 * y < z
    BY <1>5
  <1> QED
    BY <1>1, <1>4, <1>6

\* A producer passes the check, or does not; or adds its block.
LEMMA PushLoad ==
    ASSUME TypeOK, OwnInv, PlainInv, setup' = setup, NEW p \in Producers,
           PushMemoryCheck(p) \/ PushMemoryAdd(p)
    PROVE  10 * Load' < Limit'
  <1>1. PICK u \in Nat, t \in Nat, m \in Nat, a \in Nat, c \in Nat, r \in Nat, w \in {0, 1} :
           /\ u = used /\ t = trashSize /\ m = MemMax /\ a = Cardinality(Adding)
           /\ c = Cardinality(setup.producers) /\ r = RawSize /\ w = Between
    BY AddingType, Constants DEF Between
  <1>2. a <= c /\ 10 * (u + t + r * (w + a)) < 9 * m + 10 * r * (c + 1)
    BY <1>1, AddingType DEF PlainInv, Load, Limit
  <1>3. /\ trashSize' = t /\ Between' = w /\ Limit' = 9 * m + 10 * r * (c + 1)
        /\ ppc[p] \in {"memory", "add"}
    BY <1>1 DEF PushMemoryCheck, PushMemoryAdd, Between, wvars, Limit, MemMax
  <1>4. IsFiniteSet(Adding) /\ IsFiniteSet(setup.producers) /\ p \in setup.producers
    <2>1. setup.producers \subseteq Producers
      BY SetupType DEF TypeOK
    <2>2. p \in setup.producers
      BY <1>3 DEF OwnInv, ProducersOwn
    <2> QED
      BY <2>1, <2>2, AddingType, Constants, FS_Subset
  <1>5. CASE PushMemoryCheck(p) /\ CheckAddUsed
    <2>1. ppc' = [ppc EXCEPT ![p] = "add"] /\ used' = u
      BY <1>1, <1>5 DEF PushMemoryCheck
    <2>2. Adding' \in SUBSET setup.producers
      BY <1>4, <2>1 DEF Adding, OwnInv, ProducersOwn, TypeOK
    <2>3. PICK b \in Nat : b = Cardinality(Adding') /\ b <= c
      BY <1>1, <1>4, <2>2, FS_Subset, FS_CardinalityType
    <2>4. 10 * (u + t) < 9 * m
      BY <1>1, <1>5 DEF CheckAddUsed
    <2>5. 10 * (u + t + r * (w + b)) < 9 * m + 10 * r * (c + 1)
      BY <2>3, <2>4, CheckedLoad
    <2>6. Load' = u + t + r * (w + b)
      BY <1>1, <1>3, <2>1, <2>3 DEF Load
    <2> QED
      BY <1>3, <2>5, <2>6
  <1>6. CASE PushMemoryCheck(p) /\ ~CheckAddUsed
    <2>1. ppc' = [ppc EXCEPT ![p] = "push"] /\ used' = u /\ ppc[p] = "memory"
      BY <1>1, <1>6 DEF PushMemoryCheck
    <2>2. Adding' = Adding
      BY <2>1 DEF Adding, TypeOK
    <2>3. Load' = u + t + r * (w + a)
      BY <1>1, <1>3, <2>1, <2>2 DEF Load
    <2> QED
      BY <1>2, <1>3, <2>3
  <1>7. CASE PushMemoryAdd(p)
    <2>1. ppc' = [ppc EXCEPT ![p] = "enqueue"] /\ ppc[p] = "add"
      BY <1>7 DEF PushMemoryAdd
    <2>2. used' = u + r
      <3>1. pblk[p] \in Blocks
        BY <2>1, ProducerCharged
      <3>2. SizeOf(pblk[p]) = RawSize
        BY <3>1 DEF PlainInv, SizeOf
      <3> QED
        BY <1>1, <1>7, <3>2 DEF PushMemoryAdd
    <2>3. Adding' = Adding \ {p} /\ p \in Adding
      BY <2>1 DEF Adding, TypeOK
    <2>4. Cardinality(Adding') = a - 1
      BY <1>1, <1>4, <2>3, FS_RemoveElement
    <2>5. Load' = (u + r) + t + r * (w + (a - 1))
      BY <1>1, <1>3, <2>2, <2>4 DEF Load
    <2>6. r * (w + (a - 1)) = r * (w + a) - r
      OBVIOUS
    <2>7. PICK x \in Nat : x = r * (w + a)
      OBVIOUS
    <2>8. (u + r) + t + (x - r) = u + t + x
      OBVIOUS
    <2>9. Load' = u + t + r * (w + a)
      BY <2>5, <2>6, <2>7, <2>8
    <2> QED
      BY <1>2, <1>3, <2>9
  <1> QED
    BY <1>5, <1>6, <1>7

\* Steps that leave the accounts and the producers alone that are about to add.
LEMMA SameLoad ==
    ASSUME TypeOK, OwnInv, PlainInv, UNCHANGED <<setup, used, trashSize>>,
           Adding' = Adding, wpc' = "account" <=> wpc = "account"
    PROVE  10 * Load' < Limit'
  <1>1. Load' = Load
    BY DEF Load, Between
  <1>2. Load \in Int
    BY AddingType, Constants DEF Load, Between
  <1> QED
    BY <1>1, <1>2, LoadKept

\* A block is deleted, or moves from one account to the other.
LEMMA TrashLoad ==
    ASSUME TypeOK, OwnInv, MemInv, PlainInv, UNCHANGED <<setup, ppc>>, trashSize' \in Nat,
           \/ TrashLeaveUsed
           \/ TrashAccount
           \/ /\ trashSize' <= trashSize /\ used' = used
              /\ wpc' = "account" <=> wpc = "account"
    PROVE  10 * Load' < Limit'
  <1>1. PICK u \in Nat, t \in Nat, a \in Nat, r \in Nat, w \in {0, 1} :
           /\ u = used /\ t = trashSize /\ a = Cardinality(Adding) /\ r = RawSize /\ w = Between
    BY AddingType, Constants DEF Between
  <1>2. Load = u + t + r * (w + a) /\ Cardinality(Adding') = a
    BY <1>1 DEF Load, Adding
  <1>3. PICK x \in Nat : x = r * a
    OBVIOUS
  <1>4. r * (0 + a) = x /\ r * (1 + a) = r + x
    BY <1>3
  <1>5. CASE TrashLeaveUsed
    <2>1. w = 0 /\ Between' = 1 /\ trashSize' = t /\ used' = Sub(used, SizeIn(blk, wblk)) /\ wpc = "leave"
      BY <1>1, <1>5 DEF TrashLeaveUsed, Between, SizeOf, SizeIn
    <2>2. wblk \in Blocks
      BY <2>1, LeavingBlock
    <2>3. SizeIn(blk, wblk) = r
      BY <1>1, <2>2 DEF SizeIn, PlainInv
    <2>4. u >= r
      <3>1. wblk \in Charged /\ Charged \in SUBSET Blocks
        BY <2>1, <2>2 DEF Charged
      <3>2. PICK T \in SUBSET Blocks : T = Charged \ {wblk}
        BY <3>1
      <3>3. Charged = T \cup {wblk} /\ wblk \notin T
        BY <3>1, <3>2
      <3>4. SumIn(blk, Charged) = SumIn(blk, T) + r /\ SumIn(blk, T) \in Nat
        BY <2>2, <2>3, <3>3, SumAdd, SumType
      <3> QED
        BY <1>1, <3>4 DEF MemInv
    <2>5. used' = u - r
      BY <1>1, <2>1, <2>3, <2>4 DEF Sub
    <2>6. Load' = (u - r) + t + (r + x)
      BY <1>1, <1>2, <1>4, <2>1, <2>5 DEF Load
    <2>7. Load = u + t + x
      BY <1>2, <1>4, <2>1
    <2>8. Load' <= Load /\ Load' \in Int
      BY <2>6, <2>7
    <2> QED
      BY <2>8, LoadKept
  <1>6. CASE TrashAccount
    <2>1. w = 1 /\ Between' = 0 /\ trashSize' = t + r /\ used' = u
      BY <1>1, <1>6 DEF TrashAccount, Between
    <2>2. Load' = u + (t + r) + x
      BY <1>1, <1>2, <1>4, <2>1 DEF Load
    <2>3. Load = u + t + (r + x)
      BY <1>2, <1>4, <2>1
    <2>4. Load' <= Load /\ Load' \in Int
      BY <2>2, <2>3
    <2> QED
      BY <2>4, LoadKept
  <1>7. CASE /\ trashSize' <= trashSize /\ used' = used
             /\ wpc' = "account" <=> wpc = "account"
    <2>1. PICK s \in Nat : s = trashSize' /\ s <= t
      BY <1>1, <1>7
    <2>2. Between' = w
      BY <1>1, <1>7 DEF Between
    <2>3. PICK y \in Nat : y = r * (w + a)
      OBVIOUS
    <2>4. Load' = u + s + y /\ Load = u + t + y
      BY <1>1, <1>2, <1>7, <2>1, <2>2, <2>3 DEF Load
    <2>5. u + s + y <= u + t + y /\ u + s + y \in Int
      <3>1. \A i, j, k, n \in Nat : i <= j => k + i + n <= k + j + n /\ k + i + n \in Int
        OBVIOUS
      <3>2. s <= t
        BY <2>1
      <3> QED
        BY <3>1, <3>2
    <2>6. Load' <= Load /\ Load' \in Int
      BY <2>4, <2>5
    <2> QED
      BY <2>6, LoadKept
  <1> QED
    BY <1>5, <1>6, <1>7

\* Every step keeps the load below the limit.
LEMMA LoadStep ==
    ASSUME TypeOK, OwnInv, MemInv, PlainInv, DiskMax = 0, [Next]_vars
    PROVE  10 * Load' < Limit'
  <1> setup' = setup
    BY SetupKept
  <1>1. ASSUME NEW p \in Producers, Push(p) PROVE 10 * Load' < Limit'
    <2>1. ~PushAskFile(p) /\ ~PushToDisk(p)
      BY DEF MemInv, NoDisk, PushAskFile, PushToDisk
    <2>2. CASE NewBlockStore(p) \/ PushCheck(p) \/ PushEnqueue(p)
      <3>1. /\ ppc[p] # "add" /\ \E x \in {"push", "memory", "idle"} : ppc' = [ppc EXCEPT ![p] = x]
            /\ UNCHANGED <<used, trashSize, wpc>>
        BY <2>2 DEF NewBlockStore, PushCheck, PushEnqueue, wvars
      <3>2. Adding' = Adding
        BY <3>1 DEF Adding, TypeOK
      <3> QED
        BY <3>1, <3>2, SameLoad
    <2> QED
      BY <1>1, <2>1, <2>2, PushLoad DEF Push
  <1>2. ASSUME NEW D \in SUBSET DOMAIN trash, DestroyTrash(D), UNCHANGED <<ppc, used>>,
               wpc' = "account" <=> wpc = "account"
        PROVE  10 * Load' < Limit'
    <2>1. Cardinality(D) \in Nat /\ trashSize' \in Nat
      BY <1>2, DestroyTrashStep
    <2>2. PICK t \in Nat, n \in Nat : t = trashSize /\ n = RawSize * Cardinality(D)
      <3>1. PICK d \in Nat, r \in Nat : d = Cardinality(D) /\ r = RawSize
        BY <2>1, Constants
      <3>2. r * d \in Nat
        OBVIOUS
      <3> QED
        BY <3>1, <3>2 DEF TypeOK
    <2>3. trashSize' = Sub(t, n)
      BY <1>2, <2>2 DEF DestroyTrash
    <2>4. trashSize' <= trashSize
      BY <2>2, <2>3 DEF Sub
    <2> QED
      BY <1>2, <2>1, <2>4, TrashLoad
  <1>3. ASSUME NEW k \in 0 .. Len(trash), CleanupBlockStoreTrash(k) PROVE 10 * Load' < Limit'
    <2>1. PICK D : D = {i \in Destroyable : i <= k}
      OBVIOUS
    <2>2. D \in SUBSET DOMAIN trash
      BY <2>1, DestroyableProperties
    <2> QED
      BY <1>2, <1>3, <2>1, <2>2 DEF CleanupBlockStoreTrash, pvars
  <1>4. ASSUME WriteThread PROVE 10 * Load' < Limit'
    <2>1. ~PopFromFile /\ ~PopFromFileFail /\ ~UncompressEnd /\ ~UncompressFail
      BY DEF MemInv, NoDisk, PlainInv, PopFromFile, PopFromFileFail, UncompressEnd, UncompressFail
    <2>2. CASE PopFront \/ PopEmpty \/ PopCount \/ HandPacket \/ TrashPush \/ SkipCleanup \/ WriteThreadStop
      <3>1. UNCHANGED <<ppc, used, trashSize>> /\ wpc # "account" /\ wpc' # "account"
        BY <2>2 DEF PopFront, PopEmpty, PopCount, HandPacket, TrashPush, SkipCleanup,
                    WriteThreadStop, pvars
      <3>2. Adding' = Adding
        BY <3>1 DEF Adding
      <3> QED
        BY <3>1, <3>2, SameLoad
    <2>3. CASE UncompressBegin
      <3>1. wblk \in Blocks
        BY <2>3, WriterBlock DEF UncompressBegin, Working
      <3>2. UNCHANGED <<ppc, used, trashSize>> /\ wpc # "account" /\ wpc' # "account"
        BY <2>3, <3>1 DEF UncompressBegin, PlainInv, pvars
      <3>3. Adding' = Adding
        BY <3>2 DEF Adding
      <3> QED
        BY <3>2, <3>3, SameLoad
    <2>4. CASE TrashLeaveUsed \/ TrashAccount
      <3>1. ppc' = ppc /\ trashSize' \in Nat
        BY <2>4, Constants DEF TrashLeaveUsed, TrashAccount, TypeOK, pvars
      <3> QED
        BY <2>4, <3>1, TrashLoad
    <2> QED
      BY <1>3, <1>4, <2>1, <2>2, <2>3, <2>4 DEF WriteThread
  <1>5. ASSUME DestroyBlock PROVE 10 * Load' < Limit'
    <2>1. PICK D \in SUBSET DOMAIN trash : DestroyTrash(D)
      BY <1>5, DestroyBlockSet
    <2>2. UNCHANGED <<ppc, used, wpc>>
      BY <1>5 DEF DestroyBlock, wvars, pvars
    <2> QED
      BY <1>2, <2>1, <2>2
  <1>6. ASSUME Terminate \/ UNCHANGED vars \/ \E b \in Blocks : UnlockPacket(b)
        PROVE  10 * Load' < Limit'
    <2>1. UNCHANGED <<ppc, used, trashSize, wpc>>
      BY <1>6 DEF Terminate, vars, wvars, pvars, UnlockPacket
    <2>2. Adding' = Adding
      BY <2>1 DEF Adding
    <2> QED
      BY <2>1, <2>2, SameLoad
  <1> QED
    BY <1>1, <1>4, <1>5, <1>6 DEF Next

\* At the start the load is below the limit.
LEMMA PlainInit ==
    ASSUME Init
    PROVE  PlainInv
  <1>1. Adding = {}
    BY DEF Init, Adding
  <1>2. Load = 0
    BY <1>1, FS_EmptySet, Constants DEF Load, Between, Init
  <1>3. PICK m \in Nat, c \in Nat, r \in Nat \ {0} :
           m = MemMax /\ c = Cardinality(setup.producers) /\ r = RawSize
    <2>1. setup.producers \subseteq Producers /\ MemMax \in Nat
      BY SetupType DEF Init, MemMax
    <2>2. Cardinality(setup.producers) \in Nat
      BY <2>1, Constants, FS_Subset, FS_CardinalityType
    <2> QED
      BY <2>1, <2>2, Constants
  <1>4. 9 * m + 10 * r * (c + 1) > 0
    <2>1. PICK x \in Nat : x = r * c
      OBVIOUS
    <2>2. 10 * r * (c + 1) = 10 * x + 10 * r
      BY <2>1
    <2> QED
      BY <2>2
  <1>5. 10 * Load < Limit
    BY <1>2, <1>3, <1>4 DEF Limit
  <1> QED
    BY <1>5, UnbornType DEF PlainInv, Init

\* The blocks in memory are in an account, or on their way from one to the other.
LEMMA HeldIsAccounted ==
    ASSUME TypeOK, OwnInv, MemInv, PlainInv
    PROVE  MemHeld \in Nat /\ MemHeld <= Load
  <1> DEFINE H == {b \in Blocks : blk[b].inMem /\ blk[b].place # "producer"}
             T == {b \in Blocks : blk[b].place = "trash"}
             C == Charged \ T
  <1>1. H \in SUBSET Blocks /\ T \in SUBSET Blocks /\ Charged \in SUBSET Blocks /\ C \in SUBSET Blocks
    BY DEF Charged
  <1>2. H \in SUBSET (C \cup T)
    <2> SUFFICES ASSUME NEW b \in Blocks, blk[b].inMem, blk[b].place # "producer",
                        blk[b].place # "trash"
                 PROVE  b \in Charged
      OBVIOUS
    <2>1. blk[b] \in BlockStore /\ blk[b].place \in Places
      BY BlockFields DEF TypeOK
    <2>2. blk[b].place # "none"
      BY UnbornType DEF OwnInv, LocksHeld
    <2>3. blk[b].place \in {"queue", "writer"}
      BY <2>1, <2>2 DEF Places
    <2> QED
      BY <2>3 DEF Charged, PlainInv
  <1>3. C = IF wpc = "leave" THEN Charged \ {wblk} ELSE Charged
    <2>1. ASSUME NEW b \in Charged, b \in T PROVE b = wblk /\ wpc = "leave"
      <3>1. b \in Blocks /\ blk[b].place = "trash"
        BY <2>1
      <3>2. \A p \in Producers : pblk[p] # b
        BY <3>1, Constants DEF OwnInv, ProducersOwn, TypeOK
      <3> QED
        BY <2>1, <3>1, <3>2 DEF Charged
    <2>2. wpc = "leave" => wblk \in T
      BY LeavingBlock
    <2> QED
      BY <2>1, <2>2
  <1>4. wpc = "leave" => wblk \in Charged
    BY LeavingBlock DEF Charged
  <1>5. used = RawSize * Cardinality(Charged) /\ MemHeld = RawSize * Cardinality(H)
    BY <1>1, RawSum, SumIsSumIn DEF MemInv, PlainInv, MemHeld
  <1>6. Cardinality(T) = Len(trash)
    BY TrashCount
  <1> HIDE DEF H, T, C
  <1>7. /\ IsFiniteSet(T) /\ IsFiniteSet(C) /\ IsFiniteSet(Charged)
        /\ Cardinality(H) \in Nat /\ Cardinality(T) \in Nat /\ Cardinality(C) \in Nat
        /\ Cardinality(Charged) \in Nat /\ Cardinality(C \cap T) \in Nat
    BY <1>1, BlocksFinite
  <1>8. Cardinality(H) <= Cardinality(C) + Cardinality(T)
    <2>1. IsFiniteSet(C \cup T)
          /\ Cardinality(C \cup T) = Cardinality(C) + Cardinality(T) - Cardinality(C \cap T)
      BY <1>7, FS_Union
    <2>2. Cardinality(H) <= Cardinality(C \cup T)
      BY <1>2, <2>1, FS_Subset
    <2> QED
      BY <1>7, <2>1, <2>2
  <1>9. PICK h \in Nat, c \in Nat, g \in Nat, t \in Nat, a \in Nat, r \in Nat :
           /\ h = Cardinality(H) /\ c = Cardinality(C) /\ g = Cardinality(Charged)
           /\ t = Len(trash) /\ a = Cardinality(Adding) /\ r = RawSize
    BY <1>6, <1>7, AddingType, Constants
  <1>10. c = g - (IF wpc = "leave" THEN 1 ELSE 0)
    BY <1>3, <1>4, <1>7, <1>9, FS_RemoveElement
  <1>11. h <= g + (t - Moving) + Between
    <2>1. h <= c + t
      BY <1>6, <1>8, <1>9
    <2>2. CASE wpc = "leave"
      BY <1>10, <2>1, <2>2 DEF Moving, Between
    <2>3. CASE wpc = "account"
      BY <1>10, <2>1, <2>3 DEF Moving, Between
    <2>4. CASE wpc \notin {"leave", "account"}
      BY <1>10, <2>1, <2>4 DEF Moving, Between
    <2> QED
      BY <2>2, <2>3, <2>4
  <1>12. PICK m \in {0, 1}, w \in {0, 1} : m = Moving /\ w = Between
    BY DEF Moving, Between
  <1>13. Load = r * g + r * (t - m) + r * (w + a)
    BY <1>5, <1>9, <1>12 DEF Load, MemInv
  <1>14. r * h <= r * g + r * (t - m) + r * (w + a)
    <2>1. PICK e \in Nat : h + e = g + (t - m) + (w + a)
      BY <1>11, <1>12
    <2>2. r * (h + e) = r * h + r * e /\ r * e \in Nat /\ r * h \in Nat
      OBVIOUS
    <2>3. r * (g + (t - m) + (w + a)) = r * g + r * (t - m) + r * (w + a)
      OBVIOUS
    <2>4. PICK x \in Nat, y \in Nat : x = r * h /\ y = r * e
      BY <2>2
    <2>5. r * g + r * (t - m) + r * (w + a) = x + y
      BY <2>1, <2>2, <2>3, <2>4
    <2>6. x <= x + y
      OBVIOUS
    <2> QED
      BY <2>4, <2>5, <2>6
  <1>15. MemHeld = r * h /\ r * h \in Nat
    BY <1>5, <1>9
  <1> QED
    BY <1>13, <1>14, <1>15

\* The bound, from what is in the accounts.
LEMMA BoundFromLoad ==
    ASSUME TypeOK, OwnInv, MemInv, PlainInv
    PROVE  PlainMemoryBounded
  <1>1. PICK m \in Nat, c \in Nat, r \in Nat :
           m = MemMax /\ c = Cardinality(setup.producers) /\ r = RawSize
    BY AddingType, Constants
  <1>2. PICK h \in Nat : h = MemHeld
    BY HeldIsAccounted
  <1>3. PICK l \in Int : l = Load
    BY AddingType, Constants DEF Load, Between
  <1>4. h <= l /\ 10 * l < 9 * m + 10 * r * (c + 1)
    BY <1>1, <1>2, <1>3, HeldIsAccounted DEF PlainInv, Limit
  <1>5. PICK x \in Nat : x = r * (c + 1)
    OBVIOUS
  <1>6. 10 * r * (c + 1) = 10 * x
    BY <1>5
  <1>7. 10 * (h - x) < 9 * m
    BY <1>4, <1>6
  <1> QED
    BY <1>1, <1>2, <1>5, <1>7 DEF PlainMemoryBounded

\* The invariant for a process with neither disk buffer nor compression.
PlainLoadInv == DiskMax = 0 /\ ~setup.compress => PlainInv

\* max_buffer_mem holds with what check__pb__add_used leaves for it: however many producers
\* pass the check at the same moment, and whatever the write and the destroy thread do in
\* between, the blocks in memory stay below 90% of the limit, up to one block for each
\* producer and one on its way to the trash.
THEOREM BufferBounded == Spec => []PlainMemoryBounded
  <1> DEFINE I == TypeOK /\ OwnInv /\ AccountInv /\ PlainLoadInv
  <1>1. Init => I
    BY OwnInit, MemInit, PlainInit DEF AccountInv, PlainLoadInv
  <1>2. I /\ [Next]_vars => I'
    <2> SUFFICES ASSUME TypeOK, OwnInv, AccountInv, PlainLoadInv, [Next]_vars
                 PROVE  TypeOK' /\ OwnInv' /\ AccountInv' /\ PlainLoadInv'
      OBVIOUS
    <2>1. TypeOK' /\ OwnInv'
      BY OwnStep
    <2>2. setup' = setup
      BY SetupKept
    <2>3. DiskMax = 0 => MemInv'
      BY MemStep DEF AccountInv
    <2>4. DiskMax = 0 /\ ~setup.compress => PlainInv'
      <3> SUFFICES ASSUME DiskMax = 0, ~setup.compress PROVE PlainInv'
        OBVIOUS
      <3>1. MemInv /\ PlainInv
        BY DEF AccountInv, PlainLoadInv
      <3>2. (\A b \in Blocks : ~blk'[b].zip) /\ wpc' # "unzipping"
        BY <3>1, NeverZipped
      <3>3. 10 * Load' < Limit'
        BY <3>1, LoadStep
      <3> QED
        BY <3>2, <3>3 DEF PlainInv
    <2> QED
      BY <2>1, <2>2, <2>3, <2>4 DEF AccountInv, PlainLoadInv, DiskMax
  <1>3. I => PlainMemoryBounded
    BY BoundFromLoad DEF AccountInv, PlainLoadInv, PlainMemoryBounded
  <1> QED
    BY <1>1, <1>2, <1>3, PTL DEF Spec
=============================================================================
