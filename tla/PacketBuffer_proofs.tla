------------------------- MODULE PacketBuffer_proofs -------------------------
(* Proofs about PacketBuffer for every number of producers, blocks and files: who owns a
   block, where it is spilled, and what the spill files occupy. *)
EXTENDS PacketBuffer, FunctionTheorems, FiniteSetTheorems, SequenceTheorems, TLAPS

-----------------------------------------------------------------------------
(* The invariants *)

\* Each producer that is in push has a block of its own.
ProducersOwn ==
    /\ \A p \in Producers : /\ ppc[p] = "idle" <=> pblk[p] = NoBlock
                            /\ ppc[p] # "idle" => /\ blk[pblk[p]].place = "producer"
                                                  /\ p \in setup.producers
    /\ \A p, q \in Producers : pblk[p] = pblk[q] /\ pblk[p] # NoBlock => p = q
    /\ \A b \in Blocks : blk[b].place = "producer" => \E p \in Producers : pblk[p] = b

\* The sequence s lists the blocks that the objects B have in a place, each of them once.
Lists(B, s, place) ==
    /\ \A i \in DOMAIN s : B[s[i]].place = place
    /\ \A i, j \in DOMAIN s : s[i] = s[j] => i = j
    /\ \A b \in Blocks : B[b].place = place => \E i \in DOMAIN s : s[i] = b

Working == {"wait", "count", "unzip", "unzipping", "hand"}

\* The write thread has the one block in its place, or has just put it at the end of the
\* trash.
WriterOwns ==
    /\ \A b \in Blocks : blk[b].place = "writer" => wblk = b /\ wpc \in Working
    /\ wpc \in Working => wblk # NoBlock /\ blk[wblk].place = "writer"
    /\ wpc \in {"leave", "account"} => trash # <<>> /\ trash[Len(trash)] = wblk

\* A block that does not exist is Unborn, only processed blocks are locked, and the block
\* in work for no more packets than were handed on.
LocksHeld ==
    \A b \in Blocks :
        /\ blk[b].place = "none" => blk[b] = Unborn
        /\ blk[b].locks # 0 => blk[b].place = "trash" \/ (b = wblk /\ wpc = "hand")
        /\ b = wblk /\ wpc = "hand" => blk[b].locks <= handed

OwnInv ==
    /\ ProducersOwn
    /\ Lists(blk, queueStore, "queue")
    /\ Lists(blk, trash, "trash")
    /\ WriterOwns
    /\ LocksHeld

-----------------------------------------------------------------------------
(* Facts about the operators *)

\* The assumptions on the constants.
LEMMA Constants ==
    /\ IsFiniteSet(Producers)
    /\ MaxBlocks \in Nat \ {0} /\ ZipSize \in Nat \ {0} /\ RawSize \in Nat \ {0}
    /\ Packets \in Nat \ {0} /\ FileMax \in Nat \ {0} /\ FileIdMax \in Nat \ {0}
    /\ CleanupEvery \in Nat \ {0} /\ DestroyMin \in Nat \ {0, 1} /\ ZipSize <= RawSize
    /\ NoBlock \notin Blocks
  BY SizeAssumption DEF NoBlock, Blocks

\* The fields of a setup.
LEMMA SetupType ==
    ASSUME NEW s \in Setups
    PROVE  /\ s.producers \subseteq Producers /\ s.blocks \in 1 .. MaxBlocks
           /\ s.memMax \in Nat /\ s.diskMax \in Nat /\ s.compress \in BOOLEAN
           /\ s.destroyThread \in BOOLEAN /\ s.trashKeep \in Nat
           /\ s.writeFaults \in BOOLEAN /\ s.readFaults \in BOOLEAN
           /\ s.destroyThread => s.trashKeep > 0
  BY SetupAssumption, KeepAssumption

\* A set of numbers that is not empty has a least element.
LEMMA MinProperties ==
    ASSUME NEW S \in SUBSET Nat, S # {}
    PROVE  Min(S) \in S /\ \A y \in S : Min(S) <= y
  <1>1. \E x \in S : \A y \in S : ~(<<y, x>> \in OpToRel(<, Nat))
    BY NatLessThanWellFounded, WFMin
  <1>2. \A x, y \in Nat : <<y, x>> \in OpToRel(<, Nat) <=> y < x
    BY DEF OpToRel
  <1>3. \A x, y \in S : <<y, x>> \in OpToRel(<, Nat) <=> y < x
    BY <1>2
  <1>4. \E x \in S : \A y \in S : ~(y < x)
    BY <1>1, <1>3
  <1>5. \A x, y \in S : ~(y < x) => x <= y
    OBVIOUS
  <1>6. \E x \in S : \A y \in S : x <= y
    BY <1>4, <1>5
  <1> QED
    BY <1>6 DEF Min

\* FindFile gives the place of a file with this number, or 0 when there is none.
LEMMA FindFileProperties ==
    ASSUME fileStore \in Seq(File), NEW id
    PROVE  \/ /\ FindFile(id) = 0
              /\ \A i \in DOMAIN fileStore : fileStore[i].id # id
           \/ /\ FindFile(id) \in DOMAIN fileStore /\ FindFile(id) # 0
              /\ fileStore[FindFile(id)].id = id
  <1> DEFINE I == {i \in 1 .. Len(fileStore) : fileStore[i].id = id}
  <1>1. FindFile(id) = IF I # {} THEN Min(I) ELSE 0
    BY DEF FindFile, SelectInSeq
  <1>2. I \in SUBSET Nat
    OBVIOUS
  <1>3. I # {} => Min(I) \in I
    BY <1>2, MinProperties
  <1>4. DOMAIN fileStore = 1 .. Len(fileStore)
    OBVIOUS
  <1> QED
    BY <1>1, <1>3, <1>4

\* cleanupFileStore drops k leading files, each of them full and read to the end.
LEMMA CleanedProperties ==
    ASSUME NEW files \in Seq(File)
    PROVE  \E k \in 0 .. Len(files) :
             /\ Cleaned(files) \in Seq(File)
             /\ Len(Cleaned(files)) = Len(files) - k
             /\ \A i \in 1 .. Len(files) - k : Cleaned(files)[i] = files[i + k]
             /\ \A i \in 1 .. k : files[i].full /\ files[i].push = files[i].pop
  <1> DEFINE I == {i \in 1 .. Len(files) : ~(files[i].full /\ files[i].push = files[i].pop)}
             keep == IF I # {} THEN Min(I) ELSE 0
  <1>1. Cleaned(files) = IF keep = 0 THEN <<>> ELSE SubSeq(files, keep, Len(files))
    BY DEF Cleaned, SelectInSeq
  <1>2. I \in SUBSET Nat /\ Len(files) \in Nat
    OBVIOUS
  <1>3. I # {} => Min(I) \in I /\ \A y \in I : Min(I) <= y
    BY <1>2, MinProperties
  <1>4. CASE I = {}
    <2>1. Cleaned(files) = <<>> /\ Len(files) \in 0 .. Len(files)
      BY <1>1, <1>2, <1>4
    <2>2. \A i \in 1 .. Len(files) : files[i].full /\ files[i].push = files[i].pop
      BY <1>4
    <2>3. /\ <<>> \in Seq(File) /\ Len(<<>>) = 0
          /\ \A i \in 1 .. Len(files) - Len(files) : <<>>[i] = files[i + Len(files)]
      BY <1>2
    <2> QED
      BY <1>2, <2>1, <2>2, <2>3
  <1>5. CASE I # {}
    <2> DEFINE k == Min(I) - 1
    <2>1. keep = Min(I)
      BY <1>5
    <2>2. \A i \in 1 .. Len(files) : i \notin I => files[i].full /\ files[i].push = files[i].pop
      OBVIOUS
    <2>3. Min(I) \in 1 .. Len(files)
      BY <1>3, <1>5
    <2> HIDE DEF keep, I
    <2>4. /\ k \in 0 .. Len(files) /\ k + 1 = Min(I) /\ k + 1 <= Len(files) /\ Min(I) # 0
          /\ \A i \in 1 .. k : i \in 1 .. Len(files) /\ i < Min(I)
      BY <1>2, <2>3
    <2>5. \A i \in 1 .. k : i \notin I
      BY <1>2, <1>3, <1>5, <2>3, <2>4
    <2>6. Cleaned(files) = SubSeq(files, k + 1, Len(files))
      BY <1>1, <2>1, <2>4
    <2> HIDE DEF k
    <2>7. \A i \in 1 .. Len(files) : files[i] \in File
      OBVIOUS
    <2>8. /\ SubSeq(files, k + 1, Len(files)) \in Seq(File)
          /\ Len(SubSeq(files, k + 1, Len(files))) =
                IF k + 1 <= Len(files) THEN Len(files) - (k + 1) + 1 ELSE 0
          /\ \A i \in 1 .. Len(files) - (k + 1) + 1 :
                SubSeq(files, k + 1, Len(files))[i] = files[(k + 1) + i - 1]
      BY <1>2, <2>4, <2>7, SubSeqProperties
    <2>9. /\ Len(Cleaned(files)) = Len(files) - k
          /\ \A i \in 1 .. Len(files) - k : Cleaned(files)[i] = files[i + k]
      BY <1>2, <2>4, <2>6, <2>8
    <2>10. \A i \in 1 .. k : files[i].full /\ files[i].push = files[i].pop
      BY <2>2, <2>4, <2>5
    <2> QED
      BY <2>4, <2>6, <2>8, <2>9, <2>10
  <1> QED
    BY <1>4, <1>5

\* The indices that are left, in ascending order, are all of them, each once.
LEMMA AscendingProperties ==
    ASSUME NEW S, NEW s \in Seq(S), NEW R, R \subseteq DOMAIN s, NEW f \in Ascending(R),
           NEW n, n = Cardinality(R), NEW t, t = [j \in DOMAIN f |-> s[f[j]]]
    PROVE  /\ n \in Nat /\ DOMAIN f = 1 .. n /\ IsFiniteSet(R)
           /\ t \in Seq(S) /\ Len(t) = n
           /\ \A j \in 1 .. n : f[j] \in R
           /\ \A i, j \in 1 .. n : f[i] = f[j] => i = j
           /\ \A i \in R : \E j \in 1 .. n : f[j] = i
           /\ Len(s) \in R => n > 0 /\ f[n] = Len(s)
  <1>1. DOMAIN s = 1 .. Len(s) /\ Len(s) \in Nat
    OBVIOUS
  <1>2. IsFiniteSet(R) /\ n \in Nat
    <2>1. IsFiniteSet(1 .. Len(s))
      BY <1>1, FS_Interval
    <2>2. IsFiniteSet(R)
      BY <1>1, <2>1, FS_Subset
    <2> QED
      BY <2>2, FS_CardinalityType
  <1>3. f \in [1 .. n -> R] /\ \A i, j \in 1 .. n : i < j => f[i] < f[j]
    BY DEF Ascending
  <1>4. \A j \in 1 .. n : f[j] \in R /\ f[j] \in 1 .. Len(s)
    BY <1>1, <1>3
  <1>5. \A i, j \in 1 .. n : f[i] = f[j] => i = j
    <2> SUFFICES ASSUME NEW i \in 1 .. n, NEW j \in 1 .. n, f[i] = f[j] PROVE i = j
      OBVIOUS
    <2>1. ~(i < j) /\ ~(j < i)
      BY <1>1, <1>3, <1>4
    <2> QED
      BY <1>2, <2>1
  <1>6. \A i \in R : \E j \in 1 .. n : f[j] = i
    <2>1. f \in Injection(1 .. n, R)
      BY <1>3, <1>5, Fun_IsInj
    <2>2. Cardinality(1 .. n) = n
      BY <1>2, FS_Interval
    <2>3. f \in Surjection(1 .. n, R)
      BY <1>2, <2>1, <2>2, FS_Injection
    <2> QED
      BY <2>3 DEF Surjection
  <1>7. DOMAIN f = 1 .. n
    BY <1>3
  <1>8. t \in Seq(S) /\ Len(t) = n
    <2>1. \A j \in 1 .. n : s[f[j]] \in S
      BY <1>4
    <2> QED
      BY <1>2, <1>7, <2>1
  <1>9. ASSUME Len(s) \in R PROVE n > 0 /\ f[n] = Len(s)
    <2>1. PICK j \in 1 .. n : f[j] = Len(s)
      BY <1>6, <1>9
    <2>2. n \in 1 .. n
      BY <1>2
    <2>3. ~(j < n)
      BY <1>1, <1>3, <1>4, <2>1, <2>2
    <2> QED
      BY <1>2, <2>1, <2>3
  <1> QED
    BY <1>2, <1>4, <1>5, <1>6, <1>7, <1>8, <1>9

-----------------------------------------------------------------------------
(* Updates of blocks and files *)

\* The fields of a block.
LEMMA BlockFields ==
    ASSUME NEW r \in BlockStore
    PROVE  /\ r.place \in Places /\ r.inMem \in BOOLEAN /\ r.file \in 0 .. FileIdMax
           /\ r.zip \in BOOLEAN /\ r.locks \in 0 .. Packets
           /\ r = [place |-> r.place, inMem |-> r.inMem, file |-> r.file, zip |-> r.zip,
                   locks |-> r.locks]
  BY DEF BlockStore

\* A record of such fields is a block.
LEMMA BlockRebuilt ==
    ASSUME NEW x \in Places, NEW m \in BOOLEAN, NEW f \in 0 .. FileIdMax, NEW z \in BOOLEAN,
           NEW l \in 0 .. Packets
    PROVE  [place |-> x, inMem |-> m, file |-> f, zip |-> z, locks |-> l] \in BlockStore
  BY DEF BlockStore

\* Moving a block changes nothing else of it.
LEMMA SetPlace ==
    ASSUME NEW r \in BlockStore, NEW x \in Places, NEW t,
           t = [r EXCEPT !.place = x]
    PROVE  /\ t \in BlockStore /\ t.place = x /\ t.inMem = r.inMem /\ t.file = r.file
           /\ t.zip = r.zip /\ t.locks = r.locks
  <1>1. t \in BlockStore
    BY DEF BlockStore
  <1>2. /\ t.place = x /\ t.inMem = r.inMem /\ t.file = r.file
        /\ t.zip = r.zip /\ t.locks = r.locks
    BY DEF BlockStore
  <1> QED
    BY <1>1, <1>2

\* Loading or dropping the packets of a block changes nothing else of it.
LEMMA SetInMem ==
    ASSUME NEW r \in BlockStore, NEW m \in BOOLEAN, NEW t,
           t = [r EXCEPT !.inMem = m]
    PROVE  /\ t \in BlockStore /\ t.place = r.place /\ t.inMem = m /\ t.file = r.file
           /\ t.zip = r.zip /\ t.locks = r.locks
  <1>1. t \in BlockStore
    BY DEF BlockStore
  <1>2. /\ t.place = r.place /\ t.inMem = m /\ t.file = r.file
        /\ t.zip = r.zip /\ t.locks = r.locks
    BY DEF BlockStore
  <1> QED
    BY <1>1, <1>2

\* Decompressing a block changes nothing else of it.
LEMMA SetZip ==
    ASSUME NEW r \in BlockStore, NEW z \in BOOLEAN, NEW t,
           t = [r EXCEPT !.zip = z]
    PROVE  /\ t \in BlockStore /\ t.place = r.place /\ t.inMem = r.inMem /\ t.file = r.file
           /\ t.zip = z /\ t.locks = r.locks
  <1>1. t \in BlockStore
    BY DEF BlockStore
  <1>2. /\ t.place = r.place /\ t.inMem = r.inMem /\ t.file = r.file
        /\ t.zip = z /\ t.locks = r.locks
    BY DEF BlockStore
  <1> QED
    BY <1>1, <1>2

\* Locking or unlocking packets changes nothing else of the block.
LEMMA SetLocks ==
    ASSUME NEW r \in BlockStore, NEW l \in 0 .. Packets, NEW t,
           t = [r EXCEPT !.locks = l]
    PROVE  /\ t \in BlockStore /\ t.place = r.place /\ t.inMem = r.inMem /\ t.file = r.file
           /\ t.zip = r.zip /\ t.locks = l
  <1>1. t \in BlockStore
    BY DEF BlockStore
  <1>2. /\ t.place = r.place /\ t.inMem = r.inMem /\ t.file = r.file
        /\ t.zip = r.zip /\ t.locks = l
    BY DEF BlockStore
  <1> QED
    BY <1>1, <1>2

\* The block that does not exist yet.
LEMMA UnbornType ==
    /\ Unborn \in BlockStore /\ Unborn.place = "none" /\ Unborn.inMem = FALSE
    /\ Unborn.file = 0 /\ Unborn.zip = FALSE /\ Unborn.locks = 0
  <1>1. "none" \in Places /\ 0 \in 0 .. FileIdMax /\ 0 \in 0 .. Packets
    BY Constants DEF Places
  <1> QED
    BY <1>1, BlockRebuilt DEF Unborn

\* Block b becomes t and the others stay as they are.
Becomes(b, t) ==
    /\ b \in Blocks /\ t \in BlockStore
    /\ blk' \in [Blocks -> BlockStore]
    /\ blk'[b] = t
    /\ \A c \in Blocks : c # b => blk'[c] = blk[c]

\* An update of one block leaves the others as they are.
LEMMA OneBlock ==
    ASSUME blk \in [Blocks -> BlockStore], NEW b \in Blocks, NEW t \in BlockStore,
           blk' = [blk EXCEPT ![b] = t]
    PROVE  Becomes(b, t)
  BY DEF Becomes

\* A block changes its place.
LEMMA PlaceChanges ==
    ASSUME blk \in [Blocks -> BlockStore], NEW b \in Blocks, NEW v \in Places,
           blk' = [blk EXCEPT ![b].place = v]
    PROVE  /\ Becomes(b, blk'[b])
           /\ blk'[b].place = v /\ blk'[b].inMem = blk[b].inMem /\ blk'[b].file = blk[b].file
           /\ blk'[b].zip = blk[b].zip /\ blk'[b].locks = blk[b].locks
  <1>1. PICK t : t = [blk[b] EXCEPT !.place = v]
    OBVIOUS
  <1>2. blk[b] \in BlockStore
    OBVIOUS
  <1>3. /\ t \in BlockStore /\ t.place = v /\ t.inMem = blk[b].inMem /\ t.file = blk[b].file
        /\ t.zip = blk[b].zip /\ t.locks = blk[b].locks
    BY <1>1, <1>2, SetPlace
  <1>4. blk' = [blk EXCEPT ![b] = t]
    BY <1>1
  <1>5. Becomes(b, t) /\ blk'[b] = t
    BY <1>3, <1>4, OneBlock DEF Becomes
  <1> QED
    BY <1>3, <1>5

\* A block is read back.
LEMMA InMemChanges ==
    ASSUME blk \in [Blocks -> BlockStore], NEW b \in Blocks, NEW v \in BOOLEAN,
           blk' = [blk EXCEPT ![b].inMem = v]
    PROVE  /\ Becomes(b, blk'[b])
           /\ blk'[b].place = blk[b].place /\ blk'[b].inMem = v /\ blk'[b].file = blk[b].file
           /\ blk'[b].zip = blk[b].zip /\ blk'[b].locks = blk[b].locks
  <1>1. PICK t : t = [blk[b] EXCEPT !.inMem = v]
    OBVIOUS
  <1>2. blk[b] \in BlockStore
    OBVIOUS
  <1>3. /\ t \in BlockStore /\ t.place = blk[b].place /\ t.inMem = v /\ t.file = blk[b].file
        /\ t.zip = blk[b].zip /\ t.locks = blk[b].locks
    BY <1>1, <1>2, SetInMem
  <1>4. blk' = [blk EXCEPT ![b] = t]
    BY <1>1
  <1>5. Becomes(b, t) /\ blk'[b] = t
    BY <1>3, <1>4, OneBlock DEF Becomes
  <1> QED
    BY <1>3, <1>5

\* A block is uncompressed.
LEMMA ZipChanges ==
    ASSUME blk \in [Blocks -> BlockStore], NEW b \in Blocks, NEW v \in BOOLEAN,
           blk' = [blk EXCEPT ![b].zip = v]
    PROVE  /\ Becomes(b, blk'[b])
           /\ blk'[b].place = blk[b].place /\ blk'[b].inMem = blk[b].inMem /\ blk'[b].file = blk[b].file
           /\ blk'[b].zip = v /\ blk'[b].locks = blk[b].locks
  <1>1. PICK t : t = [blk[b] EXCEPT !.zip = v]
    OBVIOUS
  <1>2. blk[b] \in BlockStore
    OBVIOUS
  <1>3. /\ t \in BlockStore /\ t.place = blk[b].place /\ t.inMem = blk[b].inMem /\ t.file = blk[b].file
        /\ t.zip = v /\ t.locks = blk[b].locks
    BY <1>1, <1>2, SetZip
  <1>4. blk' = [blk EXCEPT ![b] = t]
    BY <1>1
  <1>5. Becomes(b, t) /\ blk'[b] = t
    BY <1>3, <1>4, OneBlock DEF Becomes
  <1> QED
    BY <1>3, <1>5

\* A block is locked for one packet more or less.
LEMMA LocksChanges ==
    ASSUME blk \in [Blocks -> BlockStore], NEW b \in Blocks, NEW v \in 0 .. Packets,
           blk' = [blk EXCEPT ![b].locks = v]
    PROVE  /\ Becomes(b, blk'[b])
           /\ blk'[b].place = blk[b].place /\ blk'[b].inMem = blk[b].inMem /\ blk'[b].file = blk[b].file
           /\ blk'[b].zip = blk[b].zip /\ blk'[b].locks = v
  <1>1. PICK t : t = [blk[b] EXCEPT !.locks = v]
    OBVIOUS
  <1>2. blk[b] \in BlockStore
    OBVIOUS
  <1>3. /\ t \in BlockStore /\ t.place = blk[b].place /\ t.inMem = blk[b].inMem /\ t.file = blk[b].file
        /\ t.zip = blk[b].zip /\ t.locks = v
    BY <1>1, <1>2, SetLocks
  <1>4. blk' = [blk EXCEPT ![b] = t]
    BY <1>1
  <1>5. Becomes(b, t) /\ blk'[b] = t
    BY <1>3, <1>4, OneBlock DEF Becomes
  <1> QED
    BY <1>3, <1>5

\* File g is file f after some time: the same blocks were stored in it and read back.
SameFile(f, g) ==
    /\ f.id = g.id /\ f.size = g.size /\ f.push = g.push /\ f.pop = g.pop
    /\ f.full => g.full
    /\ g.full => f.full \/ f.size > 0

\* The files fs are the files es after isFull was asked of some of them.
SameFiles(es, fs) ==
    /\ fs \in Seq(File) /\ Len(fs) = Len(es)
    /\ \A i \in 1 .. Len(es) : SameFile(es[i], fs[i])

\* The fields of a spill file.
LEMMA FileFields ==
    ASSUME NEW f \in File
    PROVE  /\ f.id \in 1 .. FileIdMax /\ f.size \in Nat /\ f.push \in Nat /\ f.pop \in Nat
           /\ f.full \in BOOLEAN
  BY DEF File

\* Marking a file as full keeps its number and its counts.
LEMMA SetFull ==
    ASSUME NEW f \in File, NEW b \in BOOLEAN, NEW g, g = [f EXCEPT !.full = b], f.full => b,
           b => f.full \/ f.size > 0
    PROVE  g \in File /\ SameFile(f, g)
  <1>1. g \in File
    BY DEF File
  <1>2. f.id = g.id /\ f.size = g.size /\ f.push = g.push /\ f.pop = g.pop /\ g.full = b
    BY DEF File
  <1> QED
    BY <1>1, <1>2 DEF SameFile

\* Counting a block read from a file changes nothing else of it.
LEMMA SetPop ==
    ASSUME NEW f \in File, NEW k \in Nat, NEW g, g = [f EXCEPT !.pop = k]
    PROVE  /\ g \in File /\ g.id = f.id /\ g.size = f.size /\ g.push = f.push /\ g.pop = k
           /\ g.full = f.full
  <1>1. g \in File
    BY DEF File
  <1>2. g.id = f.id /\ g.size = f.size /\ g.push = f.push /\ g.pop = k /\ g.full = f.full
    BY DEF File
  <1> QED
    BY <1>1, <1>2

\* Asking a file whether it is full keeps its number and its counts.
LEMMA AfterIsFullProperties ==
    ASSUME NEW f \in File, NEW force \in BOOLEAN, NEW late \in BOOLEAN
    PROVE  AfterIsFull(f, force, late) \in File /\ SameFile(f, AfterIsFull(f, force, late))
  <1> DEFINE b == f.full \/ f.size >= FileMax \/ (f.size > 0 /\ (late \/ force))
  <1>1. b \in BOOLEAN /\ (f.full => b) /\ (b => f.full \/ f.size > 0)
    BY FileFields, Constants
  <1>2. AfterIsFull(f, force, late) = [f EXCEPT !.full = b]
    BY DEF AfterIsFull
  <1> HIDE DEF b
  <1> QED
    BY <1>1, <1>2, SetFull

\* Asking the last file keeps the files in their places.
LEMMA AskLastProperties ==
    ASSUME NEW files \in Seq(File), NEW force \in BOOLEAN, NEW late \in BOOLEAN
    PROVE  SameFiles(files, AskLast(files, force, late))
  <1>1. CASE files = <<>>
    BY <1>1 DEF AskLast, SameFiles
  <1>2. CASE files # <<>>
    <2> DEFINE n == Len(files)
               g == AfterIsFull(files[n], force, late)
    <2>1. n \in 1 .. Len(files)
      BY <1>2
    <2>2. g \in File /\ SameFile(files[n], g)
      BY <2>1, AfterIsFullProperties
    <2>3. AskLast(files, force, late) = [files EXCEPT ![n] = g]
      BY <1>2 DEF AskLast
    <2> HIDE DEF g, n
    <2>4. /\ [files EXCEPT ![n] = g] \in Seq(File)
          /\ Len([files EXCEPT ![n] = g]) = Len(files)
          /\ \A i \in 1 .. Len(files) : [files EXCEPT ![n] = g][i] = IF i = n THEN g ELSE files[i]
      BY <2>1, <2>2, ExceptSeq
    <2>5. \A i \in 1 .. Len(files) : SameFile(files[i], files[i])
      BY DEF SameFile
    <2> QED
      BY <2>2, <2>3, <2>4, <2>5 DEF SameFiles
  <1> QED
    BY <1>1, <1>2

\* The next number of a file is a number of a file.
LEMMA NextFileIdType ==
    ASSUME lastFileStoreId \in 0 .. FileIdMax
    PROVE  NextFileId \in 1 .. FileIdMax
  BY Constants DEF NextFileId

\* A new file is empty.
LEMMA NewFileType ==
    ASSUME NEW id \in 1 .. FileIdMax
    PROVE  /\ NewFile(id) \in File /\ NewFile(id).id = id
           /\ NewFile(id).size = 0 /\ NewFile(id).push = 0 /\ NewFile(id).pop = 0
           /\ NewFile(id).full = FALSE
  BY DEF NewFile, File

\* The files gs are the files fs with, when there was none that takes more, a new one.
Opened(fs, gs) ==
    /\ gs \in Seq(File) /\ gs # <<>>
    /\ \/ SameFiles(fs, gs) /\ lastFileStoreId' = lastFileStoreId
       \/ /\ Len(gs) = Len(fs) + 1
          /\ \A i \in 1 .. Len(fs) : SameFile(fs[i], gs[i])
          /\ Len(fs) > 0 => gs[Len(fs)].full
          /\ gs[Len(gs)].id = NextFileId /\ gs[Len(gs)].size = 0
          /\ gs[Len(gs)].push = 0 /\ gs[Len(gs)].pop = 0 /\ gs[Len(gs)].full = FALSE
          /\ lastFileStoreId' = NextFileId

\* The files hs are the files gs with a block more in the last.
StoredInLast(gs, hs) ==
    /\ hs \in Seq(File) /\ Len(hs) = Len(gs)
    /\ \A i \in 1 .. Len(gs) :
          IF i < Len(gs) THEN hs[i] = gs[i]
          ELSE /\ hs[i].id = gs[i].id /\ hs[i].push = gs[i].push + 1 /\ hs[i].pop = gs[i].pop
               /\ gs[i].size + ZipSize <= hs[i].size /\ hs[i].size <= gs[i].size + RawSize
               /\ hs[i].full = gs[i].full

\* What StoreToFile does: nothing when the disk is full, a new file when the write fails,
\* or the block p has is in the last file.
LEMMA StoreToFileStep ==
    ASSUME TypeOK, NEW p \in Producers, pblk[p] \in Blocks, NEW files \in Seq(File),
           StoreToFile(p, files)
    PROVE  \/ /\ fileStore' = files /\ ppc' = [ppc EXCEPT ![p] = "push"]
              /\ UNCHANGED <<blk, lastFileStoreId>>
           \/ \E open \in Seq(File) :
                 /\ Opened(files, open) /\ ~DiskIsFull(files)
                 /\ \/ /\ fileStore' = open /\ ppc' = [ppc EXCEPT ![p] = "push"]
                       /\ UNCHANGED blk
                    \/ /\ StoredInLast(open, fileStore')
                       /\ ppc' = [ppc EXCEPT ![p] = "enqueue"]
                       /\ Becomes(pblk[p], blk'[pblk[p]])
                       /\ blk'[pblk[p]].place = blk[pblk[p]].place
                       /\ blk'[pblk[p]].inMem = FALSE
                       /\ blk'[pblk[p]].file = open[Len(open)].id
                       /\ blk'[pblk[p]].zip = blk[pblk[p]].zip
                       /\ blk'[pblk[p]].locks = blk[pblk[p]].locks
  <1>1. CASE DiskIsFull(files)
    BY <1>1 DEF StoreToFile
  <1>2. CASE ~DiskIsFull(files)
    <2> DEFINE asked(late) == AskLast(files, FALSE, late)
               fresh(late) == asked(late) = <<>> \/ Last(asked(late)).full
               opened(late) == IF fresh(late) THEN Append(asked(late), NewFile(NextFileId))
                               ELSE asked(late)
               b == pblk[p]
    <2>1. PICK late \in BOOLEAN, written \in {TRUE, ~setup.writeFaults} :
             /\ lastFileStoreId' = IF fresh(late) THEN NextFileId ELSE lastFileStoreId
             /\ IF written
                THEN /\ fileStore' = [opened(late) EXCEPT
                                        ![Len(opened(late))].size = @ + SizeOf(b),
                                        ![Len(opened(late))].push = @ + 1]
                     /\ blk' = [blk EXCEPT ![b].inMem = FALSE, ![b].file = Last(opened(late)).id]
                     /\ ppc' = [ppc EXCEPT ![p] = "enqueue"]
                ELSE /\ fileStore' = opened(late)
                     /\ ppc' = [ppc EXCEPT ![p] = "push"]
                     /\ UNCHANGED blk
      BY <1>2 DEF StoreToFile
    <2> DEFINE open == opened(late)
               n == Len(open)
    <2>2. SameFiles(files, asked(late)) /\ asked(late) \in Seq(File)
      BY AskLastProperties DEF SameFiles
    <2>3. NextFileId \in 1 .. FileIdMax /\ NewFile(NextFileId) \in File
      BY NextFileIdType, NewFileType DEF TypeOK
    <2>4. Opened(files, open)
      <3> DEFINE a == asked(late)
      <3>0. a \in Seq(File) /\ SameFiles(files, a)
        BY <2>2
      <3> HIDE DEF a
      <3>1. a \in Seq(File) /\ SameFiles(files, a) /\ Len(a) = Len(files) /\ Len(files) \in Nat
        BY <3>0 DEF SameFiles
      <3>2. CASE fresh(late)
        <4>1. a = <<>> \/ a[Len(a)].full
          BY <3>2 DEF a, Last
        <4>2. open = Append(a, NewFile(NextFileId)) /\ lastFileStoreId' = NextFileId
          BY <2>1, <3>2 DEF a
        <4> HIDE DEF open
        <4>3. /\ open \in Seq(File) /\ Len(open) = Len(a) + 1
              /\ \A i \in 1 .. Len(a) : open[i] = a[i]
              /\ open[Len(a) + 1] = NewFile(NextFileId)
          BY <2>3, <3>1, <4>2, AppendProperties
        <4>4. open # <<>>
          BY <3>1, <4>3
        <4>5. Len(files) > 0 => open[Len(files)].full
          BY <3>1, <4>1, <4>3
        <4>6. \A i \in 1 .. Len(files) : SameFile(files[i], open[i])
          BY <3>1, <4>3 DEF SameFiles
        <4>7. PICK f : f = NewFile(NextFileId)
          OBVIOUS
        <4>8. f.id = NextFileId /\ f.size = 0 /\ f.push = 0 /\ f.pop = 0 /\ f.full = FALSE
          BY <2>3, <4>7, NewFileType
        <4>9. open[Len(open)] = f
          BY <3>1, <4>3, <4>7
        <4>10. /\ open[Len(open)].id = NextFileId /\ open[Len(open)].size = 0
               /\ open[Len(open)].push = 0 /\ open[Len(open)].pop = 0
               /\ open[Len(open)].full = FALSE
          BY <4>8, <4>9
        <4> QED
          BY <3>1, <4>2, <4>3, <4>4, <4>5, <4>6, <4>10 DEF Opened
      <3>3. CASE ~fresh(late)
        <4>1. open = a /\ a # <<>> /\ lastFileStoreId' = lastFileStoreId
          BY <2>1, <3>3 DEF a
        <4> HIDE DEF open
        <4> QED
          BY <3>1, <4>1 DEF Opened
      <3> QED
        BY <3>2, <3>3
    <2>5. open \in Seq(File) /\ open # <<>> /\ n \in 1 .. Len(open) /\ open[n] \in File
      <3>1. open \in Seq(File) /\ open # <<>>
        BY <2>4 DEF Opened
      <3> HIDE DEF open
      <3> QED
        BY <3>1
    <2>6. CASE ~written
      BY <1>2, <2>1, <2>4, <2>5, <2>6
    <2>7. CASE written
      <3>1. /\ fileStore' = [open EXCEPT ![n].size = @ + SizeOf(b), ![n].push = @ + 1]
            /\ blk' = [blk EXCEPT ![b].inMem = FALSE, ![b].file = open[n].id]
            /\ ppc' = [ppc EXCEPT ![p] = "enqueue"]
        BY <2>1, <2>7 DEF Last
      <3> HIDE DEF open
      <3> DEFINE size == open[n].size + SizeOf(b)
                 push == open[n].push + 1
                 out == FALSE
                 id == open[n].id
                 g == [open[n] EXCEPT !.size = size, !.push = push]
                 t == [blk[b] EXCEPT !.inMem = out, !.file = id]
      <3>2. fileStore' = [open EXCEPT ![n] = g]
        BY <2>5, <3>1
      <3>3. blk' = [blk EXCEPT ![b] = t]
        BY <3>1 DEF TypeOK
      <3>4. size \in Nat /\ push \in Nat
        <4>1. SizeOf(b) \in Nat
          BY Constants DEF SizeOf
        <4>2. open[n].size \in Nat /\ open[n].push \in Nat
          BY <2>5, FileFields
        <4> QED
          BY <4>1, <4>2
      <3>5. /\ g \in File /\ g.id = open[n].id /\ g.push = open[n].push + 1
            /\ g.pop = open[n].pop /\ g.size = size /\ g.full = open[n].full
        <4> HIDE DEF size, push, n
        <4>1. PICK f \in File : f = open[n]
          BY <2>5
        <4>2. PICK h : h = [f EXCEPT !.size = size, !.push = push]
          OBVIOUS
        <4>3. h \in File /\ h.id = f.id /\ h.push = push /\ h.pop = f.pop /\ h.size = size
              /\ h.full = f.full
          BY <3>4, <4>2 DEF File
        <4>4. g = h
          BY <4>1, <4>2
        <4> HIDE DEF g
        <4> QED
          BY <4>1, <4>3, <4>4 DEF push
      <3>6. StoredInLast(open, fileStore')
        <4> HIDE DEF g
        <4>1. /\ fileStore' \in Seq(File) /\ Len(fileStore') = Len(open)
              /\ \A i \in 1 .. Len(open) : fileStore'[i] = IF i = n THEN g ELSE open[i]
          BY <2>5, <3>2, <3>5, ExceptSeq
        <4>2. \A i \in 1 .. Len(open) : i = n <=> ~(i < Len(open))
          BY <2>5
        <4>3. open[n].size + ZipSize <= g.size /\ g.size <= open[n].size + RawSize
          <5>1. /\ open[n].size \in Nat /\ SizeOf(b) \in Nat /\ RawSize \in Nat
                /\ SizeOf(b) <= RawSize /\ ZipSize <= SizeOf(b) /\ ZipSize \in Nat
            BY <2>5, FileFields, Constants DEF SizeOf
          <5>2. g.size = open[n].size + SizeOf(b)
            BY <3>5 DEF size
          <5> HIDE DEF size
          <5> QED
            BY <5>1, <5>2
        <4> QED
          BY <3>5, <4>1, <4>2, <4>3 DEF StoredInLast
      <3>7. blk[b] \in BlockStore /\ id \in 0 .. FileIdMax /\ out \in BOOLEAN
        BY <2>5, FileFields, Constants DEF TypeOK
      <3>8. /\ t \in BlockStore /\ t.place = blk[b].place /\ t.inMem = FALSE
            /\ t.file = open[n].id /\ t.zip = blk[b].zip /\ t.locks = blk[b].locks
        <4> HIDE DEF n, b, out, id
        <4>1. PICK r \in BlockStore : r = blk[b]
          BY <3>7
        <4>2. PICK u : u = [r EXCEPT !.inMem = out, !.file = id]
          OBVIOUS
        <4>3. /\ u \in BlockStore /\ u.place = r.place /\ u.inMem = out
              /\ u.file = id /\ u.zip = r.zip /\ u.locks = r.locks
          BY <3>7, <4>2 DEF BlockStore
        <4>4. t = u
          BY <4>1, <4>2
        <4> HIDE DEF t
        <4> QED
          BY <4>1, <4>3, <4>4 DEF out, id
      <3>9. Becomes(b, t) /\ blk'[b] = t
        BY <3>3, <3>8, OneBlock DEF TypeOK, Becomes
      <3> HIDE DEF t
      <3> QED
        BY <1>2, <2>4, <2>5, <3>1, <3>6, <3>8, <3>9
    <2> QED
      BY <2>6, <2>7
  <1> QED
    BY <1>1, <1>2

-----------------------------------------------------------------------------
(* The deques of blocks *)

\* A deque lists its blocks as long as none comes to its place or leaves it.
LEMMA ListsKeep ==
    ASSUME NEW B, NEW C, NEW s \in Seq(Blocks), NEW x, Lists(B, s, x),
           \A c \in Blocks : C[c].place = x <=> B[c].place = x
    PROVE  Lists(C, s, x)
  <1>1. \A i \in DOMAIN s : s[i] \in Blocks
    OBVIOUS
  <1> QED
    BY <1>1 DEF Lists

\* push_back
LEMMA ListsAppend ==
    ASSUME NEW B, NEW C, NEW s \in Seq(Blocks), NEW x, NEW b \in Blocks, Lists(B, s, x),
           B[b].place # x, C[b].place = x,
           \A c \in Blocks : c # b => (C[c].place = x <=> B[c].place = x)
    PROVE  Append(s, b) \in Seq(Blocks) /\ Lists(C, Append(s, b), x)
  <1> DEFINE t == Append(s, b)
  <1>1. /\ t \in Seq(Blocks) /\ Len(t) = Len(s) + 1 /\ Len(s) \in Nat
        /\ DOMAIN t = 1 .. Len(s) + 1 /\ DOMAIN s = 1 .. Len(s)
        /\ \A i \in DOMAIN s : t[i] = s[i] /\ s[i] \in Blocks /\ s[i] # b /\ i \in DOMAIN t
        /\ t[Len(s) + 1] = b
    BY DEF Lists
  <1>2. \A i \in DOMAIN t : i \in DOMAIN s \/ i = Len(s) + 1
    BY <1>1
  <1>3. Len(s) + 1 \in DOMAIN t
    BY <1>1
  <1> HIDE DEF t
  <1>4. \A i \in DOMAIN t : C[t[i]].place = x
    BY <1>1, <1>2 DEF Lists
  <1>5. \A i, j \in DOMAIN t : t[i] = t[j] => i = j
    BY <1>1, <1>2 DEF Lists
  <1>6. \A c \in Blocks : C[c].place = x => \E i \in DOMAIN t : t[i] = c
    BY <1>1, <1>3 DEF Lists
  <1>7. t \in Seq(Blocks) /\ Lists(C, t, x)
    BY <1>1, <1>4, <1>5, <1>6 DEF Lists
  <1> QED
    BY <1>7 DEF t

\* Block h leaves a place and the others do not.
Leaves(B, C, h, x) ==
    /\ h \in Blocks /\ C[h].place # x
    /\ \A c \in Blocks : c # h => (C[c].place = x <=> B[c].place = x)

\* The deque s is block h followed by t.
FrontAndRest(s, h, t) ==
    /\ s \in Seq(Blocks) /\ s # <<>> /\ h = s[1]
    /\ t \in Seq(Blocks) /\ Len(t) = Len(s) - 1
    /\ \A i \in 1 .. Len(s) - 1 : t[i] = s[i + 1]

\* pop_front
LEMMA ListsTail ==
    ASSUME NEW B, NEW C, NEW s, NEW x, Lists(B, s, x), NEW h, Leaves(B, C, h, x),
           NEW t, FrontAndRest(s, h, t)
    PROVE  Lists(C, t, x)
  <1>0. /\ s \in Seq(Blocks) /\ s # <<>> /\ h = s[1]
        /\ t \in Seq(Blocks) /\ Len(t) = Len(s) - 1
        /\ \A i \in 1 .. Len(s) - 1 : t[i] = s[i + 1]
        /\ C[h].place # x
        /\ \A c \in Blocks : c # h => (C[c].place = x <=> B[c].place = x)
    BY DEF Leaves, FrontAndRest
  <1>1. /\ Len(s) \in Nat
        /\ DOMAIN t = 1 .. Len(s) - 1 /\ DOMAIN s = 1 .. Len(s) /\ 1 \in DOMAIN s
        /\ \A i \in DOMAIN t : t[i] = s[i + 1] /\ i + 1 \in DOMAIN s /\ i + 1 # 1
        /\ \A i \in DOMAIN s : s[i] \in Blocks
    BY <1>0
  <1>2. \A i \in DOMAIN s : i # 1 => i - 1 \in DOMAIN t /\ t[i - 1] = s[i]
    BY <1>1
  <1>3. \A i, j \in DOMAIN t : i + 1 = j + 1 => i = j
    BY <1>1
  <1>4. \A i \in DOMAIN t : t[i] # s[1] /\ C[t[i]].place = x
    BY <1>0, <1>1 DEF Lists
  <1>5. \A i, j \in DOMAIN t : t[i] = t[j] => i = j
    BY <1>1, <1>3 DEF Lists
  <1>6. ASSUME NEW c \in Blocks, C[c].place = x PROVE \E i \in DOMAIN t : t[i] = c
    <2>1. PICK i \in DOMAIN s : s[i] = c
      BY <1>0, <1>6 DEF Lists
    <2>2. i # 1
      BY <1>0, <1>1, <1>6, <2>1
    <2> QED
      BY <1>2, <2>1, <2>2
  <1> QED
    BY <1>0, <1>4, <1>5, <1>6 DEF Lists

\* The trash after some of its blocks were deleted.
LEMMA ListsPick ==
    ASSUME NEW B, NEW C, NEW s \in Seq(Blocks), NEW x, Lists(B, s, x), x # "none",
           NEW D \in SUBSET DOMAIN s, NEW f \in Ascending(DOMAIN s \ D),
           C = [b \in Blocks |-> IF \E i \in D : s[i] = b THEN Unborn ELSE B[b]]
    PROVE  Lists(C, [j \in DOMAIN f |-> s[f[j]]], x)
  <1> DEFINE t == [j \in DOMAIN f |-> s[f[j]]]
             n == Cardinality(DOMAIN s \ D)
  <1>1. /\ DOMAIN f = 1 .. n
        /\ \A j \in 1 .. n : f[j] \in DOMAIN s \ D
        /\ \A i, j \in 1 .. n : f[i] = f[j] => i = j
        /\ \A i \in DOMAIN s \ D : \E j \in 1 .. n : f[j] = i
    <2> DEFINE R == DOMAIN s \ D
    <2>1. /\ R \subseteq DOMAIN s /\ f \in Ascending(R) /\ n = Cardinality(R)
          /\ t = [j \in DOMAIN f |-> s[f[j]]]
      OBVIOUS
    <2> HIDE DEF R, n, t
    <2>2. /\ DOMAIN f = 1 .. n
          /\ \A j \in 1 .. n : f[j] \in R
          /\ \A i, j \in 1 .. n : f[i] = f[j] => i = j
          /\ \A i \in R : \E j \in 1 .. n : f[j] = i
      BY <2>1, AscendingProperties
    <2> QED
      BY <2>2 DEF R
  <1>2. \A i \in DOMAIN s : s[i] \in Blocks
    OBVIOUS
  <1> HIDE DEF n
  <1>3. DOMAIN t = 1 .. n /\ \A j \in 1 .. n : t[j] = s[f[j]]
    BY <1>1
  <1> HIDE DEF t
  <1>4. \A c \in Blocks : C[c].place = x <=> B[c].place = x /\ ~\E i \in D : s[i] = c
    BY UnbornType
  <1>5. \A j \in DOMAIN t : C[t[j]].place = x
    BY <1>1, <1>2, <1>3, <1>4 DEF Lists
  <1>6. \A i, j \in DOMAIN t : t[i] = t[j] => i = j
    BY <1>1, <1>3 DEF Lists
  <1>7. \A c \in Blocks : C[c].place = x => \E j \in DOMAIN t : t[j] = c
    BY <1>1, <1>3, <1>4 DEF Lists
  <1>8. Lists(C, t, x)
    BY <1>5, <1>6, <1>7 DEF Lists
  <1> QED
    BY <1>8 DEF t

-----------------------------------------------------------------------------
(* The producers: every step keeps the types and the ownership of blocks *)

\* Producers keep their blocks as long as none begins or ends a push.
LEMMA ProducersKeep ==
    ASSUME TypeOK, ProducersOwn, UNCHANGED <<pblk, setup>>,
           \A p \in Producers : ppc'[p] = "idle" <=> ppc[p] = "idle",
           \A c \in Blocks : blk'[c].place = "producer" <=> blk[c].place = "producer"
    PROVE  ProducersOwn'
  <1>1. \A p \in Producers : pblk[p] # NoBlock => pblk[p] \in Blocks
    BY DEF TypeOK
  <1>2. ASSUME NEW p \in Producers
        PROVE  /\ ppc'[p] = "idle" <=> pblk[p] = NoBlock
               /\ ppc'[p] # "idle" => /\ blk'[pblk[p]].place = "producer"
                                      /\ p \in setup.producers
    BY <1>1 DEF ProducersOwn
  <1> QED
    BY <1>2 DEF ProducersOwn

\* A step inside a push.
LEMMA InPush ==
    ASSUME TypeOK, NEW p \in Producers, NEW x, x \in {"push", "ask", "disk", "memory", "add", "enqueue"},
           ppc[p] # "idle", ppc' = [ppc EXCEPT ![p] = x]
    PROVE  /\ ppc' \in [Producers -> {"idle", "push", "ask", "disk", "memory", "add", "enqueue"}]
           /\ \A q \in Producers : ppc'[q] = "idle" <=> ppc[q] = "idle"
  BY DEF TypeOK

\* A step that changes no block and neither the trash nor the write thread.
LEMMA OwnSame ==
    ASSUME TypeOK, OwnInv, UNCHANGED <<pblk, setup, queueStore, trash, wpc, wblk, handed>>,
           \A q \in Producers : ppc'[q] = "idle" <=> ppc[q] = "idle",
           blk' \in [Blocks -> BlockStore],
           \A c \in Blocks : \/ blk'[c] = blk[c]
                            \/ /\ blk'[c].place = blk[c].place /\ blk'[c].locks = blk[c].locks
                               /\ blk[c].place # "none"
    PROVE  OwnInv'
  <1>1. \A c \in Blocks : /\ blk'[c].place = blk[c].place
                         /\ blk'[c].locks = blk[c].locks
                         /\ blk[c].place = "none" => blk'[c] = blk[c]
    OBVIOUS
  <1>2. ProducersOwn'
    BY <1>1, ProducersKeep DEF OwnInv
  <1>3. Lists(blk, queueStore, "queue")'
    <2>1. Lists(blk', queueStore, "queue")
      BY <1>1, ListsKeep DEF OwnInv, TypeOK
    <2> QED
      BY <2>1
  <1>4. Lists(blk, trash, "trash")'
    <2>1. Lists(blk', trash, "trash")
      BY <1>1, ListsKeep DEF OwnInv, TypeOK
    <2> QED
      BY <2>1
  <1>5. WriterOwns'
    BY <1>1 DEF OwnInv, WriterOwns, TypeOK, Working
  <1>6. LocksHeld'
    BY <1>1 DEF OwnInv, LocksHeld
  <1> QED
    BY <1>2, <1>3, <1>4, <1>5, <1>6 DEF OwnInv

\* A new block is the first that does not exist, in the hands of its producer.
LEMMA NewBlockStoreBlock ==
    ASSUME TypeOK, NEW p \in Producers, NewBlockStore(p)
    PROVE  \E b \in Blocks, t \in BlockStore :
              /\ blk[b] = Unborn /\ Becomes(b, t)
              /\ t.place = "producer" /\ t.inMem = TRUE /\ t.file = 0
              /\ t.zip = setup.compress /\ t.locks = 0
              /\ pblk' = [pblk EXCEPT ![p] = b]
  <1> DEFINE S == {x \in Blocks : blk[x] = Unborn}
             b == Min(S)
  <1>1. S \in SUBSET Nat /\ S # {}
    <2>1. PICK x \in 1 .. setup.blocks : blk[x] = Unborn
      BY DEF NewBlockStore
    <2>2. x \in Blocks /\ Blocks \subseteq Nat
      BY SetupType, Constants DEF TypeOK, Blocks
    <2> QED
      BY <2>1, <2>2
  <1>2. b \in S
    BY <1>1, MinProperties
  <1>3. b \in Blocks /\ blk[b] = Unborn
    BY <1>2
  <1>4. PICK m \in BOOLEAN : m = TRUE
    OBVIOUS
  <1>5. PICK z \in BOOLEAN : z = setup.compress
    BY SetupType DEF TypeOK
  <1>6. /\ blk' = [blk EXCEPT ![b] = [Unborn EXCEPT !.place = "producer", !.inMem = m, !.zip = z]]
        /\ pblk' = [pblk EXCEPT ![p] = b]
    BY <1>4, <1>5 DEF NewBlockStore
  <1> HIDE DEF b
  <1>7. PICK t : t = [Unborn EXCEPT !.place = "producer", !.inMem = m, !.zip = z]
    OBVIOUS
  <1>8. /\ t \in BlockStore /\ t.place = "producer" /\ t.inMem = m
        /\ t.file = 0 /\ t.zip = z /\ t.locks = 0
    <2>1. "producer" \in Places /\ 0 \in 0 .. FileIdMax /\ 0 \in 0 .. Packets
      BY Constants DEF Places
    <2>2. t = [place |-> "producer", inMem |-> m, file |-> 0, zip |-> z, locks |-> 0]
      BY <1>7 DEF Unborn
    <2>3. [place |-> "producer", inMem |-> m, file |-> 0, zip |-> z, locks |-> 0] \in BlockStore
      BY <2>1, BlockRebuilt
    <2> QED
      BY <2>2, <2>3
  <1>9. Becomes(b, t)
    BY <1>3, <1>6, <1>7, <1>8, OneBlock DEF TypeOK
  <1> QED
    BY <1>3, <1>4, <1>5, <1>6, <1>8, <1>9

\* Making a block keeps the owners.
LEMMA NewBlockStoreOwn ==
    ASSUME TypeOK, OwnInv, NEW p \in Producers, NewBlockStore(p)
    PROVE  TypeOK' /\ OwnInv'
  <1>1. PICK b \in Blocks, t \in BlockStore :
              /\ blk[b] = Unborn /\ Becomes(b, t)
              /\ t.place = "producer" /\ t.locks = 0
              /\ pblk' = [pblk EXCEPT ![p] = b]
    BY NewBlockStoreBlock
  <1>2. /\ blk[b].place = "none" /\ blk'[b].place = "producer" /\ blk'[b].locks = 0
        /\ blk' \in [Blocks -> BlockStore] /\ b # NoBlock
        /\ \A c \in Blocks : c # b => blk'[c] = blk[c]
    BY <1>1, UnbornType, Constants DEF Becomes
  <1>3. /\ p \in setup.producers /\ ppc[p] = "idle" /\ ppc' = [ppc EXCEPT ![p] = "push"]
        /\ UNCHANGED <<queueStore, filevars, used, trashSize, trash, wvars, popCount, process>>
    BY DEF NewBlockStore
  <1>4. TypeOK'
    BY <1>1, <1>2, <1>3 DEF TypeOK, filevars, wvars, process
  <1>5. ProducersOwn'
    <2>1. ASSUME NEW q \in Producers
          PROVE  /\ ppc'[q] = "idle" <=> pblk'[q] = NoBlock
                 /\ ppc'[q] # "idle" => /\ blk'[pblk'[q]].place = "producer"
                                        /\ q \in setup'.producers
      BY <1>1, <1>2, <1>3 DEF TypeOK, OwnInv, ProducersOwn, process
    <2>2. \A q \in Producers : pblk[q] # b
      BY <1>2 DEF OwnInv, ProducersOwn
    <2>3. ASSUME NEW q \in Producers, NEW r \in Producers, pblk'[q] = pblk'[r], pblk'[q] # NoBlock
          PROVE  q = r
      BY <1>1, <2>2, <2>3 DEF TypeOK, OwnInv, ProducersOwn
    <2>4. ASSUME NEW c \in Blocks, blk'[c].place = "producer" PROVE \E q \in Producers : pblk'[q] = c
      <3>1. CASE c = b
        BY <1>1, <3>1 DEF TypeOK
      <3>2. CASE c # b
        <4>1. PICK q \in Producers : pblk[q] = c
          BY <1>2, <2>4, <3>2 DEF OwnInv, ProducersOwn
        <4>2. q # p
          BY <1>3, <4>1, Constants DEF OwnInv, ProducersOwn
        <4> QED
          BY <1>1, <4>1, <4>2 DEF TypeOK
      <3> QED
        BY <3>1, <3>2
    <2> QED
      BY <2>1, <2>3, <2>4 DEF ProducersOwn
  <1>6. \A c \in Blocks : /\ (blk'[c].place = "queue" <=> blk[c].place = "queue")
                         /\ (blk'[c].place = "trash" <=> blk[c].place = "trash")
                         /\ (blk'[c].place = "writer" <=> blk[c].place = "writer")
    BY <1>2
  <1>7. Lists(blk, queueStore, "queue")' /\ Lists(blk, trash, "trash")'
    <2>1. Lists(blk', queueStore, "queue")
      BY <1>6, ListsKeep DEF OwnInv, TypeOK
    <2>2. Lists(blk', trash, "trash")
      BY <1>6, ListsKeep DEF OwnInv, TypeOK
    <2> QED
      BY <1>3, <2>1, <2>2
  <1>8. WriterOwns'
    BY <1>3, <1>6 DEF OwnInv, WriterOwns, TypeOK, Working, wvars
  <1>9. LocksHeld'
    <2>1. b # wblk \/ wpc # "hand"
      BY <1>2 DEF OwnInv, WriterOwns, Working
    <2> QED
      BY <1>2, <1>3, <2>1 DEF OwnInv, LocksHeld, wvars
  <1> QED
    BY <1>4, <1>5, <1>7, <1>8, <1>9 DEF OwnInv

\* The units of the files, of which TotalSize is the number.
Units(fs) == UNION {{i} \X (1 .. fs[i].size) : i \in DOMAIN fs}

\* The files gs occupy what the files fs occupy.
SameSizes(fs, gs) ==
    /\ gs \in Seq(File) /\ Len(gs) = Len(fs)
    /\ \A i \in 1 .. Len(fs) : gs[i].size = fs[i].size

\* Files of the same sizes have the same units.
LEMMA SizesUnits ==
    ASSUME NEW fs \in Seq(File), NEW gs, SameSizes(fs, gs)
    PROVE  Units(gs) = Units(fs) /\ TotalSize(gs) = TotalSize(fs)
  <1>1. DOMAIN gs = DOMAIN fs /\ \A i \in DOMAIN fs : gs[i].size = fs[i].size
    BY DEF SameSizes
  <1>2. Units(gs) = Units(fs)
    BY <1>1 DEF Units
  <1> QED
    BY <1>2 DEF TotalSize, Units

\* Asking files whether they are full does not change what they occupy.
LEMMA SameUnits ==
    ASSUME NEW fs \in Seq(File), NEW gs, SameFiles(fs, gs)
    PROVE  Units(gs) = Units(fs) /\ TotalSize(gs) = TotalSize(fs)
  <1>1. SameSizes(fs, gs)
    BY DEF SameFiles, SameFile, SameSizes
  <1> QED
    BY <1>1, SizesUnits

\* What SameFiles keeps, a second step keeps too.
LEMMA SameFilesTransitive ==
    ASSUME NEW es, NEW fs, SameFiles(es, fs)
    PROVE  /\ \A gs : SameFiles(fs, gs) => SameFiles(es, gs)
           /\ \A gs : Opened(fs, gs) => Opened(es, gs)
  <1>1. \A f, g, h : SameFile(f, g) /\ SameFile(g, h) => SameFile(f, h)
    BY DEF SameFile
  <1>2. ASSUME NEW gs, SameFiles(fs, gs) PROVE SameFiles(es, gs)
    BY <1>1, <1>2 DEF SameFiles
  <1>3. ASSUME NEW gs, Opened(fs, gs) PROVE Opened(es, gs)
    <2>1. CASE SameFiles(fs, gs) /\ lastFileStoreId' = lastFileStoreId
      BY <1>2, <1>3, <2>1 DEF Opened
    <2>2. CASE ~(SameFiles(fs, gs) /\ lastFileStoreId' = lastFileStoreId)
      <3>1. /\ gs \in Seq(File) /\ gs # <<>> /\ Len(gs) = Len(fs) + 1
            /\ \A i \in 1 .. Len(fs) : SameFile(fs[i], gs[i])
            /\ Len(fs) > 0 => gs[Len(fs)].full
            /\ gs[Len(gs)].id = NextFileId /\ gs[Len(gs)].size = 0
            /\ gs[Len(gs)].push = 0 /\ gs[Len(gs)].pop = 0 /\ gs[Len(gs)].full = FALSE
            /\ lastFileStoreId' = NextFileId
        BY <1>3, <2>2 DEF Opened
      <3>2. Len(fs) = Len(es) /\ \A i \in 1 .. Len(es) : SameFile(es[i], fs[i])
        BY DEF SameFiles
      <3>3. \A i \in 1 .. Len(es) : SameFile(es[i], gs[i])
        BY <1>1, <3>1, <3>2
      <3> QED
        BY <3>1, <3>2, <3>3 DEF Opened
    <2> QED
      BY <2>1, <2>2
  <1> QED
    BY <1>2, <1>3

\* What the steps of push under lock_fileStore do for the block b of producer p: nothing
\* but a question, a file more, or the block is in the last file.
AskedOnly(p) ==
    /\ SameFiles(fileStore, fileStore') /\ UNCHANGED <<blk, lastFileStoreId>>
    /\ \E x \in {"push", "memory"} : ppc' = [ppc EXCEPT ![p] = x]

OpenedOnly(p) ==
    /\ Opened(fileStore, fileStore') /\ UNCHANGED blk
    /\ ppc' = [ppc EXCEPT ![p] = "push"]

Spilled(p, b) ==
    \E open \in Seq(File) :
        /\ Opened(fileStore, open) /\ StoredInLast(open, fileStore')
        /\ ~DiskIsFull(fileStore)
        /\ ppc' = [ppc EXCEPT ![p] = "enqueue"]
        /\ Becomes(b, blk'[b])
        /\ blk'[b].place = blk[b].place /\ blk'[b].inMem = FALSE
        /\ blk'[b].file = open[Len(open)].id
        /\ blk'[b].zip = blk[b].zip /\ blk'[b].locks = blk[b].locks

\* The steps of push on files ask the last one, open one, or write the block to it.
LEMMA PushFileStep ==
    ASSUME TypeOK, NEW p \in Producers, pblk[p] \in Blocks, PushAskFile(p) \/ PushToDisk(p)
    PROVE  AskedOnly(p) \/ OpenedOnly(p) \/ Spilled(p, pblk[p])
  <1>0. fileStore \in Seq(File)
    BY DEF TypeOK
  <1>1. ASSUME NEW files \in Seq(File), SameFiles(fileStore, files), StoreToFile(p, files)
        PROVE  AskedOnly(p) \/ OpenedOnly(p) \/ Spilled(p, pblk[p])
    <2>1. CASE /\ fileStore' = files /\ ppc' = [ppc EXCEPT ![p] = "push"]
               /\ UNCHANGED <<blk, lastFileStoreId>>
      BY <1>1, <2>1 DEF AskedOnly
    <2>2. ASSUME NEW open \in Seq(File), Opened(files, open),
                 fileStore' = open, ppc' = [ppc EXCEPT ![p] = "push"], UNCHANGED blk
          PROVE  OpenedOnly(p)
      <3>1. Opened(fileStore, open)
        BY <1>1, <2>2, SameFilesTransitive
      <3> QED
        BY <2>2, <3>1 DEF OpenedOnly
    <2>3. ASSUME NEW open \in Seq(File), Opened(files, open), ~DiskIsFull(files),
                 StoredInLast(open, fileStore'),
                 ppc' = [ppc EXCEPT ![p] = "enqueue"],
                 Becomes(pblk[p], blk'[pblk[p]]),
                 blk'[pblk[p]].place = blk[pblk[p]].place,
                 blk'[pblk[p]].inMem = FALSE,
                 blk'[pblk[p]].file = open[Len(open)].id,
                 blk'[pblk[p]].zip = blk[pblk[p]].zip,
                 blk'[pblk[p]].locks = blk[pblk[p]].locks
          PROVE  Spilled(p, pblk[p])
      <3>1. Opened(fileStore, open)
        BY <1>1, <2>3, SameFilesTransitive
      <3>2. ~DiskIsFull(fileStore)
        BY <1>0, <1>1, <2>3, SameUnits DEF DiskIsFull
      <3> QED
        BY <2>3, <3>1, <3>2 DEF Spilled
    <2> QED
      BY <1>1, <2>1, <2>2, <2>3, StoreToFileStep
  <1>2. CASE PushToDisk(p)
    <2>1. SameFiles(fileStore, fileStore)
      BY <1>0 DEF SameFiles, SameFile
    <2>2. StoreToFile(p, fileStore)
      BY <1>2 DEF PushToDisk
    <2> QED
      BY <1>0, <1>1, <2>1, <2>2
  <1>3. CASE PushAskFile(p)
    <2> DEFINE asked(late) == AskLast(fileStore, used = 0, late)
    <2>1. PICK late \in BOOLEAN :
            \/ StoreToFile(p, asked(late))
            \/ /\ fileStore' = asked(late) /\ ppc' = [ppc EXCEPT ![p] = "memory"]
               /\ UNCHANGED <<blk, lastFileStoreId>>
      BY <1>3 DEF PushAskFile
    <2>2. (used = 0) \in BOOLEAN
      OBVIOUS
    <2>3. SameFiles(fileStore, asked(late))
      BY <1>0, <2>2, AskLastProperties
    <2> HIDE DEF asked
    <2>4. asked(late) \in Seq(File)
      BY <2>3 DEF SameFiles
    <2>5. CASE StoreToFile(p, asked(late))
      BY <1>1, <2>3, <2>4, <2>5
    <2>6. CASE /\ fileStore' = asked(late) /\ ppc' = [ppc EXCEPT ![p] = "memory"]
               /\ UNCHANGED <<blk, lastFileStoreId>>
      BY <2>3, <2>6 DEF AskedOnly
    <2> QED
      BY <2>1, <2>5, <2>6
  <1> QED
    BY <1>2, <1>3

\* The steps of push on files keep the owners.
LEMMA PushFileOwn ==
    ASSUME TypeOK, OwnInv, NEW p \in Producers, PushAskFile(p) \/ PushToDisk(p)
    PROVE  TypeOK' /\ OwnInv'
  <1>1. /\ ppc[p] # "idle"
        /\ UNCHANGED <<pblk, queueStore, used, trashSize, trash, wvars, popCount, process>>
    BY DEF PushAskFile, PushToDisk
  <1>2. pblk[p] \in Blocks /\ blk[pblk[p]].place = "producer"
    BY <1>1 DEF TypeOK, OwnInv, ProducersOwn
  <1>3. AskedOnly(p) \/ OpenedOnly(p) \/ Spilled(p, pblk[p])
    BY <1>2, PushFileStep
  <1>4. /\ fileStore' \in Seq(File) /\ lastFileStoreId' \in 0 .. FileIdMax
        /\ blk' \in [Blocks -> BlockStore]
        /\ \A c \in Blocks : \/ blk'[c] = blk[c]
                            \/ /\ blk'[c].place = blk[c].place /\ blk'[c].locks = blk[c].locks
                               /\ blk[c].place # "none"
    <2>1. NextFileId \in 0 .. FileIdMax
      BY NextFileIdType DEF TypeOK
    <2>2. CASE AskedOnly(p)
      BY <2>2 DEF AskedOnly, SameFiles, TypeOK
    <2>3. CASE OpenedOnly(p)
      BY <2>1, <2>3 DEF OpenedOnly, Opened, TypeOK
    <2>4. CASE Spilled(p, pblk[p])
      BY <1>2, <2>1, <2>4 DEF Spilled, Opened, StoredInLast, TypeOK, Becomes
    <2> QED
      BY <1>3, <2>2, <2>3, <2>4
  <1>5. \E x \in {"push", "memory", "enqueue"} : ppc' = [ppc EXCEPT ![p] = x]
    BY <1>3 DEF AskedOnly, OpenedOnly, Spilled
  <1>6. /\ ppc' \in [Producers -> {"idle", "push", "ask", "disk", "memory", "add", "enqueue"}]
        /\ \A q \in Producers : ppc'[q] = "idle" <=> ppc[q] = "idle"
    BY <1>1, <1>5, InPush
  <1>7. TypeOK'
    BY <1>1, <1>4, <1>6 DEF TypeOK, wvars, process
  <1>8. OwnInv'
    BY <1>1, <1>4, <1>6, OwnSame DEF wvars, process
  <1> QED
    BY <1>7, <1>8

\* The steps of push that leave all blocks and files alone.
LEMMA PushMemoryOwn ==
    ASSUME TypeOK, OwnInv, NEW p \in Producers,
           PushCheck(p) \/ PushMemoryCheck(p) \/ PushMemoryAdd(p)
    PROVE  TypeOK' /\ OwnInv'
  <1>1. /\ ppc[p] # "idle"
        /\ \E x \in {"push", "ask", "disk", "memory", "add", "enqueue"} : ppc' = [ppc EXCEPT ![p] = x]
        /\ UNCHANGED <<blk, pblk, queueStore, filevars, trashSize, trash, wvars, popCount, process>>
    BY DEF PushCheck, PushMemoryCheck, PushMemoryAdd
  <1>2. used' \in Nat
    <2>1. \A b : SizeOf(b) \in Nat
      BY Constants DEF SizeOf
    <2> QED
      BY <2>1 DEF PushCheck, PushMemoryCheck, PushMemoryAdd, TypeOK
  <1>3. /\ ppc' \in [Producers -> {"idle", "push", "ask", "disk", "memory", "add", "enqueue"}]
        /\ \A q \in Producers : ppc'[q] = "idle" <=> ppc[q] = "idle"
    BY <1>1, InPush
  <1>4. TypeOK'
    BY <1>1, <1>2, <1>3 DEF TypeOK, filevars, wvars, process
  <1>5. blk' \in [Blocks -> BlockStore] /\ \A c \in Blocks : blk'[c] = blk[c]
    BY <1>1 DEF TypeOK
  <1>6. OwnInv'
    BY <1>1, <1>3, <1>5, OwnSame DEF wvars, process
  <1> QED
    BY <1>4, <1>6

\* Putting a block in the queue passes it from its producer to the queue.
LEMMA PushEnqueueOwn ==
    ASSUME TypeOK, OwnInv, NEW p \in Producers, PushEnqueue(p)
    PROVE  TypeOK' /\ OwnInv'
  <1> DEFINE b == pblk[p]
  <1>1. /\ ppc[p] = "enqueue" /\ queueStore' = Append(queueStore, b)
        /\ blk' = [blk EXCEPT ![b].place = "queue"]
        /\ ppc' = [ppc EXCEPT ![p] = "idle"] /\ pblk' = [pblk EXCEPT ![p] = NoBlock]
        /\ UNCHANGED <<filevars, used, trashSize, trash, wvars, popCount, process>>
    BY DEF PushEnqueue
  <1>2. b \in Blocks /\ blk[b].place = "producer" /\ blk[b] \in BlockStore
    BY <1>1 DEF TypeOK, OwnInv, ProducersOwn
  <1>3. PICK t : t.place = "queue" /\ t.locks = blk[b].locks /\ Becomes(b, t)
    <2>1. "queue" \in Places
      BY DEF Places
    <2> QED
      BY <1>1, <1>2, <2>1, PlaceChanges DEF TypeOK
  <1> HIDE DEF b
  <1>4. /\ blk' \in [Blocks -> BlockStore] /\ blk'[b].place = "queue"
        /\ blk'[b].locks = blk[b].locks
        /\ \A c \in Blocks : c # b => blk'[c] = blk[c]
    BY <1>3 DEF Becomes
  <1>5. Append(queueStore, b) \in Seq(Blocks) /\ Lists(blk', Append(queueStore, b), "queue")
    <2>1. queueStore \in Seq(Blocks) /\ Lists(blk, queueStore, "queue")
      BY DEF OwnInv, TypeOK
    <2>2. blk[b].place # "queue"
      BY <1>2
    <2>3. \A c \in Blocks : c # b => (blk'[c].place = "queue" <=> blk[c].place = "queue")
      BY <1>4
    <2> QED
      BY <1>2, <1>4, <2>1, <2>2, <2>3, ListsAppend
  <1>6. TypeOK'
    BY <1>1, <1>4, <1>5 DEF TypeOK, filevars, wvars, process
  <1>7. ProducersOwn'
    <2>1. \A q \in Producers : pblk[q] = b => q = p
      BY <1>2, Constants DEF OwnInv, ProducersOwn, b
    <2>2. /\ \A q \in Producers : q # p => (pblk'[q] = pblk[q] /\ ppc'[q] = ppc[q])
          /\ pblk'[p] = NoBlock /\ ppc'[p] = "idle"
      BY <1>1 DEF TypeOK
    <2>3. ASSUME NEW q \in Producers
          PROVE  /\ ppc'[q] = "idle" <=> pblk'[q] = NoBlock
                 /\ ppc'[q] # "idle" => /\ blk'[pblk'[q]].place = "producer"
                                        /\ q \in setup'.producers
      BY <1>1, <1>4, <2>1, <2>2 DEF TypeOK, OwnInv, ProducersOwn, process
    <2>4. ASSUME NEW q \in Producers, NEW r \in Producers, pblk'[q] = pblk'[r], pblk'[q] # NoBlock
          PROVE  q = r
      <3>1. q # p /\ r # p
        BY <2>2, <2>4
      <3>2. pblk[q] = pblk[r] /\ pblk[q] # NoBlock
        BY <2>2, <2>4, <3>1
      <3> QED
        BY <3>2 DEF OwnInv, ProducersOwn
    <2>5. ASSUME NEW c \in Blocks, blk'[c].place = "producer" PROVE \E q \in Producers : pblk'[q] = c
      <3>1. c # b /\ blk[c].place = "producer"
        BY <1>4, <2>5
      <3>2. PICK q \in Producers : pblk[q] = c
        BY <3>1 DEF OwnInv, ProducersOwn
      <3>3. q # p
        BY <3>1, <3>2 DEF b
      <3> QED
        BY <2>2, <3>2, <3>3
    <2> QED
      BY <2>3, <2>4, <2>5 DEF ProducersOwn
  <1>8. Lists(blk, trash, "trash")'
    <2>1. Lists(blk', trash, "trash")
      <3>1. \A c \in Blocks : blk'[c].place = "trash" <=> blk[c].place = "trash"
        BY <1>2, <1>4
      <3> QED
        BY <3>1, ListsKeep DEF OwnInv, TypeOK
    <2> QED
      BY <1>1, <2>1
  <1>9. WriterOwns'
    BY <1>1, <1>2, <1>4 DEF OwnInv, WriterOwns, TypeOK, Working, wvars
  <1>10. LocksHeld'
    BY <1>1, <1>2, <1>4 DEF OwnInv, LocksHeld, wvars
  <1> QED
    BY <1>1, <1>5, <1>6, <1>7, <1>8, <1>9, <1>10 DEF OwnInv

-----------------------------------------------------------------------------
(* The write thread and the other threads *)

\* Steps that change neither a block nor a deque.
LEMMA WriterOnly ==
    ASSUME TypeOK, OwnInv, UNCHANGED <<blk, ppc, pblk, setup, queueStore, trash>>,
           WriterOwns', LocksHeld'
    PROVE  OwnInv'
  <1>1. ProducersOwn'
    BY ProducersKeep DEF OwnInv
  <1>2. Lists(blk, queueStore, "queue")' /\ Lists(blk, trash, "trash")'
    BY DEF OwnInv
  <1> QED
    BY <1>1, <1>2 DEF OwnInv

\* Steps of the write thread that move no block keep the owners.
LEMMA WriterOnlyOwn ==
    ASSUME TypeOK, OwnInv,
           \/ PopEmpty \/ PopCount \/ UncompressBegin \/ TrashLeaveUsed \/ TrashAccount
           \/ SkipCleanup \/ WriteThreadStop
    PROVE  TypeOK' /\ OwnInv'
  <1>1. UNCHANGED <<blk, ppc, pblk, setup, queueStore, trash, lastFileStoreId, terminating>>
    BY DEF PopEmpty, PopCount, UncompressBegin, TrashLeaveUsed, TrashAccount, SkipCleanup,
           WriteThreadStop, pvars, filevars, process
  <1>2. /\ fileStore' \in Seq(File) /\ used' \in Nat /\ trashSize' \in Nat
        /\ popCount' \in 0 .. CleanupEvery - 1
    <2>1. \A b : SizeOf(b) \in Nat
      BY Constants DEF SizeOf
    <2>2. Cleaned(fileStore) \in Seq(File)
      BY CleanedProperties DEF TypeOK
    <2>3. \A x, n \in Nat : Sub(x, n) \in Nat
      BY DEF Sub
    <2>4. fileStore' \in Seq(File)
      BY <2>2 DEF PopEmpty, PopCount, UncompressBegin, TrashLeaveUsed, TrashAccount, SkipCleanup,
           WriteThreadStop, filevars, TypeOK
    <2>5. used' \in Nat
      BY <2>1, <2>3 DEF PopEmpty, PopCount, UncompressBegin, TrashLeaveUsed, TrashAccount,
           SkipCleanup, WriteThreadStop, TypeOK
    <2>6. trashSize' \in Nat
      BY Constants DEF PopEmpty, PopCount, UncompressBegin, TrashLeaveUsed, TrashAccount,
           SkipCleanup, WriteThreadStop, TypeOK
    <2>7. popCount' \in 0 .. CleanupEvery - 1
      BY Constants DEF PopEmpty, PopCount, UncompressBegin, TrashLeaveUsed, TrashAccount,
           SkipCleanup, WriteThreadStop, TypeOK
    <2> QED
      BY <2>4, <2>5, <2>6, <2>7
  <1>3. \A b \in Blocks : blk[b].locks \in Nat
    BY BlockFields DEF TypeOK
  <1>4. /\ wpc' \in {"pop", "wait", "count", "unzip", "unzipping", "hand", "leave", "account",
                    "clean", "stopped", "dangling"}
        /\ wblk' \in Blocks \cup {NoBlock} /\ handed' \in 0 .. Packets
        /\ WriterOwns' /\ LocksHeld'
    <2>1. CASE PopEmpty \/ SkipCleanup \/ WriteThreadStop
      <3>1. /\ wpc \in {"pop", "clean"} /\ wpc' \in {"pop", "clean", "stopped"}
            /\ UNCHANGED <<wblk, handed>>
        BY <2>1 DEF PopEmpty, SkipCleanup, WriteThreadStop
      <3> QED
        BY <1>1, <3>1 DEF TypeOK, OwnInv, WriterOwns, LocksHeld, Working
    <2>2. CASE PopCount
      <3>1. wpc = "count" /\ wpc' = "unzip" /\ UNCHANGED <<wblk, handed>>
        BY <2>2 DEF PopCount
      <3> QED
        BY <1>1, <3>1 DEF TypeOK, OwnInv, WriterOwns, LocksHeld, Working
    <2>3. CASE UncompressBegin
      <3>1. /\ wpc = "unzip" /\ wpc' \in {"unzipping", "hand"} /\ wblk' = wblk
            /\ handed' = 0
        BY <2>3 DEF UncompressBegin
      <3>2. wblk \in Blocks /\ blk[wblk].place = "writer"
        BY <3>1 DEF TypeOK, OwnInv, WriterOwns, Working
      <3>3. blk[wblk].locks = 0
        BY <3>1, <3>2 DEF OwnInv, LocksHeld
      <3>4. WriterOwns'
        BY <1>1, <3>1, <3>2 DEF OwnInv, WriterOwns, Working
      <3>5. LocksHeld'
        BY <1>1, <3>1, <3>2, <3>3 DEF OwnInv, LocksHeld
      <3> QED
        BY <3>1, <3>2, <3>4, <3>5, Constants
    <2>4. CASE TrashLeaveUsed
      <3>1. wpc = "leave" /\ wpc' = "account" /\ UNCHANGED <<wblk, handed>>
        BY <2>4 DEF TrashLeaveUsed
      <3> QED
        BY <1>1, <3>1 DEF TypeOK, OwnInv, WriterOwns, LocksHeld, Working
    <2>5. CASE TrashAccount
      <3>1. wpc = "account" /\ wpc' = "clean" /\ wblk' = NoBlock /\ handed' = handed
        BY <2>5 DEF TrashAccount
      <3> QED
        BY <1>1, <3>1 DEF TypeOK, OwnInv, WriterOwns, LocksHeld, Working
    <2> QED
      BY <2>1, <2>2, <2>3, <2>4, <2>5
  <1>5. TypeOK'
    BY <1>1, <1>2, <1>4 DEF TypeOK
  <1>6. OwnInv'
    BY <1>1, <1>4, WriterOnly
  <1> QED
    BY <1>5, <1>6

\* A block changes that is no producer's.
LEMMA ProducersApart ==
    ASSUME TypeOK, OwnInv, UNCHANGED <<pvars, setup>>, NEW b, NEW t, Becomes(b, t),
           blk[b].place # "producer", t.place # "producer"
    PROVE  ProducersOwn'
  <1>1. \A c \in Blocks : blk'[c].place = "producer" <=> blk[c].place = "producer"
    BY DEF Becomes
  <1> QED
    BY <1>1, ProducersKeep DEF OwnInv, pvars

\* A block changes without coming to a place or leaving it.
LEMMA ListsApart ==
    ASSUME TypeOK, OwnInv, NEW b, NEW t, Becomes(b, t), NEW s \in Seq(Blocks), NEW x,
           Lists(blk, s, x), blk[b].place = x <=> t.place = x
    PROVE  Lists(blk', s, x)
  <1>1. \A c \in Blocks : blk'[c].place = x <=> blk[c].place = x
    BY DEF Becomes
  <1> QED
    BY <1>1, ListsKeep

\* Taking the first block passes it from the queue to the write thread.
LEMMA PopFrontOwn ==
    ASSUME TypeOK, OwnInv, PopFront
    PROVE  TypeOK' /\ OwnInv'
  <1> DEFINE b == Head(queueStore)
             lost == blk[b].file # 0 /\ FindFile(blk[b].file) = 0
  <1>1. /\ wpc = "pop" /\ queueStore # <<>> /\ wblk' = b
        /\ blk' = [blk EXCEPT ![b] = IF lost THEN Unborn ELSE [@ EXCEPT !.place = "writer"]]
        /\ wpc' = IF lost THEN "dangling" ELSE IF blk[b].file # 0 THEN "wait" ELSE "count"
        /\ queueStore' = Tail(queueStore)
        /\ UNCHANGED <<pvars, filevars, used, trashSize, trash, handed, popCount, process>>
    BY DEF PopFront
  <1>2. b \in Blocks /\ blk[b].place = "queue" /\ blk[b] \in BlockStore
    <2>1. b = queueStore[1] /\ 1 \in DOMAIN queueStore /\ b \in Blocks
      BY <1>1 DEF TypeOK
    <2> QED
      BY <2>1 DEF TypeOK, OwnInv, Lists
  <1> HIDE DEF b, lost
  <1>3. PICK t : /\ Becomes(b, t) /\ t.locks = 0
                 /\ (lost /\ t = Unborn) \/ (~lost /\ t.place = "writer")
    <2>1. CASE lost
      <3>1. blk' = [blk EXCEPT ![b] = Unborn]
        BY <1>1, <2>1
      <3> QED
        BY <1>2, <2>1, <3>1, UnbornType, OneBlock DEF TypeOK
    <2>2. CASE ~lost
      <3>1. PICK t : t = [blk[b] EXCEPT !.place = "writer"]
        OBVIOUS
      <3>2. t \in BlockStore /\ t.place = "writer" /\ t.locks = blk[b].locks
        BY <1>2, <3>1, SetPlace DEF Places
      <3>3. blk' = [blk EXCEPT ![b] = t]
        BY <1>1, <2>2, <3>1
      <3>4. Becomes(b, t)
        BY <1>2, <3>2, <3>3, OneBlock DEF TypeOK
      <3>5. blk[b].locks = 0
        BY <1>1, <1>2 DEF OwnInv, LocksHeld
      <3> QED
        BY <2>2, <3>2, <3>4, <3>5
    <2> QED
      BY <2>1, <2>2
  <1>4. /\ blk' \in [Blocks -> BlockStore] /\ t.place \in {"none", "writer"}
        /\ blk'[b] = t /\ (\A c \in Blocks : c # b => blk'[c] = blk[c])
        /\ t.place = "none" => t = Unborn
    BY <1>3, UnbornType DEF Becomes
  <1>5. Tail(queueStore) \in Seq(Blocks) /\ Lists(blk', Tail(queueStore), "queue")
    <2>1. PICK s \in Seq(Blocks) : s = Tail(queueStore)
      <3>1. queueStore \in Seq(Blocks) /\ queueStore # <<>>
        BY <1>1 DEF TypeOK
      <3> QED
        BY <3>1, HeadTailProperties
    <2>2. FrontAndRest(queueStore, b, s)
      BY <1>1, <2>1 DEF FrontAndRest, TypeOK, b
    <2>3. Leaves(blk, blk', b, "queue")
      BY <1>2, <1>4 DEF Leaves
    <2>4. Lists(blk, queueStore, "queue")
      BY DEF OwnInv
    <2>5. Lists(blk', s, "queue")
      BY <2>2, <2>3, <2>4, ListsTail
    <2> QED
      BY <2>1, <2>5
  <1>6. TypeOK'
    BY <1>1, <1>2, <1>4, <1>5 DEF TypeOK, pvars, filevars, process
  <1>7. ProducersOwn'
    BY <1>1, <1>2, <1>3, <1>4, ProducersApart DEF process
  <1>8. Lists(blk, trash, "trash")'
    <2>1. Lists(blk', trash, "trash")
      BY <1>2, <1>3, <1>4, ListsApart DEF OwnInv, TypeOK
    <2> QED
      BY <1>1, <2>1
  <1>9. WriterOwns'
    <2>1. \A c \in Blocks : blk[c].place # "writer"
      BY <1>1 DEF OwnInv, WriterOwns, Working
    <2> QED
      BY <1>1, <1>2, <1>3, <1>4, <2>1, Constants, UnbornType DEF WriterOwns, Working
  <1>10. LocksHeld'
    BY <1>1, <1>3, <1>4, UnbornType DEF OwnInv, LocksHeld
  <1> QED
    BY <1>1, <1>5, <1>6, <1>7, <1>8, <1>9, <1>10 DEF OwnInv

\* The block in work changes and stays with the write thread.
LEMMA WriterBlock ==
    ASSUME TypeOK, OwnInv, wpc \in Working
    PROVE  /\ wblk \in Blocks /\ blk[wblk] \in BlockStore /\ blk[wblk].place = "writer"
           /\ wpc # "hand" => blk[wblk].locks = 0
  <1>1. wblk \in Blocks /\ blk[wblk].place = "writer"
    BY DEF TypeOK, OwnInv, WriterOwns
  <1> QED
    BY <1>1 DEF TypeOK, OwnInv, LocksHeld

\* The write thread may change the block it works on.
LEMMA WriterChanges ==
    ASSUME TypeOK, OwnInv, wpc \in Working, wpc' \in Working, NEW t, Becomes(wblk, t),
           t.place = "writer", wpc' # "hand" => t.locks = 0, wpc' = "hand" => t.locks <= handed',
           UNCHANGED <<pvars, setup, queueStore, trash, wblk>>
    PROVE  OwnInv'
  <1>1. wblk \in Blocks /\ blk[wblk].place = "writer"
    BY WriterBlock
  <1>2. ProducersOwn'
    BY <1>1, ProducersApart
  <1>3. Lists(blk, queueStore, "queue")' /\ Lists(blk, trash, "trash")'
    <2>1. Lists(blk', queueStore, "queue")
      BY <1>1, ListsApart DEF OwnInv, TypeOK
    <2>2. Lists(blk', trash, "trash")
      BY <1>1, ListsApart DEF OwnInv, TypeOK
    <2> QED
      BY <2>1, <2>2
  <1>4. blk'[wblk] = t /\ \A c \in Blocks : c # wblk => blk'[c] = blk[c]
    BY DEF Becomes
  <1>5. WriterOwns'
    BY <1>1, <1>4, Constants DEF OwnInv, WriterOwns, Working
  <1>6. LocksHeld'
    BY <1>1, <1>4 DEF OwnInv, LocksHeld
  <1> QED
    BY <1>2, <1>3, <1>5, <1>6 DEF OwnInv

\* A read from a spill file counts in that file and in no other.
ReadFrom(i, d) ==
    /\ fileStore' \in Seq(File) /\ Len(fileStore') = Len(fileStore)
    /\ \A j \in 1 .. Len(fileStore) :
          IF j = i
          THEN /\ fileStore'[j].id = fileStore[j].id /\ fileStore'[j].push = fileStore[j].push
               /\ fileStore'[j].pop = fileStore[j].pop + d /\ fileStore'[j].full = fileStore[j].full
               /\ fileStore'[j].size = fileStore[j].size
          ELSE fileStore'[j] = fileStore[j]

\* Reading from a file changes the count of that file only.
LEMMA ReadFromProperties ==
    ASSUME fileStore \in Seq(File), NEW i, NEW d \in {0, 1},
           fileStore' = [fileStore EXCEPT ![i].pop = @ + d]
    PROVE  ReadFrom(i, d)
  <1>1. CASE i \in 1 .. Len(fileStore)
    <2>1. fileStore[i] \in File
      BY <1>1
    <2>2. PICK k \in Nat : k = fileStore[i].pop + d
      BY <2>1, FileFields
    <2>3. PICK g : g = [fileStore[i] EXCEPT !.pop = k]
      OBVIOUS
    <2>4. /\ g \in File /\ g.id = fileStore[i].id /\ g.push = fileStore[i].push /\ g.pop = k
          /\ g.full = fileStore[i].full /\ g.size = fileStore[i].size
      BY <2>1, <2>3, SetPop
    <2>5. fileStore' = [fileStore EXCEPT ![i] = g]
      BY <1>1, <2>2, <2>3
    <2>6. /\ fileStore' \in Seq(File) /\ Len(fileStore') = Len(fileStore)
          /\ \A j \in 1 .. Len(fileStore) : fileStore'[j] = IF j = i THEN g ELSE fileStore[j]
      BY <1>1, <2>4, <2>5, ExceptSeq
    <2> QED
      BY <2>2, <2>4, <2>6 DEF ReadFrom
  <1>2. CASE i \notin 1 .. Len(fileStore)
    <2>1. fileStore' = fileStore
      BY <1>2
    <2> QED
      BY <1>2, <2>1 DEF ReadFrom
  <1> QED
    BY <1>1, <1>2

\* Reading a block back counts at most one block of its file.
LEMMA PopFromFileFiles ==
    ASSUME TypeOK, PopFromFile \/ PopFromFileFail
    PROVE  /\ fileStore' \in Seq(File)
           /\ PopFromFile => ReadFrom(FindFile(blk[wblk].file), 1)
           /\ PopFromFileFail => \E d \in {0, 1} : ReadFrom(FindFile(blk[wblk].file), d)
  <1> DEFINE i == FindFile(blk[wblk].file)
  <1>1. ASSUME PopFromFile PROVE ReadFrom(i, 1)
    <2>1. PICK d \in {0, 1} : d = 1
      OBVIOUS
    <2>2. fileStore' = [fileStore EXCEPT ![i].pop = @ + d]
      BY <1>1, <2>1 DEF PopFromFile
    <2> HIDE DEF i
    <2>3. ReadFrom(i, d)
      BY <2>2, ReadFromProperties DEF TypeOK
    <2> QED
      BY <2>1, <2>3
  <1>2. ASSUME PopFromFileFail PROVE \E d \in {0, 1} : ReadFrom(i, d)
    <2>1. PICK d \in {0, 1} : fileStore' = [fileStore EXCEPT ![i].pop = @ + d]
      BY <1>2 DEF PopFromFileFail
    <2> HIDE DEF i
    <2>2. ReadFrom(i, d)
      BY <2>1, ReadFromProperties DEF TypeOK
    <2> QED
      BY <2>2
  <1>3. fileStore' \in Seq(File)
    BY <1>1, <1>2 DEF ReadFrom
  <1> QED
    BY <1>1, <1>2, <1>3

\* Reading a block back keeps the owners.
LEMMA PopFromFileOwn ==
    ASSUME TypeOK, OwnInv, PopFromFile
    PROVE  TypeOK' /\ OwnInv'
  <1>1. /\ wpc = "wait" /\ wpc' = "count" /\ blk' = [blk EXCEPT ![wblk].inMem = TRUE]
        /\ UNCHANGED <<pvars, queueStore, lastFileStoreId, used, trashSize, trash, wblk, handed,
                       popCount, process>>
    BY DEF PopFromFile
  <1>2. fileStore' \in Seq(File)
    BY PopFromFileFiles
  <1>3. /\ wblk \in Blocks /\ blk[wblk] \in BlockStore /\ blk[wblk].place = "writer"
        /\ blk[wblk].locks = 0
    BY <1>1, WriterBlock DEF Working
  <1>4. PICK t : Becomes(wblk, t) /\ t.place = "writer" /\ t.locks = 0
    <2>0. PICK m \in BOOLEAN : m = TRUE
      OBVIOUS
    <2>1. PICK t : t = [blk[wblk] EXCEPT !.inMem = m]
      OBVIOUS
    <2>2. t \in BlockStore /\ t.place = "writer" /\ t.locks = 0
      BY <1>3, <2>1, SetInMem
    <2>3. blk' = [blk EXCEPT ![wblk] = t]
      BY <1>1, <2>0, <2>1
    <2> QED
      BY <1>3, <2>2, <2>3, OneBlock DEF TypeOK
  <1>5. OwnInv'
    BY <1>1, <1>4, WriterChanges DEF Working, process
  <1>6. blk' \in [Blocks -> BlockStore]
    BY <1>4 DEF Becomes
  <1>7. TypeOK'
    BY <1>1, <1>2, <1>6 DEF TypeOK, pvars, process
  <1> QED
    BY <1>5, <1>7

\* Decompressing a block keeps the owners.
LEMMA UncompressEndOwn ==
    ASSUME TypeOK, OwnInv, UncompressEnd
    PROVE  TypeOK' /\ OwnInv'
  <1>1. /\ wpc = "unzipping" /\ wpc' = "hand" /\ blk' = [blk EXCEPT ![wblk].zip = FALSE]
        /\ used' = used + RawSize
        /\ UNCHANGED <<pvars, queueStore, filevars, trashSize, trash, wblk, handed, popCount, process>>
    BY DEF UncompressEnd
  <1>2. /\ wblk \in Blocks /\ blk[wblk] \in BlockStore /\ blk[wblk].place = "writer"
        /\ blk[wblk].locks = 0
    BY <1>1, WriterBlock DEF Working
  <1>3. PICK t : Becomes(wblk, t) /\ t.place = "writer" /\ t.locks = 0
    <2>0. PICK z \in BOOLEAN : z = FALSE
      OBVIOUS
    <2>1. PICK t : t = [blk[wblk] EXCEPT !.zip = z]
      OBVIOUS
    <2>2. t \in BlockStore /\ t.place = "writer" /\ t.locks = 0
      BY <1>2, <2>1, SetZip
    <2>3. blk' = [blk EXCEPT ![wblk] = t]
      BY <1>1, <2>0, <2>1
    <2> QED
      BY <1>2, <2>2, <2>3, OneBlock DEF TypeOK
  <1>4. OwnInv'
    <2>1. t.locks <= handed'
      BY <1>1, <1>3 DEF TypeOK
    <2> QED
      BY <1>1, <1>3, <2>1, WriterChanges DEF Working, process
  <1>5. blk' \in [Blocks -> BlockStore] /\ used' \in Nat
    <2>1. used \in Nat /\ RawSize \in Nat
      BY Constants DEF TypeOK
    <2> QED
      BY <1>1, <1>3, <2>1 DEF Becomes
  <1>6. TypeOK'
    BY <1>1, <1>5 DEF TypeOK, pvars, filevars, process
  <1> QED
    BY <1>4, <1>6

\* Handing out a packet keeps the owners.
LEMMA HandPacketOwn ==
    ASSUME TypeOK, OwnInv, HandPacket
    PROVE  TypeOK' /\ OwnInv'
  <1>1. /\ wpc = "hand" /\ handed < Packets /\ handed' = handed + 1
        /\ blk' = blk \/ blk' = [blk EXCEPT ![wblk].locks = @ + 1]
        /\ UNCHANGED <<pvars, queueStore, filevars, used, trashSize, trash, wpc, wblk, popCount,
                       process>>
    BY DEF HandPacket
  <1>2. /\ wblk \in Blocks /\ blk[wblk] \in BlockStore /\ blk[wblk].place = "writer"
        /\ blk[wblk].locks <= handed /\ handed \in 0 .. Packets /\ blk[wblk].locks \in Nat
    BY <1>1, WriterBlock, BlockFields DEF Working, OwnInv, LocksHeld, TypeOK
  <1>3. PICK t : Becomes(wblk, t) /\ t.place = "writer" /\ t.locks <= handed'
    <2>1. CASE blk' = blk
      <3>1. Becomes(wblk, blk[wblk])
        BY <1>2, <2>1 DEF Becomes, TypeOK
      <3> QED
        BY <1>1, <1>2, <3>1
    <2>2. CASE blk' = [blk EXCEPT ![wblk].locks = @ + 1]
      <3>1. PICK l \in 0 .. Packets : l = blk[wblk].locks + 1
        BY <1>1, <1>2, Constants
      <3>2. PICK t : t = [blk[wblk] EXCEPT !.locks = l]
        OBVIOUS
      <3>3. t \in BlockStore /\ t.place = "writer" /\ t.locks = l
        BY <1>2, <3>2, SetLocks
      <3>4. blk' = [blk EXCEPT ![wblk] = t]
        BY <2>2, <3>1, <3>2
      <3>5. Becomes(wblk, t)
        BY <1>2, <3>3, <3>4, OneBlock DEF TypeOK
      <3> QED
        BY <1>1, <1>2, <3>1, <3>3, <3>5
    <2> QED
      BY <1>1, <2>1, <2>2
  <1>4. OwnInv'
    BY <1>1, <1>3, WriterChanges DEF Working, process
  <1>5. blk' \in [Blocks -> BlockStore] /\ handed' \in 0 .. Packets
    BY <1>1, <1>2, <1>3, Constants DEF Becomes
  <1>6. TypeOK'
    BY <1>1, <1>5 DEF TypeOK, pvars, filevars, process
  <1> QED
    BY <1>4, <1>6

\* uncompress or a read from a spill file fails: the block in work is deleted.
LEMMA WriterDeletes ==
    ASSUME TypeOK, OwnInv, wpc \in Working, wpc # "hand", wpc' \in {"dangling", "clean"},
           blk' = [blk EXCEPT ![wblk] = Unborn],
           UNCHANGED <<pvars, setup, queueStore, trash>>
    PROVE  OwnInv' /\ blk' \in [Blocks -> BlockStore]
  <1>1. wblk \in Blocks /\ blk[wblk].place = "writer"
    BY WriterBlock
  <1>2. Becomes(wblk, Unborn)
    BY <1>1, UnbornType, OneBlock DEF TypeOK
  <1>3. ProducersOwn'
    BY <1>1, <1>2, UnbornType, ProducersApart
  <1>4. Lists(blk, queueStore, "queue")' /\ Lists(blk, trash, "trash")'
    <2>1. Lists(blk', queueStore, "queue")
      BY <1>1, <1>2, UnbornType, ListsApart DEF OwnInv, TypeOK
    <2>2. Lists(blk', trash, "trash")
      BY <1>1, <1>2, UnbornType, ListsApart DEF OwnInv, TypeOK
    <2> QED
      BY <2>1, <2>2
  <1>5. blk'[wblk] = Unborn /\ \A c \in Blocks : c # wblk => blk'[c] = blk[c]
    BY <1>2 DEF Becomes
  <1>6. WriterOwns'
    BY <1>1, <1>5, UnbornType DEF OwnInv, WriterOwns, Working
  <1>7. LocksHeld'
    BY <1>1, <1>5, UnbornType DEF OwnInv, LocksHeld
  <1> QED
    BY <1>2, <1>3, <1>4, <1>6, <1>7 DEF OwnInv, Becomes

\* A block that cannot be read or decompressed leaves the write thread and is gone.
LEMMA WriterDeletesOwn ==
    ASSUME TypeOK, OwnInv, PopFromFileFail \/ UncompressFail
    PROVE  TypeOK' /\ OwnInv'
  <1>1. /\ wpc \in Working /\ wpc # "hand" /\ wpc' \in {"dangling", "clean"}
        /\ blk' = [blk EXCEPT ![wblk] = Unborn]
        /\ wblk' = wblk \/ wblk' = NoBlock
        /\ UNCHANGED <<pvars, queueStore, lastFileStoreId, used, trashSize, trash, handed, popCount,
                       process>>
    BY DEF PopFromFileFail, UncompressFail, Working, filevars
  <1>2. fileStore' \in Seq(File)
    <2>1. CASE UncompressFail
      BY <2>1 DEF UncompressFail, filevars, TypeOK
    <2> QED
      BY <2>1, PopFromFileFiles
  <1>3. OwnInv' /\ blk' \in [Blocks -> BlockStore]
    BY <1>1, WriterDeletes DEF process
  <1>4. TypeOK'
    BY <1>1, <1>2, <1>3 DEF TypeOK, pvars, process
  <1> QED
    BY <1>3, <1>4

\* Putting a block in the trash passes it from the write thread to the trash.
LEMMA TrashPushOwn ==
    ASSUME TypeOK, OwnInv, TrashPush
    PROVE  TypeOK' /\ OwnInv'
  <1>1. /\ wpc = "hand" /\ wpc' = "leave" /\ trash' = Append(trash, wblk)
        /\ blk' = [blk EXCEPT ![wblk].place = "trash"]
        /\ UNCHANGED <<pvars, queueStore, filevars, used, trashSize, wblk, handed, popCount, process>>
    BY DEF TrashPush
  <1>2. wblk \in Blocks /\ blk[wblk] \in BlockStore /\ blk[wblk].place = "writer"
    BY <1>1, WriterBlock DEF Working
  <1>3. PICK t : Becomes(wblk, t) /\ t.place = "trash"
    <2>1. PICK t : t = [blk[wblk] EXCEPT !.place = "trash"]
      OBVIOUS
    <2>2. t \in BlockStore /\ t.place = "trash"
      BY <1>2, <2>1, SetPlace DEF Places
    <2>3. blk' = [blk EXCEPT ![wblk] = t]
      BY <1>1, <2>1
    <2> QED
      BY <1>2, <2>2, <2>3, OneBlock DEF TypeOK
  <1>4. /\ blk' \in [Blocks -> BlockStore] /\ blk'[wblk].place = "trash"
        /\ \A c \in Blocks : c # wblk => blk'[c] = blk[c]
    BY <1>3 DEF Becomes
  <1>5. Append(trash, wblk) \in Seq(Blocks) /\ Lists(blk', Append(trash, wblk), "trash")
    BY <1>2, <1>4, ListsAppend DEF OwnInv, TypeOK
  <1>6. TypeOK'
    BY <1>1, <1>4, <1>5 DEF TypeOK, pvars, filevars, process
  <1>7. ProducersOwn'
    BY <1>1, <1>2, <1>3, ProducersApart DEF process
  <1>8. Lists(blk, queueStore, "queue")'
    <2>1. Lists(blk', queueStore, "queue")
      BY <1>2, <1>3, ListsApart DEF OwnInv, TypeOK
    <2> QED
      BY <1>1, <2>1
  <1>9. WriterOwns'
    <2>1. trash' # <<>> /\ trash'[Len(trash')] = wblk
      <3>1. trash \in Seq(Blocks)
        BY DEF TypeOK
      <3> QED
        BY <1>1, <1>2, <3>1
    <2> QED
      BY <1>1, <1>4, <2>1 DEF OwnInv, WriterOwns, Working
  <1>10. LocksHeld'
    BY <1>1, <1>2, <1>4 DEF OwnInv, LocksHeld
  <1> QED
    BY <1>1, <1>5, <1>6, <1>7, <1>8, <1>9, <1>10 DEF OwnInv

\* Which blocks and which trash DestroyTrash leaves.
LEMMA DestroyTrashStep ==
    ASSUME TypeOK, OwnInv, NEW D \in SUBSET DOMAIN trash, DestroyTrash(D)
    PROVE  /\ blk' \in [Blocks -> BlockStore] /\ trash' \in Seq(Blocks) /\ trashSize' \in Nat
           /\ \A b \in Blocks : blk'[b] = IF \E i \in D : trash[i] = b THEN Unborn ELSE blk[b]
           /\ \A b \in Blocks : (\E i \in D : trash[i] = b) => blk[b].place = "trash"
           /\ Lists(blk', trash', "trash")
           /\ Len(trash) \in DOMAIN trash \ D =>
                 trash' # <<>> /\ trash'[Len(trash')] = trash[Len(trash)]
           /\ IsFiniteSet(D) /\ Cardinality(D) \in Nat
           /\ Len(trash') = Len(trash) - Cardinality(D)
  <1> DEFINE R == DOMAIN trash \ D
             n == Cardinality(R)
  <1>1. PICK f \in Ascending(R) : trash' = [j \in DOMAIN f |-> trash[f[j]]]
    BY DEF DestroyTrash
  <1>2. /\ blk' = [b \in Blocks |-> IF \E i \in D : trash[i] = b THEN Unborn ELSE blk[b]]
        /\ trashSize' = Sub(trashSize, RawSize * Cardinality(D))
    BY DEF DestroyTrash
  <1>3. trash \in Seq(Blocks) /\ Lists(blk, trash, "trash") /\ blk \in [Blocks -> BlockStore]
        /\ trashSize \in Nat
    BY DEF TypeOK, OwnInv
  <1>4. Lists(blk', trash', "trash")
    BY <1>1, <1>2, <1>3, ListsPick
  <1>5. R \subseteq DOMAIN trash
    OBVIOUS
  <1>6. IsFiniteSet(DOMAIN trash) /\ Cardinality(DOMAIN trash) = Len(trash) /\ Len(trash) \in Nat
    <2>1. DOMAIN trash = 1 .. Len(trash) /\ Len(trash) \in Nat
      BY <1>3
    <2> QED
      BY <2>1, FS_Interval
  <1>7. IsFiniteSet(D) /\ Cardinality(D) \in Nat
    BY <1>6, FS_Subset, FS_CardinalityType
  <1>8. n = Len(trash) - Cardinality(D)
    <2>1. DOMAIN trash \cap D = D
      OBVIOUS
    <2>2. Cardinality(DOMAIN trash \ D) = Cardinality(DOMAIN trash) - Cardinality(DOMAIN trash \cap D)
      BY <1>6, FS_Difference
    <2> QED
      BY <1>6, <2>1, <2>2
  <1> HIDE DEF R, n
  <1>9. /\ n \in Nat /\ DOMAIN f = 1 .. n
        /\ trash' \in Seq(Blocks) /\ Len(trash') = n
        /\ Len(trash) \in R => n > 0 /\ f[n] = Len(trash)
    BY <1>1, <1>3, <1>5, AscendingProperties DEF n
  <1>10. ASSUME Len(trash) \in R
         PROVE  trash' # <<>> /\ trash'[Len(trash')] = trash[Len(trash)]
    <2>1. n \in DOMAIN f /\ n > 0
      BY <1>9, <1>10
    <2>2. trash'[n] = trash[f[n]]
      BY <1>1, <2>1
    <2>3. trash' # <<>>
      BY <1>9, <2>1
    <2> QED
      BY <1>9, <1>10, <2>2, <2>3
  <1>11. trashSize' \in Nat
    <2>1. RawSize * Cardinality(D) \in Nat
      BY <1>7, Constants
    <2> QED
      BY <1>2, <1>3, <2>1 DEF Sub
  <1>12. blk' \in [Blocks -> BlockStore]
    BY <1>2, <1>3, UnbornType
  <1>13. \A b \in Blocks : (\E i \in D : trash[i] = b) => blk[b].place = "trash"
    BY <1>3 DEF Lists
  <1>14. \A b \in Blocks : blk'[b] = IF \E i \in D : trash[i] = b THEN Unborn ELSE blk[b]
    BY <1>2
  <1> QED
    BY <1>4, <1>7, <1>8, <1>9, <1>10, <1>11, <1>12, <1>13, <1>14 DEF R

\* Destroying blocks of the trash takes exactly those out of it.
LEMMA DestroyTrashOwn ==
    ASSUME TypeOK, OwnInv, NEW D \in SUBSET DOMAIN trash, DestroyTrash(D),
           UNCHANGED <<pvars, queueStore, filevars, used, wblk, handed, popCount, process>>,
           \/ wpc = "clean" /\ wpc' = "pop"
           \/ wpc' = wpc /\ Len(trash) \in DOMAIN trash \ D
    PROVE  TypeOK' /\ OwnInv'
  <1>1. /\ blk' \in [Blocks -> BlockStore] /\ trash' \in Seq(Blocks) /\ trashSize' \in Nat
        /\ \A b \in Blocks : blk'[b] = blk[b] \/ (blk'[b] = Unborn /\ blk[b].place = "trash")
        /\ Lists(blk', trash', "trash")
        /\ Len(trash) \in DOMAIN trash \ D =>
              trash' # <<>> /\ trash'[Len(trash')] = trash[Len(trash)]
    BY DestroyTrashStep
  <1>2. TypeOK'
    BY <1>1 DEF TypeOK, pvars, filevars, process
  <1>3. \A c \in Blocks : /\ (blk'[c].place = "queue" <=> blk[c].place = "queue")
                         /\ (blk'[c].place = "producer" <=> blk[c].place = "producer")
                         /\ (blk'[c].place = "writer" <=> blk[c].place = "writer")
    BY <1>1, UnbornType
  <1>4. ProducersOwn'
    BY <1>3, ProducersKeep DEF OwnInv, pvars, process
  <1>5. Lists(blk, queueStore, "queue")'
    <2>1. Lists(blk', queueStore, "queue")
      BY <1>3, ListsKeep DEF OwnInv, TypeOK
    <2> QED
      BY <2>1
  <1>6. WriterOwns'
    BY <1>1, <1>3 DEF OwnInv, WriterOwns, TypeOK, Working
  <1>7. LocksHeld'
    <2>1. handed \in Nat
      BY DEF TypeOK
    <2>2. \A b \in Blocks : blk'[b] = blk[b] \/ blk'[b] = Unborn
      BY <1>1
    <2>3. wpc' = "hand" => wpc = "hand"
      OBVIOUS
    <2>4. \A b \in Blocks : wpc = "hand" /\ blk'[b].locks # 0 /\ b = wblk => wpc' = "hand"
      OBVIOUS
    <2> QED
      BY <2>1, <2>2, <2>3, <2>4, UnbornType DEF OwnInv, LocksHeld
  <1> QED
    BY <1>1, <1>2, <1>4, <1>5, <1>6, <1>7 DEF OwnInv

\* What the destroy thread and a cleanup delete, and why the youngest block stays.
LEMMA DestroyableProperties ==
    ASSUME TypeOK
    PROVE  /\ Destroyable \in SUBSET DOMAIN trash /\ Destroyable \in SUBSET Nat
           /\ \A i \in Destroyable : blk[trash[i]].locks = 0
           /\ setup.destroyThread => \A i \in Destroyable : i # Len(trash)
           /\ Len(trash) \in Nat /\ DOMAIN trash = 1 .. Len(trash)
  <1>1. setup.trashKeep \in Nat /\ (setup.destroyThread => setup.trashKeep > 0)
    BY SetupType DEF TypeOK
  <1>2. Len(trash) \in Nat /\ DOMAIN trash = 1 .. Len(trash)
    BY DEF TypeOK
  <1>3. Destroyable \subseteq 1 .. Len(trash) - setup.trashKeep
    BY DEF Destroyable
  <1>4. ASSUME NEW i \in Destroyable
        PROVE  i \in Nat /\ i \in DOMAIN trash /\ (setup.destroyThread => i # Len(trash))
    <2>1. PICK keep \in Nat : keep = setup.trashKeep /\ (setup.destroyThread => keep > 0)
      BY <1>1
    <2>2. i \in 1 .. Len(trash) - keep
      BY <1>3, <2>1
    <2>3. i \in Nat /\ i \in DOMAIN trash
      BY <1>2, <2>2
    <2>4. keep > 0 => i # Len(trash)
      <3>1. \A n, k \in Nat : k > 0 => n \notin 1 .. n - k
        OBVIOUS
      <3> QED
        BY <1>2, <2>2, <3>1
    <2> QED
      BY <2>1, <2>3, <2>4
  <1>5. setup.destroyThread => \A i \in Destroyable : i # Len(trash)
    BY <1>4
  <1>6. \A i \in Destroyable : blk[trash[i]].locks = 0
    BY DEF Destroyable
  <1> QED
    BY <1>2, <1>4, <1>5, <1>6

\* The destroy thread takes blocks without locked packets and never the last one.
LEMMA DestroyBlockSet ==
    ASSUME TypeOK, DestroyBlock
    PROVE  \E D \in SUBSET DOMAIN trash :
              /\ DestroyTrash(D) /\ Len(trash) \in DOMAIN trash \ D
              /\ \A i \in D : blk[trash[i]].locks = 0
  <1>1. setup.destroyThread /\ Len(trash) >= DestroyMin
    BY DEF DestroyBlock
  <1>2. /\ Len(trash) \in Nat /\ DOMAIN trash = 1 .. Len(trash) /\ Len(trash) \in DOMAIN trash
        /\ 1 \in DOMAIN trash /\ Len(trash) # 1 /\ Head(trash) = trash[1]
    BY <1>1, Constants DEF TypeOK
  <1>3. CASE blk[Head(trash)].locks = 0 /\ DestroyTrash({1})
    <2>1. {1} \in SUBSET DOMAIN trash /\ Len(trash) \in DOMAIN trash \ {1}
      BY <1>2
    <2> QED
      BY <1>2, <1>3, <2>1
  <1>4. CASE Destroyable # {} /\ DestroyTrash({Min(Destroyable)})
    <2>1. Min(Destroyable) \in Destroyable
      BY <1>4, DestroyableProperties, MinProperties
    <2>2. PICK m \in Destroyable : m = Min(Destroyable)
      BY <2>1
    <2>3. /\ {m} \in SUBSET DOMAIN trash /\ Len(trash) \in DOMAIN trash \ {m}
          /\ \A i \in {m} : blk[trash[i]].locks = 0
      BY <1>1, <1>2, DestroyableProperties
    <2> QED
      BY <1>4, <2>2, <2>3
  <1> QED
    BY <1>3, <1>4 DEF DestroyBlock

\* The destroy thread keeps the owners.
LEMMA DestroyBlockOwn ==
    ASSUME TypeOK, OwnInv, DestroyBlock
    PROVE  TypeOK' /\ OwnInv'
  <1>1. PICK D \in SUBSET DOMAIN trash :
              DestroyTrash(D) /\ Len(trash) \in DOMAIN trash \ D
    BY DestroyBlockSet
  <1>2. /\ UNCHANGED <<pvars, queueStore, filevars, used, wblk, handed, popCount, process>>
        /\ wpc' = wpc
    BY DEF DestroyBlock, wvars
  <1> QED
    BY <1>1, <1>2, DestroyTrashOwn

\* The cleanup of the trash by the write thread keeps the owners.
LEMMA CleanupOwn ==
    ASSUME TypeOK, OwnInv, NEW k \in Nat, CleanupBlockStoreTrash(k)
    PROVE  TypeOK' /\ OwnInv'
  <1> DEFINE D == {i \in Destroyable : i <= k}
  <1>1. /\ wpc = "clean" /\ wpc' = "pop" /\ DestroyTrash(D)
        /\ UNCHANGED <<pvars, queueStore, filevars, used, wblk, handed, popCount, process>>
    BY DEF CleanupBlockStoreTrash
  <1>2. D \in SUBSET DOMAIN trash
    BY DestroyableProperties
  <1> HIDE DEF D
  <1> QED
    BY <1>1, <1>2, DestroyTrashOwn

\* Unlocking a packet changes only the locks of its block.
LEMMA UnlockPacketBlock ==
    ASSUME TypeOK, NEW b \in Blocks, UnlockPacket(b)
    PROVE  \E t \in BlockStore :
              /\ Becomes(b, t) /\ t.place = blk[b].place /\ t.inMem = blk[b].inMem
              /\ t.file = blk[b].file /\ t.zip = blk[b].zip /\ t.locks = blk[b].locks - 1
  <1>1. blk[b].locks > 0 /\ blk' = [blk EXCEPT ![b].locks = @ - 1] /\ blk[b] \in BlockStore
    BY DEF UnlockPacket, TypeOK
  <1>2. PICK l \in 0 .. Packets : l = blk[b].locks - 1
    BY <1>1, BlockFields, Constants
  <1>3. PICK t : t = [blk[b] EXCEPT !.locks = l]
    OBVIOUS
  <1>4. /\ t \in BlockStore /\ t.place = blk[b].place /\ t.inMem = blk[b].inMem
        /\ t.file = blk[b].file /\ t.zip = blk[b].zip /\ t.locks = l
    BY <1>1, <1>3, SetLocks
  <1>5. blk' = [blk EXCEPT ![b] = t]
    BY <1>1, <1>2, <1>3
  <1>6. Becomes(b, t)
    BY <1>4, <1>5, OneBlock DEF TypeOK
  <1> QED
    BY <1>2, <1>4, <1>6

\* Unlocking a packet keeps the owners.
LEMMA UnlockPacketOwn ==
    ASSUME TypeOK, OwnInv, NEW b \in Blocks, UnlockPacket(b)
    PROVE  TypeOK' /\ OwnInv'
  <1>1. PICK t \in BlockStore :
              Becomes(b, t) /\ t.place = blk[b].place /\ t.locks = blk[b].locks - 1
    BY UnlockPacketBlock
  <1>2. /\ blk[b].locks > 0
        /\ UNCHANGED <<pvars, queueStore, filevars, used, trashSize, trash, wvars, popCount, process>>
    BY DEF UnlockPacket
  <1>3. /\ blk' \in [Blocks -> BlockStore] /\ blk'[b] = t
        /\ \A c \in Blocks : c # b => blk'[c] = blk[c]
    BY <1>1 DEF Becomes
  <1>4. TypeOK'
    BY <1>2, <1>3 DEF TypeOK, pvars, filevars, wvars, process
  <1>5. blk[b].locks \in Nat /\ blk[b].locks # 0 /\ blk[b].place \in {"trash", "writer"}
    <2>1. blk[b] \in BlockStore
      BY DEF TypeOK
    <2>2. blk[b].locks \in Nat /\ blk[b].locks # 0
      BY <1>2, <2>1, BlockFields
    <2> QED
      BY <2>2, WriterBlock DEF OwnInv, LocksHeld, Working
  <1>6. ProducersOwn'
    BY <1>1, <1>2, <1>5, ProducersApart DEF process
  <1>7. Lists(blk, queueStore, "queue")' /\ Lists(blk, trash, "trash")'
    <2>1. Lists(blk', queueStore, "queue")
      BY <1>1, ListsApart DEF OwnInv, TypeOK
    <2>2. Lists(blk', trash, "trash")
      BY <1>1, ListsApart DEF OwnInv, TypeOK
    <2> QED
      BY <1>2, <2>1, <2>2
  <1>8. WriterOwns'
    BY <1>1, <1>2, <1>3 DEF OwnInv, WriterOwns, TypeOK, Working, wvars
  <1>9. LocksHeld'
    <2>1. handed \in Nat
      BY DEF TypeOK
    <2> QED
      BY <1>1, <1>2, <1>3, <1>5, <2>1 DEF OwnInv, LocksHeld, wvars
  <1> QED
    BY <1>4, <1>6, <1>7, <1>8, <1>9 DEF OwnInv

\* Asking for termination moves no block.
LEMMA TerminateOwn ==
    ASSUME TypeOK, OwnInv, Terminate \/ UNCHANGED vars
    PROVE  TypeOK' /\ OwnInv'
  <1>1. /\ UNCHANGED <<blk, pvars, queueStore, filevars, used, trashSize, trash, wvars, popCount, setup>>
        /\ terminating' \in BOOLEAN
    BY DEF Terminate, vars, process, TypeOK
  <1>2. TypeOK'
    BY <1>1 DEF TypeOK, pvars, filevars, wvars
  <1>3. WriterOwns' /\ LocksHeld'
    BY <1>1 DEF OwnInv, WriterOwns, LocksHeld, wvars
  <1>4. OwnInv'
    BY <1>1, <1>3, WriterOnly DEF pvars
  <1> QED
    BY <1>2, <1>4

\* At the start no block exists.
LEMMA OwnInit ==
    ASSUME Init
    PROVE  TypeOK /\ OwnInv
  <1>1. TypeOK
    <2>1. <<>> \in Seq(Blocks) /\ <<>> \in Seq(File)
      OBVIOUS
    <2>2. 0 \in 0 .. FileIdMax /\ 0 \in 0 .. Packets /\ 0 \in 0 .. CleanupEvery - 1
      BY Constants
    <2>3. blk \in [Blocks -> BlockStore]
      BY UnbornType DEF Init
    <2> QED
      BY <2>1, <2>2, <2>3 DEF Init, TypeOK
  <1>2. ProducersOwn
    BY UnbornType DEF Init, ProducersOwn
  <1>3. Lists(blk, queueStore, "queue") /\ Lists(blk, trash, "trash")
    BY UnbornType DEF Init, Lists
  <1>4. WriterOwns
    BY UnbornType DEF Init, WriterOwns, Working
  <1>5. LocksHeld
    BY UnbornType DEF Init, LocksHeld
  <1> QED
    BY <1>1, <1>2, <1>3, <1>4, <1>5 DEF OwnInv

\* Every step keeps the types and the owners.
LEMMA OwnStep ==
    ASSUME TypeOK, OwnInv, [Next]_vars
    PROVE  TypeOK' /\ OwnInv'
  <1>1. ASSUME NEW p \in Producers, Push(p) PROVE TypeOK' /\ OwnInv'
    BY <1>1, NewBlockStoreOwn, PushFileOwn, PushMemoryOwn, PushEnqueueOwn DEF Push
  <1>2. ASSUME WriteThread PROVE TypeOK' /\ OwnInv'
    <2>1. ASSUME NEW k \in 0 .. Len(trash), CleanupBlockStoreTrash(k) PROVE TypeOK' /\ OwnInv'
      <3>1. k \in Nat
        BY DEF TypeOK
      <3> QED
        BY <2>1, <3>1, CleanupOwn
    <2> QED
      BY <1>2, <2>1, PopFrontOwn, WriterOnlyOwn, PopFromFileOwn, WriterDeletesOwn,
         UncompressEndOwn, HandPacketOwn, TrashPushOwn DEF WriteThread
  <1> QED
    BY <1>1, <1>2, DestroyBlockOwn, UnlockPacketOwn, TerminateOwn DEF Next

\* The numbers of a deque's places that hold a block.
LEMMA ListsOnce ==
    ASSUME NEW s \in Seq(Blocks), NEW x, NEW b \in Blocks, Lists(blk, s, x)
    PROVE  Cardinality({i \in DOMAIN s : s[i] = b}) = IF blk[b].place = x THEN 1 ELSE 0
  <1> DEFINE I == {i \in DOMAIN s : s[i] = b}
  <1>1. CASE blk[b].place = x
    <2>1. PICK i \in DOMAIN s : s[i] = b
      BY <1>1 DEF Lists
    <2>2. I = {i}
      BY <2>1 DEF Lists
    <2>3. Cardinality(I) = 1
      BY <2>2, FS_Singleton
    <2> QED
      BY <1>1, <2>3
  <1>2. CASE blk[b].place # x
    <2>1. I = {}
      BY <1>2 DEF Lists
    <2>2. Cardinality(I) = 0
      BY <2>1, FS_EmptySet
    <2> QED
      BY <1>2, <2>2
  <1> QED
    BY <1>1, <1>2

\* The ownership invariant gives the properties of the runs.
LEMMA OwnersFromInv ==
    ASSUME TypeOK, OwnInv
    PROVE  OneOwner /\ WriterHasBlock
  <1>1. ASSUME NEW b \in Blocks
        PROVE  Cardinality({p \in Producers : pblk[p] = b}) = IF blk[b].place = "producer" THEN 1 ELSE 0
    <2> DEFINE P == {p \in Producers : pblk[p] = b}
    <2>1. CASE blk[b].place = "producer"
      <3>1. PICK p \in Producers : pblk[p] = b
        BY <2>1 DEF OwnInv, ProducersOwn
      <3>2. P = {p}
        BY <3>1, Constants DEF OwnInv, ProducersOwn
      <3>3. Cardinality(P) = 1
        BY <3>2, FS_Singleton
      <3> QED
        BY <2>1, <3>3
    <2>2. CASE blk[b].place # "producer"
      <3>1. P = {}
        BY <2>2, Constants DEF OwnInv, ProducersOwn
      <3>2. Cardinality(P) = 0
        BY <3>1, FS_EmptySet
      <3> QED
        BY <2>2, <3>2
    <2> QED
      BY <2>1, <2>2
  <1>2. ASSUME NEW b \in Blocks
        PROVE  /\ Cardinality({i \in DOMAIN queueStore : queueStore[i] = b})
                     = IF blk[b].place = "queue" THEN 1 ELSE 0
               /\ Cardinality({i \in DOMAIN trash : trash[i] = b})
                     = IF blk[b].place = "trash" THEN 1 ELSE 0
    BY ListsOnce DEF TypeOK, OwnInv
  <1>3. \A b \in Blocks : blk[b].place = "writer" => wblk = b
    BY DEF OwnInv, WriterOwns
  <1>4. OneOwner
    BY <1>1, <1>2, <1>3 DEF OneOwner
  <1>5. wpc \in {"leave", "account"} => blk[wblk].place = "trash"
    <2>1. trash # <<>> => Len(trash) \in DOMAIN trash
      BY DEF TypeOK
    <2> QED
      BY <2>1 DEF OwnInv, WriterOwns, Lists
  <1>6. WriterHasBlock
    BY <1>5 DEF OwnInv, WriterOwns, WriterHasBlock, Working
  <1> QED
    BY <1>4, <1>6

\* Every variable keeps its type, however many producers push and whichever reads, writes
\* and decompressions fail: the locks of a block never exceed its packets and no sum is
\* negative.
THEOREM BufferTypes == Spec => []TypeOK
  <1>1. Init => TypeOK /\ OwnInv
    BY OwnInit
  <1>2. TypeOK /\ OwnInv /\ [Next]_vars => TypeOK' /\ OwnInv'
    BY OwnStep
  <1> QED
    BY <1>1, <1>2, PTL DEF Spec

\* push, pop and the trash hand every block from one owner to the next: at every moment it
\* is with one producer, once in the queue, with the write thread or once in the trash.
THEOREM BufferOneOwner == Spec => []OneOwner
  <1>1. Init => TypeOK /\ OwnInv
    BY OwnInit
  <1>2. TypeOK /\ OwnInv /\ [Next]_vars => TypeOK' /\ OwnInv'
    BY OwnStep
  <1>3. TypeOK /\ OwnInv => OneOwner
    BY OwnersFromInv
  <1> QED
    BY <1>1, <1>2, <1>3, PTL DEF Spec

\* The write thread never works on a block that is gone from under it: the destroy thread
\* leaves the block alone whose size blockStoreTrashPush still reads.
THEOREM BufferWriterHasBlock == Spec => []WriterHasBlock
  <1>1. Init => TypeOK /\ OwnInv
    BY OwnInit
  <1>2. TypeOK /\ OwnInv /\ [Next]_vars => TypeOK' /\ OwnInv'
    BY OwnStep
  <1>3. TypeOK /\ OwnInv => WriterHasBlock
    BY OwnersFromInv
  <1> QED
    BY <1>1, <1>2, <1>3, PTL DEF Spec

-----------------------------------------------------------------------------
(* The spill files: every spilled block finds its file *)

\* Where a block is spilled: it is in its file from the time it is stored to the time the
\* write thread reads it back.
SpillInv ==
    \A b \in Blocks :
        /\ blk[b].place \in {"producer", "queue"} => (blk[b].inMem <=> blk[b].file = 0)
        /\ blk[b].place = "writer" => (blk[b].inMem <=> wpc # "wait")
        /\ blk[b].place = "writer" /\ wpc = "wait" => blk[b].file # 0
        /\ blk[b].place = "trash" => blk[b].inMem
        /\ \A p \in Producers : pblk[p] = b /\ ppc[p] # "enqueue" => blk[b].inMem

\* A block object whose packets are in a spill file.
OnDisk(r) == r.place # "none" /\ ~r.inMem

\* The blocks of the objects B that are in the file with a number.
UnreadIn(B, id) == {b \in Blocks : OnDisk(B[b]) /\ B[b].file = id}

\* The number of the file d places before the last one.
NumberAt(last, d) == IF d < last THEN last - d ELSE last - d + FileIdMax

\* Files are numbered one after the other, with 1 after FileIdMax, up to the last number given.
NumberedTo(fs, last) ==
    \A i \in DOMAIN fs : fs[i].id = NumberAt(last, Len(fs) - i)

\* Every spilled block has its file, and each file but the last is full and knows how many
\* of its blocks are unread, exactly unless a read has failed.
FilesServe(B, fs, exact) ==
    /\ \A b \in Blocks : OnDisk(B[b]) => \E i \in DOMAIN fs : fs[i].id = B[b].file
    /\ \A i \in DOMAIN fs :
          /\ fs[i].push - fs[i].pop >= Cardinality(UnreadIn(B, fs[i].id))
          /\ exact => fs[i].push - fs[i].pop = Cardinality(UnreadIn(B, fs[i].id))
          /\ i < Len(fs) => fs[i].full

FileInv ==
    /\ SpillInv
    /\ NumberedTo(fileStore, lastFileStoreId)
    /\ FilesServe(blk, fileStore, wpc # "dangling")
    /\ wpc = "dangling" => setup.readFaults

\* There are never more files than numbers for them, 2^32 - 1 in the code.
FewFiles == Len(fileStore) <= FileIdMax

-----------------------------------------------------------------------------
(* The numbers of the files *)

\* Numbers less than a full turn apart differ, and the next number is the one after the last.
LEMMA NumberAtProperties ==
    ASSUME NEW last \in 0 .. FileIdMax
    PROVE  /\ \A c, d \in 0 .. FileIdMax - 1 : NumberAt(last, c) = NumberAt(last, d) => c = d
           /\ \A d \in 0 .. FileIdMax - 1 :
                 NumberAt(IF last = FileIdMax THEN 1 ELSE last + 1, d + 1) = NumberAt(last, d)
           /\ NumberAt(IF last = FileIdMax THEN 1 ELSE last + 1, 0) =
                 IF last = FileIdMax THEN 1 ELSE last + 1
  <1>1. FileIdMax \in Nat \ {0}
    BY Constants
  <1>2. ASSUME NEW c \in 0 .. FileIdMax - 1, NEW d \in 0 .. FileIdMax - 1,
               NumberAt(last, c) = NumberAt(last, d)
        PROVE  c = d
    BY <1>1, <1>2 DEF NumberAt
  <1>3. ASSUME NEW d \in 0 .. FileIdMax - 1
        PROVE  NumberAt(IF last = FileIdMax THEN 1 ELSE last + 1, d + 1) = NumberAt(last, d)
    BY <1>1 DEF NumberAt
  <1>4. NumberAt(IF last = FileIdMax THEN 1 ELSE last + 1, 0) =
          IF last = FileIdMax THEN 1 ELSE last + 1
    BY <1>1 DEF NumberAt
  <1> QED
    BY <1>2, <1>3, <1>4

\* No two files have the same number.
LEMMA NumbersDiffer ==
    ASSUME NEW fs \in Seq(File), NEW last \in 0 .. FileIdMax, NumberedTo(fs, last),
           Len(fs) <= FileIdMax, NEW i \in DOMAIN fs, NEW j \in DOMAIN fs, fs[i].id = fs[j].id
    PROVE  i = j
  <1>1. Len(fs) \in Nat /\ i \in 1 .. Len(fs) /\ j \in 1 .. Len(fs) /\ FileIdMax \in Nat
    BY Constants
  <1>2. Len(fs) - i \in 0 .. FileIdMax - 1 /\ Len(fs) - j \in 0 .. FileIdMax - 1
    BY <1>1
  <1>3. NumberAt(last, Len(fs) - i) = NumberAt(last, Len(fs) - j)
    BY DEF NumberedTo
  <1>4. Len(fs) - i = Len(fs) - j
    BY <1>2, <1>3, NumberAtProperties
  <1> QED
    BY <1>1, <1>4

\* The next number follows the last.
LEMMA NumberedOpened ==
    ASSUME lastFileStoreId \in 0 .. FileIdMax, NEW fs \in Seq(File),
           NumberedTo(fs, lastFileStoreId), Len(fs) <= FileIdMax, NEW gs, Opened(fs, gs)
    PROVE  NumberedTo(gs, lastFileStoreId')
  <1>1. CASE SameFiles(fs, gs) /\ lastFileStoreId' = lastFileStoreId
    <2>1. DOMAIN gs = DOMAIN fs /\ Len(gs) = Len(fs) /\ \A i \in DOMAIN fs : gs[i].id = fs[i].id
      BY <1>1 DEF SameFiles, SameFile
    <2> QED
      BY <1>1, <2>1 DEF NumberedTo
  <1>2. CASE ~(SameFiles(fs, gs) /\ lastFileStoreId' = lastFileStoreId)
    <2>1. /\ gs \in Seq(File) /\ Len(gs) = Len(fs) + 1
          /\ \A i \in 1 .. Len(fs) : SameFile(fs[i], gs[i])
          /\ gs[Len(gs)].id = NextFileId /\ lastFileStoreId' = NextFileId
      BY <1>2 DEF Opened
    <2>2. Len(fs) \in Nat /\ DOMAIN fs = 1 .. Len(fs) /\ DOMAIN gs = 1 .. Len(fs) + 1
      BY <2>1
    <2>3. \A i \in 1 .. Len(fs) : gs[i].id = fs[i].id
      BY <2>1 DEF SameFile
    <2>4. NextFileId = IF lastFileStoreId = FileIdMax THEN 1 ELSE lastFileStoreId + 1
      BY DEF NextFileId
    <2>5. ASSUME NEW i \in 1 .. Len(fs) + 1
          PROVE  gs[i].id = NumberAt(NextFileId, Len(gs) - i)
      <3>1. CASE i = Len(fs) + 1
        <4>1. Len(gs) - i = 0 /\ gs[i].id = NextFileId
          BY <2>1, <2>2, <3>1
        <4> QED
          BY <2>4, <4>1, NumberAtProperties
      <3>2. CASE i # Len(fs) + 1
        <4>1. i \in 1 .. Len(fs)
          BY <2>2, <3>2
        <4>2. PICK d \in 0 .. FileIdMax - 1 : d = Len(fs) - i
          <5>1. FileIdMax \in Nat
            BY Constants
          <5>2. Len(fs) - i \in 0 .. FileIdMax - 1
            BY <2>2, <4>1, <5>1
          <5> QED
            BY <5>2
        <4>3. fs[i].id = NumberAt(lastFileStoreId, d)
          BY <2>2, <4>1, <4>2 DEF NumberedTo
        <4>4. Len(gs) - i = d + 1
          BY <2>1, <2>2, <4>1, <4>2
        <4>5. NumberAt(NextFileId, d + 1) = NumberAt(lastFileStoreId, d)
          BY <2>4, NumberAtProperties
        <4> QED
          BY <2>3, <4>1, <4>3, <4>4, <4>5
      <3> QED
        BY <3>1, <3>2
    <2> QED
      BY <2>1, <2>2, <2>5 DEF NumberedTo
  <1> QED
    BY <1>1, <1>2

\* Files that keep their numbers.
LEMMA NumberedSame ==
    ASSUME NEW fs \in Seq(File), NEW gs \in Seq(File), Len(gs) = Len(fs), NEW last,
           NumberedTo(fs, last), \A i \in 1 .. Len(fs) : gs[i].id = fs[i].id
    PROVE  NumberedTo(gs, last)
  <1>1. DOMAIN gs = DOMAIN fs /\ DOMAIN fs = 1 .. Len(fs)
    OBVIOUS
  <1> QED
    BY <1>1 DEF NumberedTo

\* Removing the first files keeps the numbers of the others.
LEMMA NumberedCleaned ==
    ASSUME NEW fs \in Seq(File), NEW gs \in Seq(File), NEW k \in 0 .. Len(fs), Len(gs) = Len(fs) - k,
           \A i \in 1 .. Len(fs) - k : gs[i] = fs[i + k], NEW last \in Nat, NumberedTo(fs, last)
    PROVE  NumberedTo(gs, last)
  <1>1. Len(fs) \in Nat /\ DOMAIN gs = 1 .. Len(fs) - k /\ DOMAIN fs = 1 .. Len(fs)
    OBVIOUS
  <1>2. ASSUME NEW i \in DOMAIN gs
        PROVE  gs[i].id = NumberAt(last, Len(gs) - i)
    <2>1. i + k \in DOMAIN fs /\ gs[i] = fs[i + k] /\ Len(fs) - (i + k) = Len(gs) - i
      BY <1>1
    <2> QED
      BY <2>1 DEF NumberedTo
  <1> QED
    BY <1>2 DEF NumberedTo

-----------------------------------------------------------------------------
(* Files and the blocks in them *)

\* The blocks to be read from a file can be counted.
LEMMA UnreadFinite ==
    ASSUME NEW B, NEW id
    PROVE  IsFiniteSet(UnreadIn(B, id)) /\ Cardinality(UnreadIn(B, id)) \in Nat
  <1>1. IsFiniteSet(Blocks)
    BY Constants, FS_Interval DEF Blocks
  <1>2. UnreadIn(B, id) \subseteq Blocks
    BY DEF UnreadIn
  <1> QED
    BY <1>1, <1>2, FS_Subset, FS_CardinalityType

\* A block object is or is not in a file as it was before.
Alike(r, t) ==
    /\ OnDisk(t) <=> OnDisk(r)
    /\ OnDisk(r) => t.file = r.file

\* Blocks that are alike are to be read from the same files.
LEMMA UnreadAlike ==
    ASSUME NEW B, NEW C, \A c \in Blocks : Alike(B[c], C[c]), NEW id
    PROVE  UnreadIn(C, id) = UnreadIn(B, id)
  BY DEF UnreadIn, Alike

\* Blocks come and go, isFull is asked of files: what is in them stays.
LEMMA ServeSame ==
    ASSUME NEW B, NEW C, NEW fs \in Seq(File), NEW gs, NEW e \in BOOLEAN, FilesServe(B, fs, e),
           SameFiles(fs, gs), \A c \in Blocks : Alike(B[c], C[c])
    PROVE  FilesServe(C, gs, e)
  <1>1. /\ DOMAIN gs = DOMAIN fs /\ Len(gs) = Len(fs)
        /\ \A i \in DOMAIN fs : /\ gs[i].id = fs[i].id /\ gs[i].push = fs[i].push
                                /\ gs[i].pop = fs[i].pop /\ (fs[i].full => gs[i].full)
    BY DEF SameFiles, SameFile
  <1>2. \A i \in DOMAIN fs : UnreadIn(C, gs[i].id) = UnreadIn(B, fs[i].id)
    BY <1>1, UnreadAlike
  <1>3. ASSUME NEW c \in Blocks, OnDisk(C[c]) PROVE \E i \in DOMAIN gs : gs[i].id = C[c].file
    BY <1>1, <1>3 DEF FilesServe, Alike
  <1>4. ASSUME NEW i \in DOMAIN gs
        PROVE  /\ gs[i].push - gs[i].pop >= Cardinality(UnreadIn(C, gs[i].id))
               /\ e => gs[i].push - gs[i].pop = Cardinality(UnreadIn(C, gs[i].id))
               /\ i < Len(gs) => gs[i].full
    BY <1>1, <1>2 DEF FilesServe
  <1> QED
    BY <1>3, <1>4 DEF FilesServe

\* A new file is empty and no block is in it: its number is not in use.
LEMMA ServeOpened ==
    ASSUME lastFileStoreId \in 0 .. FileIdMax, NEW B, NEW fs \in Seq(File), NEW e \in BOOLEAN,
           NumberedTo(fs, lastFileStoreId), FilesServe(B, fs, e),
           NEW gs, Opened(fs, gs), Len(gs) <= FileIdMax
    PROVE  FilesServe(B, gs, e)
  <1>1. CASE SameFiles(fs, gs)
    <2>1. \A c \in Blocks : Alike(B[c], B[c])
      BY DEF Alike
    <2> QED
      BY <1>1, <2>1, ServeSame
  <1>2. CASE ~SameFiles(fs, gs)
    <2>1. /\ gs \in Seq(File) /\ Len(gs) = Len(fs) + 1
          /\ \A i \in 1 .. Len(fs) : SameFile(fs[i], gs[i])
          /\ Len(fs) > 0 => gs[Len(fs)].full
          /\ gs[Len(gs)].push = 0 /\ gs[Len(gs)].pop = 0
          /\ lastFileStoreId' = NextFileId
      BY <1>2 DEF Opened
    <2>2. /\ Len(fs) \in Nat /\ DOMAIN fs = 1 .. Len(fs) /\ DOMAIN gs = 1 .. Len(fs) + 1
          /\ Len(fs) + 1 \in DOMAIN gs
          /\ \A i \in DOMAIN fs : i \in DOMAIN gs /\ i # Len(fs) + 1
          /\ \A i \in DOMAIN gs : i \in DOMAIN fs \/ i = Len(fs) + 1
      BY <2>1
    <2>3. \A i \in DOMAIN fs : /\ gs[i].id = fs[i].id /\ gs[i].push = fs[i].push
                               /\ gs[i].pop = fs[i].pop /\ (fs[i].full => gs[i].full)
      BY <2>1, <2>2 DEF SameFile
    <2>4. Len(fs) <= FileIdMax
      BY <2>1, <2>2, Constants
    <2>5. NumberedTo(gs, NextFileId) /\ NextFileId \in 0 .. FileIdMax
      BY <2>1, <2>4, NumberedOpened, NextFileIdType
    <2>6. \A i \in DOMAIN fs : gs[i].id # gs[Len(fs) + 1].id
      BY <2>1, <2>2, <2>5, NumbersDiffer
    <2>7. UnreadIn(B, gs[Len(fs) + 1].id) = {}
      BY <2>3, <2>6 DEF UnreadIn, FilesServe
    <2>8. Cardinality(UnreadIn(B, gs[Len(fs) + 1].id)) = 0
      BY <2>7, FS_EmptySet
    <2>9. \A b \in Blocks : OnDisk(B[b]) => \E i \in DOMAIN gs : gs[i].id = B[b].file
      BY <2>2, <2>3 DEF FilesServe
    <2>10. ASSUME NEW i \in DOMAIN gs
           PROVE  /\ gs[i].push - gs[i].pop >= Cardinality(UnreadIn(B, gs[i].id))
                  /\ e => gs[i].push - gs[i].pop = Cardinality(UnreadIn(B, gs[i].id))
                  /\ i < Len(gs) => gs[i].full
      <3>1. CASE i = Len(fs) + 1
        BY <2>1, <2>2, <2>8, <3>1
      <3>2. CASE i \in DOMAIN fs
        <4>1. /\ gs[i].push - gs[i].pop >= Cardinality(UnreadIn(B, gs[i].id))
              /\ e => gs[i].push - gs[i].pop = Cardinality(UnreadIn(B, gs[i].id))
          BY <2>3, <3>2 DEF FilesServe
        <4>2. gs[i].full
          <5>1. CASE i = Len(fs)
            BY <2>1, <2>2, <3>2, <5>1
          <5>2. CASE i # Len(fs)
            BY <2>2, <2>3, <3>2, <5>2 DEF FilesServe
          <5> QED
            BY <5>1, <5>2
        <4> QED
          BY <4>1, <4>2
      <3> QED
        BY <2>2, <3>1, <3>2
    <2> QED
      BY <2>9, <2>10 DEF FilesServe
  <1> QED
    BY <1>1, <1>2

\* A block that was in memory is stored in the last file.
LEMMA ServeStored ==
    ASSUME NEW B, NEW C, NEW fs \in Seq(File), fs # <<>>, NEW e \in BOOLEAN, FilesServe(B, fs, e),
           NEW last \in 0 .. FileIdMax, NumberedTo(fs, last), Len(fs) <= FileIdMax,
           NEW gs, StoredInLast(fs, gs), NEW b \in Blocks,
           ~OnDisk(B[b]), OnDisk(C[b]), C[b].file = fs[Len(fs)].id,
           \A c \in Blocks : c # b => C[c] = B[c]
    PROVE  FilesServe(C, gs, e)
  <1> DEFINE n == Len(fs)
  <1>1. /\ n \in Nat /\ DOMAIN fs = 1 .. n /\ DOMAIN gs = 1 .. n /\ n \in DOMAIN fs /\ Len(gs) = n
        /\ gs \in Seq(File)
    BY DEF StoredInLast
  <1>2. /\ \A i \in DOMAIN fs : i # n => gs[i] = fs[i]
        /\ gs[n].id = fs[n].id /\ gs[n].push = fs[n].push + 1 /\ gs[n].pop = fs[n].pop
    BY <1>1 DEF StoredInLast
  <1>3. fs[n].push \in Nat /\ fs[n].pop \in Nat
    BY <1>1, FileFields
  <1>4. UnreadIn(C, fs[n].id) = UnreadIn(B, fs[n].id) \cup {b} /\ b \notin UnreadIn(B, fs[n].id)
    BY DEF UnreadIn
  <1>5. Cardinality(UnreadIn(C, fs[n].id)) = Cardinality(UnreadIn(B, fs[n].id)) + 1
    BY <1>4, UnreadFinite, FS_AddElement
  <1>6. \A i \in DOMAIN fs : i # n => fs[i].id # fs[n].id
    BY <1>1, NumbersDiffer
  <1>7. \A i \in DOMAIN fs : i # n => UnreadIn(C, fs[i].id) = UnreadIn(B, fs[i].id)
    BY <1>6 DEF UnreadIn
  <1> HIDE DEF n
  <1>8. ASSUME NEW c \in Blocks, OnDisk(C[c]) PROVE \E i \in DOMAIN gs : gs[i].id = C[c].file
    <2>1. CASE c = b
      BY <1>1, <1>2, <2>1 DEF n
    <2>2. CASE c # b
      <3>1. PICK i \in DOMAIN fs : fs[i].id = C[c].file
        BY <1>8, <2>2 DEF FilesServe
      <3> QED
        BY <1>1, <1>2, <3>1
    <2> QED
      BY <2>1, <2>2
  <1>9. ASSUME NEW i \in DOMAIN gs
        PROVE  /\ gs[i].push - gs[i].pop >= Cardinality(UnreadIn(C, gs[i].id))
               /\ e => gs[i].push - gs[i].pop = Cardinality(UnreadIn(C, gs[i].id))
               /\ i < Len(gs) => gs[i].full
    <2>1. CASE i = n
      <3>1. /\ fs[n].push - fs[n].pop >= Cardinality(UnreadIn(B, fs[n].id))
            /\ e => fs[n].push - fs[n].pop = Cardinality(UnreadIn(B, fs[n].id))
            /\ Cardinality(UnreadIn(B, fs[n].id)) \in Nat
        BY <1>1, UnreadFinite DEF FilesServe
      <3>2. /\ gs[n].push - gs[n].pop >= Cardinality(UnreadIn(C, gs[n].id))
            /\ e => gs[n].push - gs[n].pop = Cardinality(UnreadIn(C, gs[n].id))
        <4>1. PICK u \in Nat, x \in Nat, y \in Nat :
                 /\ u = Cardinality(UnreadIn(B, fs[n].id)) /\ x = fs[n].push /\ y = fs[n].pop
          BY <1>3, <3>1
        <4>2. gs[n].push = x + 1 /\ gs[n].pop = y /\ Cardinality(UnreadIn(C, gs[n].id)) = u + 1
          BY <1>2, <1>5, <4>1
        <4>3. x - y >= u /\ (e => x - y = u)
          BY <3>1, <4>1
        <4>4. x + 1 - y >= u + 1 /\ (e => x + 1 - y = u + 1)
          BY <4>3
        <4> QED
          BY <4>2, <4>4
      <3> QED
        BY <1>1, <2>1, <3>2
    <2>2. CASE i # n
      BY <1>1, <1>2, <1>7, <2>2 DEF FilesServe, n
    <2> QED
      BY <2>1, <2>2
  <1> QED
    BY <1>8, <1>9 DEF FilesServe

\* A block is read back from its file, or given up: d tells whether the file counts it.
LEMMA ServeRead ==
    ASSUME fileStore \in Seq(File), NEW B, NEW C, NEW e \in BOOLEAN, FilesServe(B, fileStore, e),
           NEW last \in 0 .. FileIdMax, NumberedTo(fileStore, last), Len(fileStore) <= FileIdMax,
           NEW b \in Blocks, OnDisk(B[b]), ~OnDisk(C[b]), \A c \in Blocks : c # b => C[c] = B[c],
           NEW i \in DOMAIN fileStore, fileStore[i].id = B[b].file, NEW d \in {0, 1}, ReadFrom(i, d),
           NEW x \in BOOLEAN, x => e /\ d = 1
    PROVE  FilesServe(C, fileStore', x)
  <1> DEFINE fs == fileStore
             gs == fileStore'
             n == Len(fs)
  <1>1. /\ n \in Nat /\ DOMAIN fs = 1 .. n /\ DOMAIN gs = 1 .. n /\ Len(gs) = n
        /\ \A j \in DOMAIN fs : fs[j].push \in Nat /\ fs[j].pop \in Nat
    BY FileFields DEF ReadFrom
  <1>2. /\ \A j \in DOMAIN fs : j # i => gs[j] = fs[j]
        /\ gs[i].id = fs[i].id /\ gs[i].push = fs[i].push /\ gs[i].pop = fs[i].pop + d
        /\ gs[i].full = fs[i].full
    BY <1>1 DEF ReadFrom
  <1> HIDE DEF n
  <1>3. UnreadIn(C, fs[i].id) = UnreadIn(B, fs[i].id) \ {b} /\ b \in UnreadIn(B, fs[i].id)
    BY DEF UnreadIn
  <1>4. Cardinality(UnreadIn(C, fs[i].id)) = Cardinality(UnreadIn(B, fs[i].id)) - 1
    <2>1. PICK U, V : U = UnreadIn(B, fs[i].id) /\ V = UnreadIn(C, fs[i].id)
      OBVIOUS
    <2>2. IsFiniteSet(U) /\ V = U \ {b} /\ b \in U
      BY <1>3, <2>1, UnreadFinite
    <2>3. Cardinality(V) = Cardinality(U) - 1
      BY <2>2, FS_RemoveElement
    <2> QED
      BY <2>1, <2>3
  <1>5. \A j \in DOMAIN fs : j # i => fs[j].id # fs[i].id
    BY NumbersDiffer
  <1>6. \A j \in DOMAIN fs : j # i => UnreadIn(C, fs[j].id) = UnreadIn(B, fs[j].id)
    BY <1>5 DEF UnreadIn
  <1>7. ASSUME NEW c \in Blocks, OnDisk(C[c]) PROVE \E j \in DOMAIN gs : gs[j].id = C[c].file
    <2>1. PICK j \in DOMAIN fs : fs[j].id = C[c].file
      BY <1>7 DEF FilesServe
    <2>2. gs[j].id = fs[j].id
      BY <1>2
    <2> QED
      BY <1>1, <2>1, <2>2
  <1>8. ASSUME NEW j \in DOMAIN gs
        PROVE  /\ gs[j].push - gs[j].pop >= Cardinality(UnreadIn(C, gs[j].id))
               /\ x => gs[j].push - gs[j].pop = Cardinality(UnreadIn(C, gs[j].id))
               /\ j < Len(gs) => gs[j].full
    <2>1. CASE j = i
      <3>1. PICK u \in Nat, y \in Nat, z \in Nat :
               /\ u = Cardinality(UnreadIn(B, fs[i].id)) /\ y = fs[i].push /\ z = fs[i].pop
        BY <1>1, UnreadFinite
      <3>2. gs[i].push = y /\ gs[i].pop = z + d /\ Cardinality(UnreadIn(C, gs[i].id)) = u - 1
        BY <1>2, <1>4, <3>1
      <3>3. y - z >= u /\ (e => y - z = u)
        BY <1>1, <3>1 DEF FilesServe
      <3>4. y - (z + d) >= u - 1
        BY <3>3
      <3>5. x => y - (z + d) = u - 1
        BY <3>3
      <3>6. i < Len(gs) => gs[i].full
        BY <1>1, <1>2 DEF FilesServe, n
      <3> QED
        BY <2>1, <3>2, <3>4, <3>5, <3>6
    <2>2. CASE j # i
      <3>1. j \in DOMAIN fs /\ gs[j] = fs[j] /\ UnreadIn(C, gs[j].id) = UnreadIn(B, fs[j].id)
        BY <1>1, <1>2, <1>6, <2>2
      <3> QED
        BY <1>1, <3>1 DEF FilesServe, n
    <2> QED
      BY <2>1, <2>2
  <1> QED
    BY <1>7, <1>8 DEF FilesServe

\* cleanupFileStore removes files that no block needs.
LEMMA ServeCleaned ==
    ASSUME NEW B, NEW fs \in Seq(File), NEW e \in BOOLEAN, FilesServe(B, fs, e)
    PROVE  FilesServe(B, Cleaned(fs), e)
  <1> DEFINE gs == Cleaned(fs)
  <1>1. PICK k \in 0 .. Len(fs) :
             /\ gs \in Seq(File)
             /\ Len(gs) = Len(fs) - k
             /\ \A i \in 1 .. Len(fs) - k : gs[i] = fs[i + k]
             /\ \A i \in 1 .. k : fs[i].full /\ fs[i].push = fs[i].pop
    BY CleanedProperties
  <1> HIDE DEF gs
  <1>2. /\ Len(fs) \in Nat /\ DOMAIN fs = 1 .. Len(fs) /\ DOMAIN gs = 1 .. Len(fs) - k
        /\ \A i \in DOMAIN gs : i + k \in DOMAIN fs /\ gs[i] = fs[i + k]
        /\ \A i \in DOMAIN gs : i < Len(gs) => i + k < Len(fs)
        /\ \A i \in DOMAIN fs : i \notin 1 .. k => i - k \in DOMAIN gs /\ gs[i - k] = fs[i]
        /\ \A i \in 1 .. k : i \in DOMAIN fs
    <2>1. Len(fs) \in Nat /\ DOMAIN fs = 1 .. Len(fs)
      OBVIOUS
    <2>2. DOMAIN gs = 1 .. Len(fs) - k
      BY <1>1, <2>1
    <2>3. \A i \in 1 .. Len(fs) - k : i + k \in 1 .. Len(fs) /\ (i < Len(fs) - k => i + k < Len(fs))
      BY <2>1
    <2>4. ASSUME NEW i \in 1 .. Len(fs), i \notin 1 .. k
          PROVE  i - k \in 1 .. Len(fs) - k /\ gs[i - k] = fs[i]
      <3>1. PICK j \in 1 .. Len(fs) - k : j = i - k /\ j + k = i
        BY <2>1, <2>4
      <3> QED
        BY <1>1, <3>1
    <2>5. \A i \in 1 .. k : i \in 1 .. Len(fs)
      BY <2>1
    <2> QED
      BY <1>1, <2>1, <2>2, <2>3, <2>4, <2>5
  <1>3. ASSUME NEW i \in 1 .. k PROVE UnreadIn(B, fs[i].id) = {}
    <2>1. fs[i].push \in Nat /\ fs[i].pop \in Nat /\ fs[i].push = fs[i].pop
      BY <1>1, <1>2, FileFields
    <2>2. fs[i].push - fs[i].pop >= Cardinality(UnreadIn(B, fs[i].id))
      BY <1>2 DEF FilesServe
    <2>3. Cardinality(UnreadIn(B, fs[i].id)) = 0
      BY <2>1, <2>2, UnreadFinite
    <2> QED
      BY <2>3, UnreadFinite, FS_EmptySet
  <1>4. ASSUME NEW b \in Blocks, OnDisk(B[b]) PROVE \E i \in DOMAIN gs : gs[i].id = B[b].file
    <2>1. PICK i \in DOMAIN fs : fs[i].id = B[b].file
      BY <1>4 DEF FilesServe
    <2>2. i \notin 1 .. k
      BY <1>3, <1>4, <2>1 DEF UnreadIn
    <2>3. i - k \in DOMAIN gs /\ gs[i - k] = fs[i]
      BY <1>2, <2>2
    <2> QED
      BY <2>1, <2>3
  <1>5. ASSUME NEW i \in DOMAIN gs
        PROVE  /\ gs[i].push - gs[i].pop >= Cardinality(UnreadIn(B, gs[i].id))
               /\ e => gs[i].push - gs[i].pop = Cardinality(UnreadIn(B, gs[i].id))
               /\ i < Len(gs) => gs[i].full
    BY <1>2 DEF FilesServe
  <1>6. FilesServe(B, gs, e)
    BY <1>4, <1>5 DEF FilesServe
  <1> QED
    BY <1>6 DEF gs

-----------------------------------------------------------------------------
(* Every step keeps the invariant *)

\* A step that leaves the files alone.
LEMMA FilesAlone ==
    ASSUME TypeOK, FileInv, UNCHANGED <<fileStore, lastFileStoreId, setup>>,
           wpc' = "dangling" <=> wpc = "dangling",
           \A c \in Blocks : Alike(blk[c], blk'[c]), SpillInv'
    PROVE  FileInv'
  <1>1. SameFiles(fileStore, fileStore)
    BY DEF SameFiles, SameFile, TypeOK
  <1>2. PICK e \in BOOLEAN : e = (wpc # "dangling")
    OBVIOUS
  <1>3. FilesServe(blk', fileStore, e)
    BY <1>1, <1>2, ServeSame DEF FileInv, TypeOK
  <1>4. FilesServe(blk, fileStore, wpc # "dangling")'
    BY <1>2, <1>3
  <1> QED
    BY <1>4 DEF FileInv

\* A new block is in no file.
LEMMA NewBlockStoreFiles ==
    ASSUME TypeOK, OwnInv, FileInv, NEW p \in Producers, NewBlockStore(p)
    PROVE  FileInv'
  <1>1. PICK b \in Blocks, t \in BlockStore :
              /\ blk[b] = Unborn /\ Becomes(b, t)
              /\ t.place = "producer" /\ t.inMem = TRUE /\ t.file = 0
              /\ pblk' = [pblk EXCEPT ![p] = b]
    BY NewBlockStoreBlock
  <1>2. /\ ppc' = [ppc EXCEPT ![p] = "push"]
        /\ UNCHANGED <<fileStore, lastFileStoreId, wpc, setup>>
    BY DEF NewBlockStore, filevars, wvars, process
  <1>3. blk'[b] = t /\ \A c \in Blocks : c # b => blk'[c] = blk[c]
    BY <1>1 DEF Becomes
  <1>4. \A c \in Blocks : Alike(blk[c], blk'[c])
    BY <1>1, <1>3, UnbornType DEF Alike, OnDisk
  <1>5. SpillInv'
    <2>1. \A q \in Producers : q # p => pblk'[q] = pblk[q] /\ ppc'[q] = ppc[q]
      BY <1>1, <1>2 DEF TypeOK
    <2>2. pblk'[p] = b /\ \A q \in Producers : pblk[q] # b
      BY <1>1, UnbornType, Constants DEF TypeOK, OwnInv, ProducersOwn
    <2>3. ASSUME NEW c \in Blocks, c # b, NEW q \in Producers, pblk'[q] = c, ppc'[q] # "enqueue"
          PROVE  blk'[c].inMem
      BY <1>3, <2>1, <2>2, <2>3 DEF FileInv, SpillInv
    <2> QED
      BY <1>1, <1>2, <1>3, <2>3 DEF FileInv, SpillInv
  <1> QED
    BY <1>2, <1>4, <1>5, FilesAlone

\* Steps of push in memory touch no file.
LEMMA PushMemoryFiles ==
    ASSUME TypeOK, OwnInv, FileInv, NEW p \in Producers,
           PushCheck(p) \/ PushMemoryCheck(p) \/ PushMemoryAdd(p)
    PROVE  FileInv'
  <1>1. /\ ppc[p] # "enqueue" /\ UNCHANGED <<blk, pblk, fileStore, lastFileStoreId, wpc, setup>>
        /\ \A q \in Producers : q # p => ppc'[q] = ppc[q]
    BY DEF PushCheck, PushMemoryCheck, PushMemoryAdd, filevars, wvars, process, TypeOK
  <1>2. \A c \in Blocks : Alike(blk[c], blk'[c])
    BY <1>1 DEF Alike
  <1>3. SpillInv'
    BY <1>1 DEF FileInv, SpillInv
  <1> QED
    BY <1>1, <1>2, <1>3, FilesAlone

\* Putting a block in the queue touches no file.
LEMMA PushEnqueueFiles ==
    ASSUME TypeOK, OwnInv, FileInv, NEW p \in Producers, PushEnqueue(p)
    PROVE  FileInv'
  <1>1. PICK b : b = pblk[p]
    OBVIOUS
  <1>2. /\ ppc[p] = "enqueue" /\ blk' = [blk EXCEPT ![b].place = "queue"]
        /\ UNCHANGED <<fileStore, lastFileStoreId, wpc, setup>>
        /\ \A q \in Producers : q # p => pblk'[q] = pblk[q] /\ ppc'[q] = ppc[q]
        /\ pblk'[p] = NoBlock
    BY <1>1 DEF PushEnqueue, filevars, wvars, process, TypeOK
  <1>3. b \in Blocks /\ blk[b].place = "producer" /\ "queue" \in Places
    BY <1>1, <1>2 DEF TypeOK, OwnInv, ProducersOwn, Places
  <1>4. /\ Becomes(b, blk'[b]) /\ blk'[b].place = "queue" /\ blk'[b].inMem = blk[b].inMem
        /\ blk'[b].file = blk[b].file
    BY <1>2, <1>3, PlaceChanges DEF TypeOK
  <1>5. \A c \in Blocks : c # b => blk'[c] = blk[c]
    BY <1>4 DEF Becomes
  <1>6. \A c \in Blocks : Alike(blk[c], blk'[c])
    BY <1>3, <1>4, <1>5 DEF Alike, OnDisk
  <1>7. SpillInv'
    <2>1. ASSUME NEW c \in Blocks, NEW q \in Producers, pblk'[q] = c, ppc'[q] # "enqueue"
          PROVE  blk'[c].inMem
      <3>1. q # p
        BY <1>2, <2>1, Constants
      <3>2. pblk[q] = c /\ ppc[q] # "enqueue"
        BY <1>2, <2>1, <3>1
      <3>3. blk[c].inMem
        BY <3>2 DEF FileInv, SpillInv
      <3> QED
        BY <1>4, <1>5, <3>3
    <2> QED
      BY <1>2, <1>3, <1>4, <1>5, <2>1 DEF FileInv, SpillInv
  <1> QED
    BY <1>2, <1>6, <1>7, FilesAlone

\* The steps of push that open a file or store a block in one.
LEMMA PushFileFiles ==
    ASSUME TypeOK, OwnInv, FileInv, FewFiles, FewFiles', NEW p \in Producers,
           PushAskFile(p) \/ PushToDisk(p)
    PROVE  FileInv'
  <1>1. PICK b : b = pblk[p]
    OBVIOUS
  <1>2. /\ ppc[p] # "idle" /\ ppc[p] # "enqueue" /\ UNCHANGED <<pblk, wpc, setup>>
    BY DEF PushAskFile, PushToDisk, wvars, process
  <1>3. b \in Blocks /\ blk[b].place = "producer" /\ blk[b].inMem
    <2>1. b \in Blocks /\ blk[b].place = "producer"
      BY <1>1, <1>2 DEF TypeOK, OwnInv, ProducersOwn
    <2> QED
      BY <1>1, <1>2, <2>1 DEF FileInv, SpillInv
  <1>4. AskedOnly(p) \/ OpenedOnly(p) \/ Spilled(p, b)
    BY <1>1, <1>3, PushFileStep
  <1>5. PICK e \in BOOLEAN : e = (wpc # "dangling")
    OBVIOUS
  <1>6. /\ fileStore \in Seq(File) /\ lastFileStoreId \in 0 .. FileIdMax
        /\ NumberedTo(fileStore, lastFileStoreId) /\ FilesServe(blk, fileStore, e)
        /\ Len(fileStore) <= FileIdMax /\ Len(fileStore') <= FileIdMax
    BY <1>5 DEF TypeOK, FileInv, FewFiles
  <1>7. /\ NumberedTo(fileStore', lastFileStoreId') /\ FilesServe(blk', fileStore', e)
        /\ \/ UNCHANGED blk
           \/ /\ ppc' = [ppc EXCEPT ![p] = "enqueue"] /\ Becomes(b, blk'[b])
              /\ blk'[b].place = blk[b].place /\ blk'[b].inMem = FALSE /\ blk'[b].file # 0
    <2>1. CASE AskedOnly(p)
      <3>1. SameFiles(fileStore, fileStore') /\ UNCHANGED <<blk, lastFileStoreId>>
        BY <2>1 DEF AskedOnly
      <3>2. NumberedTo(fileStore', lastFileStoreId)
        BY <1>6, <3>1, NumberedSame DEF SameFiles, SameFile
      <3>3. \A c \in Blocks : Alike(blk[c], blk[c])
        BY DEF Alike
      <3>4. FilesServe(blk, fileStore', e)
        BY <1>6, <3>1, <3>3, ServeSame
      <3> QED
        BY <3>1, <3>2, <3>4
    <2>2. CASE OpenedOnly(p)
      <3>1. Opened(fileStore, fileStore') /\ UNCHANGED blk
        BY <2>2 DEF OpenedOnly
      <3>2. NumberedTo(fileStore', lastFileStoreId')
        BY <1>6, <3>1, NumberedOpened
      <3>3. FilesServe(blk, fileStore', e)
        BY <1>6, <3>1, ServeOpened
      <3> QED
        BY <3>1, <3>2, <3>3
    <2>3. CASE Spilled(p, b)
      <3>1. PICK open \in Seq(File) :
              /\ Opened(fileStore, open) /\ StoredInLast(open, fileStore')
              /\ ppc' = [ppc EXCEPT ![p] = "enqueue"]
              /\ Becomes(b, blk'[b])
              /\ blk'[b].place = blk[b].place /\ blk'[b].inMem = FALSE
              /\ blk'[b].file = open[Len(open)].id
        BY <2>3 DEF Spilled
      <3>2. /\ fileStore' \in Seq(File) /\ Len(fileStore') = Len(open) /\ Len(open) \in Nat
            /\ open # <<>> /\ \A i \in 1 .. Len(open) : fileStore'[i].id = open[i].id
        BY <3>1 DEF StoredInLast, Opened
      <3>3. NumberedTo(open, lastFileStoreId') /\ lastFileStoreId' \in 0 .. FileIdMax
        <4>1. lastFileStoreId' \in 0 .. FileIdMax
          BY <1>6, <3>1, NextFileIdType DEF Opened
        <4> QED
          BY <1>6, <3>1, <4>1, NumberedOpened
      <3>4. FilesServe(blk, open, e)
        BY <1>6, <3>1, <3>2, ServeOpened
      <3>5. NumberedTo(fileStore', lastFileStoreId')
        BY <3>2, <3>3, NumberedSame
      <3>6. ~OnDisk(blk[b]) /\ OnDisk(blk'[b]) /\ \A c \in Blocks : c # b => blk'[c] = blk[c]
        BY <1>3, <3>1 DEF OnDisk, Becomes
      <3>7. FilesServe(blk', fileStore', e)
        BY <1>3, <1>6, <3>1, <3>2, <3>3, <3>4, <3>6, ServeStored
      <3>8. open[Len(open)].id # 0
        <4>1. open[Len(open)] \in File
          BY <3>2
        <4> QED
          BY <4>1, FileFields
      <3> QED
        BY <3>1, <3>5, <3>7, <3>8
    <2> QED
      BY <1>4, <2>1, <2>2, <2>3
  <1>8. FilesServe(blk, fileStore, wpc # "dangling")'
    BY <1>2, <1>5, <1>7
  <1>9. SpillInv'
    <2>1. \A q \in Producers : q # p => ppc'[q] = ppc[q]
      BY <1>4 DEF AskedOnly, OpenedOnly, Spilled, TypeOK
    <2>2. CASE UNCHANGED blk
      BY <1>2, <2>1, <2>2 DEF FileInv, SpillInv
    <2>3. CASE /\ ppc' = [ppc EXCEPT ![p] = "enqueue"] /\ Becomes(b, blk'[b])
               /\ blk'[b].place = blk[b].place /\ blk'[b].inMem = FALSE /\ blk'[b].file # 0
      <3>1. \A c \in Blocks : c # b => blk'[c] = blk[c]
        BY <2>3 DEF Becomes
      <3>2. ppc'[p] = "enqueue" /\ \A q \in Producers : pblk[q] = b => q = p
        BY <1>1, <1>3, <2>3, Constants DEF TypeOK, OwnInv, ProducersOwn
      <3>3. ASSUME NEW c \in Blocks, NEW q \in Producers, pblk'[q] = c, ppc'[q] # "enqueue"
            PROVE  blk'[c].inMem
        BY <1>2, <2>1, <3>1, <3>2, <3>3 DEF FileInv, SpillInv
      <3> QED
        BY <1>2, <1>3, <2>3, <3>1, <3>3 DEF FileInv, SpillInv
    <2> QED
      BY <1>7, <2>2, <2>3
  <1> QED
    BY <1>2, <1>7, <1>8, <1>9 DEF FileInv

\* pop finds the file of a spilled block: the front of the queue is never lost.
LEMMA FrontHasFile ==
    ASSUME TypeOK, OwnInv, FileInv, queueStore # <<>>
    PROVE  LET b == Head(queueStore)
           IN /\ b \in Blocks /\ blk[b].place = "queue"
              /\ ~(blk[b].file # 0 /\ FindFile(blk[b].file) = 0)
  <1>1. PICK b \in Blocks : b = Head(queueStore) /\ blk[b].place = "queue"
    <2>1. Head(queueStore) = queueStore[1] /\ 1 \in DOMAIN queueStore /\ Head(queueStore) \in Blocks
      BY DEF TypeOK
    <2> QED
      BY <2>1 DEF OwnInv, Lists
  <1>2. ASSUME blk[b].file # 0 PROVE FindFile(blk[b].file) # 0
    <2>1. OnDisk(blk[b])
      BY <1>1, <1>2 DEF FileInv, SpillInv, OnDisk
    <2>2. PICK i \in DOMAIN fileStore : fileStore[i].id = blk[b].file
      BY <2>1 DEF FileInv, FilesServe
    <2> QED
      BY <2>2, FindFileProperties DEF TypeOK
  <1> QED
    BY <1>1, <1>2

\* Taking the first block touches no file.
LEMMA PopFrontFiles ==
    ASSUME TypeOK, OwnInv, FileInv, PopFront
    PROVE  FileInv' /\ \A c \in Blocks : blk'[c].place = "none" <=> blk[c].place = "none"
  <1>1. PICK b \in Blocks :
              /\ b = Head(queueStore) /\ blk[b].place = "queue"
              /\ ~(blk[b].file # 0 /\ FindFile(blk[b].file) = 0)
    BY FrontHasFile DEF PopFront
  <1>2. /\ blk' = [blk EXCEPT ![b].place = "writer"] /\ wblk' = b
        /\ wpc' = IF blk[b].file # 0 THEN "wait" ELSE "count"
        /\ wpc = "pop" /\ UNCHANGED <<ppc, pblk, fileStore, lastFileStoreId, setup>>
    BY <1>1 DEF PopFront, pvars, filevars, process
  <1>3. "writer" \in Places
    BY DEF Places
  <1>4. /\ Becomes(b, blk'[b]) /\ blk'[b].place = "writer" /\ blk'[b].inMem = blk[b].inMem
        /\ blk'[b].file = blk[b].file
    BY <1>2, <1>3, PlaceChanges DEF TypeOK
  <1>5. \A c \in Blocks : c # b => blk'[c] = blk[c]
    BY <1>4 DEF Becomes
  <1>6. \A c \in Blocks : Alike(blk[c], blk'[c])
    BY <1>1, <1>4, <1>5 DEF Alike, OnDisk
  <1>7. SpillInv'
    <2>1. \A c \in Blocks : blk[c].place # "writer"
      BY <1>2 DEF OwnInv, WriterOwns, Working
    <2>2. \A p \in Producers : pblk[p] # b
      BY <1>1, Constants DEF OwnInv, ProducersOwn
    <2>3. blk[b].inMem <=> blk[b].file = 0
      BY <1>1 DEF FileInv, SpillInv
    <2> QED
      BY <1>2, <1>4, <1>5, <2>1, <2>2, <2>3 DEF FileInv, SpillInv
  <1>8. FileInv'
    BY <1>2, <1>6, <1>7, FilesAlone
  <1> QED
    BY <1>1, <1>4, <1>5, <1>8

\* Steps of the write thread with all blocks and files as they were.
LEMMA WriterOnlyFiles ==
    ASSUME TypeOK, OwnInv, FileInv,
           \/ PopEmpty \/ UncompressBegin \/ TrashLeaveUsed \/ TrashAccount
           \/ SkipCleanup \/ WriteThreadStop \/ Terminate \/ UNCHANGED vars
    PROVE  FileInv'
  <1>1. UNCHANGED <<blk, ppc, pblk, setup, fileStore, lastFileStoreId>>
    BY DEF PopEmpty, UncompressBegin, TrashLeaveUsed, TrashAccount, SkipCleanup,
           WriteThreadStop, Terminate, vars, pvars, filevars, process
  <1>2. (wpc' = "dangling" <=> wpc = "dangling") /\ (wpc' = "wait" <=> wpc = "wait")
    BY DEF PopEmpty, UncompressBegin, TrashLeaveUsed, TrashAccount, SkipCleanup,
           WriteThreadStop, Terminate, vars, wvars
  <1>3. \A c \in Blocks : Alike(blk[c], blk'[c])
    BY <1>1 DEF Alike
  <1>4. SpillInv'
    BY <1>1, <1>2 DEF FileInv, SpillInv
  <1> QED
    BY <1>1, <1>2, <1>3, <1>4, FilesAlone

\* Counting pops removes only files that no block needs.
LEMMA PopCountFiles ==
    ASSUME TypeOK, OwnInv, FileInv, PopCount
    PROVE  FileInv'
  <1>1. /\ wpc = "count" /\ wpc' = "unzip"
        /\ fileStore' = fileStore \/ fileStore' = Cleaned(fileStore)
        /\ UNCHANGED <<blk, ppc, pblk, setup, lastFileStoreId>>
    BY DEF PopCount, pvars, process
  <1>2. SpillInv'
    BY <1>1 DEF FileInv, SpillInv
  <1>3. PICK e \in BOOLEAN : e = TRUE
    OBVIOUS
  <1>4. /\ fileStore \in Seq(File) /\ lastFileStoreId \in Nat
        /\ NumberedTo(fileStore, lastFileStoreId) /\ FilesServe(blk, fileStore, e)
    <2>1. fileStore \in Seq(File) /\ lastFileStoreId \in 0 .. FileIdMax
      BY DEF TypeOK
    <2>2. (wpc # "dangling") = e
      BY <1>1, <1>3
    <2> QED
      BY <2>1, <2>2 DEF FileInv
  <1>5. NumberedTo(Cleaned(fileStore), lastFileStoreId)
    BY <1>4, CleanedProperties, NumberedCleaned
  <1>6. FilesServe(blk, Cleaned(fileStore), e)
    BY <1>4, ServeCleaned
  <1>7. NumberedTo(fileStore', lastFileStoreId') /\ FilesServe(blk', fileStore', e)
    BY <1>1, <1>4, <1>5, <1>6
  <1>8. FilesServe(blk, fileStore, wpc # "dangling")'
    BY <1>1, <1>3, <1>7
  <1> QED
    BY <1>1, <1>2, <1>7, <1>8 DEF FileInv

\* A read of the block that waits for its file, done or failed.
LEMMA PopFromFileFilesKept ==
    ASSUME TypeOK, OwnInv, FileInv, FewFiles, PopFromFile \/ PopFromFileFail
    PROVE  FileInv'
  <1>1. PICK b : b = wblk
    OBVIOUS
  <1>2. /\ wpc = "wait" /\ UNCHANGED <<ppc, pblk, setup, lastFileStoreId>>
        /\ PopFromFile => wpc' = "count" /\ blk' = [blk EXCEPT ![b].inMem = TRUE]
        /\ PopFromFileFail => /\ wpc' = "dangling" /\ blk' = [blk EXCEPT ![b] = Unborn]
                              /\ setup.readFaults
    BY <1>1 DEF PopFromFile, PopFromFileFail, pvars, process
  <1>3. /\ b \in Blocks /\ blk[b].place = "writer" /\ ~blk[b].inMem /\ blk[b].file # 0
        /\ OnDisk(blk[b])
    <2>1. b \in Blocks /\ blk[b].place = "writer"
      BY <1>1, <1>2, WriterBlock DEF Working
    <2> QED
      BY <1>2, <2>1 DEF FileInv, SpillInv, OnDisk
  <1>4. PICK i \in DOMAIN fileStore : i = FindFile(blk[b].file) /\ fileStore[i].id = blk[b].file
    <2>1. \E j \in DOMAIN fileStore : fileStore[j].id = blk[b].file
      BY <1>3 DEF FileInv, FilesServe
    <2> QED
      BY <2>1, FindFileProperties DEF TypeOK
  <1>5. PICK d \in {0, 1} : ReadFrom(i, d) /\ (PopFromFile => d = 1)
    BY <1>1, <1>4, PopFromFileFiles
  <1>6. PICK t : /\ Becomes(b, t)
                 /\ \/ PopFromFile /\ t.place = "writer" /\ t.inMem
                    \/ PopFromFileFail /\ t = Unborn
    <2>1. CASE PopFromFile
      <3>1. /\ Becomes(b, blk'[b]) /\ blk'[b].place = "writer" /\ blk'[b].inMem = TRUE
        BY <1>2, <1>3, <2>1, InMemChanges DEF TypeOK
      <3> QED
        BY <2>1, <3>1
    <2>2. CASE PopFromFileFail
      <3>1. Becomes(b, Unborn)
        BY <1>2, <1>3, <2>2, UnbornType, OneBlock DEF TypeOK
      <3> QED
        BY <2>2, <3>1
    <2> QED
      BY <2>1, <2>2
  <1>7. blk'[b] = t /\ (\A c \in Blocks : c # b => blk'[c] = blk[c]) /\ ~OnDisk(blk'[b])
    BY <1>6, UnbornType DEF Becomes, OnDisk
  <1>8. PICK e \in BOOLEAN : e = TRUE
    OBVIOUS
  <1>9. PICK x \in BOOLEAN : x = (wpc' # "dangling")
    OBVIOUS
  <1>10. x => e /\ d = 1
    BY <1>2, <1>5, <1>8, <1>9
  <1>11. /\ fileStore \in Seq(File) /\ lastFileStoreId \in 0 .. FileIdMax
         /\ NumberedTo(fileStore, lastFileStoreId) /\ FilesServe(blk, fileStore, e)
         /\ Len(fileStore) <= FileIdMax
    BY <1>2, <1>8 DEF TypeOK, FileInv, FewFiles
  <1>12. FilesServe(blk', fileStore', x)
    BY <1>3, <1>4, <1>5, <1>7, <1>10, <1>11, ServeRead
  <1>13. FilesServe(blk, fileStore, wpc # "dangling")'
    BY <1>9, <1>12
  <1>14. NumberedTo(fileStore', lastFileStoreId')
    <2>1. /\ fileStore' \in Seq(File) /\ Len(fileStore') = Len(fileStore)
          /\ \A j \in 1 .. Len(fileStore) : fileStore'[j].id = fileStore[j].id
      BY <1>5 DEF ReadFrom
    <2> QED
      BY <1>2, <1>11, <2>1, NumberedSame
  <1>15. SpillInv'
    <2>1. \A c \in Blocks : c # b => blk[c].place # "writer"
      BY <1>1 DEF OwnInv, WriterOwns
    <2>2. \A p \in Producers : pblk[p] # b
      BY <1>3, Constants DEF OwnInv, ProducersOwn
    <2> QED
      BY <1>2, <1>6, <1>7, <2>1, <2>2, UnbornType DEF FileInv, SpillInv
  <1> QED
    BY <1>2, <1>13, <1>14, <1>15 DEF FileInv

\* Steps on the block in work or on one in the trash, all of which are in memory.
LEMMA InMemoryFiles ==
    ASSUME TypeOK, OwnInv, FileInv, NEW b, NEW t, Becomes(b, t),
           blk[b].place \in {"writer", "trash"}, blk[b].inMem,
           t = Unborn \/ (t.place \in {"writer", "trash"} /\ t.inMem),
           wpc # "wait", wpc' # "wait", wpc' = "dangling" <=> wpc = "dangling",
           UNCHANGED <<ppc, pblk, fileStore, lastFileStoreId, setup>>
    PROVE  FileInv'
  <1>1. blk'[b] = t /\ \A c \in Blocks : c # b => blk'[c] = blk[c]
    BY DEF Becomes
  <1>2. ~OnDisk(blk[b]) /\ ~OnDisk(t)
    BY UnbornType DEF OnDisk
  <1>3. \A c \in Blocks : Alike(blk[c], blk'[c])
    BY <1>1, <1>2 DEF Alike
  <1>4. SpillInv'
    <2>1. \A p \in Producers : pblk[p] # b
      BY Constants DEF OwnInv, ProducersOwn, Becomes
    <2> QED
      BY <1>1, <2>1, UnbornType DEF FileInv, SpillInv
  <1> QED
    BY <1>3, <1>4, FilesAlone

\* The write thread works on blocks that are out of their files.
LEMMA WorkFiles ==
    ASSUME TypeOK, OwnInv, FileInv, UncompressEnd \/ UncompressFail \/ HandPacket \/ TrashPush
    PROVE  FileInv'
  <1>1. PICK b : b = wblk
    OBVIOUS
  <1>2. /\ wpc \in {"unzipping", "hand"} /\ wpc' \in {"hand", "leave", "clean"}
        /\ UNCHANGED <<ppc, pblk, fileStore, lastFileStoreId, setup>>
    BY DEF UncompressEnd, UncompressFail, HandPacket, TrashPush, pvars, filevars, process
  <1>3. b \in Blocks /\ blk[b].place = "writer" /\ blk[b].inMem
    <2>1. b \in Blocks /\ blk[b].place = "writer"
      BY <1>1, <1>2, WriterBlock DEF Working
    <2> QED
      BY <1>2, <2>1 DEF FileInv, SpillInv
  <1>4. PICK t : Becomes(b, t) /\ (t = Unborn \/ (t.place \in {"writer", "trash"} /\ t.inMem))
    <2>1. CASE UncompressEnd
      <3>1. PICK z \in BOOLEAN : z = FALSE /\ blk' = [blk EXCEPT ![b].zip = z]
        BY <1>1, <2>1 DEF UncompressEnd
      <3>2. Becomes(b, blk'[b]) /\ blk'[b].place = blk[b].place /\ blk'[b].inMem = blk[b].inMem
        BY <1>3, <3>1, ZipChanges DEF TypeOK
      <3> QED
        BY <1>3, <3>2
    <2>2. CASE UncompressFail
      <3>1. blk' = [blk EXCEPT ![b] = Unborn]
        BY <1>1, <2>2 DEF UncompressFail
      <3> QED
        BY <1>3, <3>1, UnbornType, OneBlock DEF TypeOK
    <2>3. CASE HandPacket
      <3>1. blk' = blk \/ blk' = [blk EXCEPT ![b].locks = @ + 1]
        BY <1>1, <2>3 DEF HandPacket
      <3>2. CASE blk' = blk
        <4>1. Becomes(b, blk[b])
          BY <1>3, <3>2 DEF Becomes, TypeOK
        <4> QED
          BY <1>3, <4>1
      <3>3. CASE blk' = [blk EXCEPT ![b].locks = @ + 1]
        <4>1. wpc = "hand" /\ handed < Packets
          BY <2>3 DEF HandPacket
        <4>2. blk[b].locks \in Nat /\ blk[b].locks <= handed /\ handed \in Nat
          BY <1>1, <1>3, <4>1, BlockFields DEF TypeOK, OwnInv, LocksHeld
        <4>3. PICK l \in 0 .. Packets : l = blk[b].locks + 1
          BY <4>1, <4>2, Constants
        <4>4. blk' = [blk EXCEPT ![b].locks = l]
          BY <3>3, <4>3
        <4>5. Becomes(b, blk'[b]) /\ blk'[b].place = blk[b].place /\ blk'[b].inMem = blk[b].inMem
          BY <1>3, <4>4, LocksChanges DEF TypeOK
        <4> QED
          BY <1>3, <4>5
      <3> QED
        BY <3>1, <3>2, <3>3
    <2>4. CASE TrashPush
      <3>1. blk' = [blk EXCEPT ![b].place = "trash"] /\ "trash" \in Places
        BY <1>1, <2>4 DEF TrashPush, Places
      <3>2. Becomes(b, blk'[b]) /\ blk'[b].place = "trash" /\ blk'[b].inMem = blk[b].inMem
        BY <1>3, <3>1, PlaceChanges DEF TypeOK
      <3> QED
        BY <1>3, <3>2
    <2> QED
      BY <2>1, <2>2, <2>3, <2>4
  <1> QED
    BY <1>2, <1>3, <1>4, InMemoryFiles

\* Unlocking a packet touches no file.
LEMMA UnlockPacketFiles ==
    ASSUME TypeOK, OwnInv, FileInv, NEW b \in Blocks, UnlockPacket(b)
    PROVE  FileInv'
  <1>1. PICK t \in BlockStore :
              /\ Becomes(b, t) /\ t.place = blk[b].place /\ t.inMem = blk[b].inMem
              /\ t.file = blk[b].file
    BY UnlockPacketBlock
  <1>2. UNCHANGED <<ppc, pblk, fileStore, lastFileStoreId, wpc, setup>>
    BY DEF UnlockPacket, pvars, filevars, wvars, process
  <1>3. blk'[b] = t /\ \A c \in Blocks : c # b => blk'[c] = blk[c]
    BY <1>1 DEF Becomes
  <1>4. \A c \in Blocks : Alike(blk[c], blk'[c])
    BY <1>1, <1>3 DEF Alike, OnDisk
  <1>5. SpillInv'
    BY <1>1, <1>2, <1>3 DEF FileInv, SpillInv
  <1> QED
    BY <1>2, <1>4, <1>5, FilesAlone

\* Destroying blocks of the trash touches no file.
LEMMA DestroyTrashFiles ==
    ASSUME TypeOK, OwnInv, FileInv, NEW D \in SUBSET DOMAIN trash, DestroyTrash(D),
           UNCHANGED <<ppc, pblk, fileStore, lastFileStoreId, setup>>,
           wpc' = "dangling" <=> wpc = "dangling", wpc' = "wait" <=> wpc = "wait"
    PROVE  FileInv'
  <1>1. \A b \in Blocks : blk'[b] = blk[b] \/ (blk'[b] = Unborn /\ blk[b].place = "trash")
    BY DestroyTrashStep
  <1>2. \A c \in Blocks : Alike(blk[c], blk'[c])
    BY <1>1, UnbornType DEF Alike, OnDisk, FileInv, SpillInv
  <1>3. SpillInv'
    <2>1. \A p \in Producers : pblk[p] \in Blocks => blk[pblk[p]].place # "trash"
      BY Constants DEF OwnInv, ProducersOwn
    <2>2. ASSUME NEW c \in Blocks, NEW p \in Producers, pblk'[p] = c, ppc'[p] # "enqueue"
          PROVE  blk'[c].inMem
      BY <1>1, <2>1, <2>2 DEF FileInv, SpillInv
    <2> QED
      BY <1>1, <2>2, UnbornType DEF FileInv, SpillInv
  <1> QED
    BY <1>2, <1>3, FilesAlone

\* At the start there are no files.
LEMMA FileInit ==
    ASSUME Init
    PROVE  FileInv
  <1>1. SpillInv
    BY Constants, UnbornType DEF Init, SpillInv
  <1>2. NumberedTo(fileStore, lastFileStoreId)
    BY DEF Init, NumberedTo
  <1>3. FilesServe(blk, fileStore, wpc # "dangling")
    BY UnbornType DEF Init, FilesServe, OnDisk
  <1> QED
    BY <1>1, <1>2, <1>3 DEF Init, FileInv

\* Every step keeps the files and the blocks in accord.
LEMMA FileStep ==
    ASSUME TypeOK, OwnInv, FileInv, FewFiles, FewFiles', [Next]_vars
    PROVE  FileInv'
  <1>1. ASSUME NEW p \in Producers, Push(p) PROVE FileInv'
    BY <1>1, NewBlockStoreFiles, PushFileFiles, PushMemoryFiles, PushEnqueueFiles DEF Push
  <1>2. ASSUME WriteThread PROVE FileInv'
    <2>1. ASSUME NEW k \in 0 .. Len(trash), CleanupBlockStoreTrash(k) PROVE FileInv'
      <3>1. PICK D \in SUBSET DOMAIN trash : DestroyTrash(D)
        BY <2>1, DestroyableProperties DEF CleanupBlockStoreTrash
      <3>2. /\ wpc = "clean" /\ wpc' = "pop"
            /\ UNCHANGED <<ppc, pblk, fileStore, lastFileStoreId, setup>>
        BY <2>1 DEF CleanupBlockStoreTrash, pvars, filevars, process
      <3> QED
        BY <3>1, <3>2, DestroyTrashFiles
    <2> QED
      BY <1>2, <2>1, PopFrontFiles, WriterOnlyFiles, PopFromFileFilesKept, PopCountFiles, WorkFiles
         DEF WriteThread
  <1>3. ASSUME DestroyBlock PROVE FileInv'
    <2>1. PICK D \in SUBSET DOMAIN trash : DestroyTrash(D)
      BY <1>3, DestroyBlockSet
    <2>2. UNCHANGED <<ppc, pblk, fileStore, lastFileStoreId, setup, wpc>>
      BY <1>3 DEF DestroyBlock, pvars, filevars, wvars, process
    <2> QED
      BY <2>1, <2>2, DestroyTrashFiles
  <1> QED
    BY <1>1, <1>2, <1>3, UnlockPacketFiles, WriterOnlyFiles DEF Next

\* The invariant gives the property of the run.
LEMMA ServesFromInv ==
    ASSUME TypeOK, FileInv, FewFiles
    PROVE  FilesServeBlocks
  <1>1. \A f : Unread(f) = UnreadIn(blk, f.id)
    BY DEF Unread, UnreadIn, OnDisk
  <1>2. \A b \in Blocks : blk[b].place # "none" /\ ~blk[b].inMem => FindFile(blk[b].file) # 0
    BY FindFileProperties DEF TypeOK, FileInv, FilesServe, OnDisk
  <1>3. ASSUME NEW i \in DOMAIN fileStore
        PROVE  /\ fileStore[i].push - fileStore[i].pop >= Cardinality(Unread(fileStore[i]))
               /\ wpc # "dangling" =>
                     fileStore[i].push - fileStore[i].pop = Cardinality(Unread(fileStore[i]))
               /\ i < Len(fileStore) => fileStore[i].full
    BY <1>1 DEF FileInv, FilesServe
  <1>4. \A i, j \in DOMAIN fileStore : fileStore[i].id = fileStore[j].id => i = j
    BY NumbersDiffer DEF TypeOK, FileInv, FewFiles
  <1> QED
    BY <1>2, <1>3, <1>4 DEF FilesServeBlocks

\* What may delete a block.
LEMMA DeleteStep ==
    ASSUME TypeOK, OwnInv, FileInv, Next, NEW b \in Blocks,
           blk[b].place # "none", blk'[b].place = "none"
    PROVE  \/ blk[b].place = "trash" /\ blk[b].locks = 0
           \/ wpc \in {"unzipping", "wait"} /\ b = wblk
  <1>1. ASSUME NEW p \in Producers, Push(p) PROVE FALSE
    <2>1. CASE NewBlockStore(p)
      BY <2>1, NewBlockStoreBlock DEF Becomes
    <2>2. CASE PushAskFile(p) \/ PushToDisk(p)
      <3>1. pblk[p] \in Blocks
        BY <2>2 DEF PushAskFile, PushToDisk, TypeOK, OwnInv, ProducersOwn
      <3>2. AskedOnly(p) \/ OpenedOnly(p) \/ Spilled(p, pblk[p])
        BY <2>2, <3>1, PushFileStep
      <3> QED
        BY <3>2 DEF AskedOnly, OpenedOnly, Spilled, Becomes
    <2>3. CASE PushCheck(p) \/ PushMemoryCheck(p) \/ PushMemoryAdd(p)
      BY <2>3 DEF PushCheck, PushMemoryCheck, PushMemoryAdd
    <2>4. CASE PushEnqueue(p)
      <3>1. pblk[p] \in Blocks /\ "queue" \in Places /\ blk' = [blk EXCEPT ![pblk[p]].place = "queue"]
        BY <2>4 DEF PushEnqueue, TypeOK, OwnInv, ProducersOwn, Places
      <3> QED
        BY <3>1, PlaceChanges DEF Becomes, TypeOK
    <2> QED
      BY <1>1, <2>1, <2>2, <2>3, <2>4 DEF Push
  <1>2. ASSUME NEW D \in SUBSET DOMAIN trash, DestroyTrash(D), \A i \in D : blk[trash[i]].locks = 0
        PROVE  blk[b].place = "trash" /\ blk[b].locks = 0
    BY <1>2, DestroyTrashStep
  <1>3. ASSUME DestroyBlock PROVE blk[b].place = "trash" /\ blk[b].locks = 0
    BY <1>2, <1>3, DestroyBlockSet
  <1>4. ASSUME NEW k, CleanupBlockStoreTrash(k) PROVE blk[b].place = "trash" /\ blk[b].locks = 0
    <2>1. PICK D \in SUBSET DOMAIN trash : DestroyTrash(D) /\ \A i \in D : blk[trash[i]].locks = 0
      BY <1>4, DestroyableProperties DEF CleanupBlockStoreTrash
    <2> QED
      BY <1>2, <2>1
  <1>5. ASSUME NEW c \in Blocks, UnlockPacket(c) PROVE FALSE
    BY <1>5, UnlockPacketBlock DEF Becomes
  <1>6. ASSUME PopFront PROVE FALSE
    BY <1>6, PopFrontFiles
  <1>7. ASSUME \/ PopEmpty \/ PopCount \/ UncompressBegin \/ TrashLeaveUsed \/ TrashAccount
               \/ SkipCleanup \/ WriteThreadStop \/ Terminate
        PROVE  FALSE
    BY <1>7 DEF PopEmpty, PopCount, UncompressBegin, TrashLeaveUsed, TrashAccount, SkipCleanup,
                WriteThreadStop, Terminate
  <1>8. ASSUME PopFromFile \/ PopFromFileFail \/ UncompressFail
        PROVE  wpc \in {"unzipping", "wait"} /\ b = wblk
    <2>1. wpc \in {"unzipping", "wait"} /\ wblk \in Blocks
      BY <1>8, WriterBlock DEF PopFromFile, PopFromFileFail, UncompressFail, Working
    <2>2. \A c \in Blocks : c # wblk => blk'[c] = blk[c]
      BY <1>8, <2>1 DEF PopFromFile, PopFromFileFail, UncompressFail, TypeOK
    <2> QED
      BY <2>1, <2>2
  <1>9. ASSUME UncompressEnd \/ HandPacket \/ TrashPush PROVE FALSE
    <2>1. wpc \in Working /\ wblk \in Blocks /\ blk[wblk] \in BlockStore
      BY <1>9, WriterBlock DEF UncompressEnd, HandPacket, TrashPush, Working
    <2>2. \A c \in Blocks : c # wblk => blk'[c] = blk[c]
      BY <1>9, <2>1 DEF UncompressEnd, HandPacket, TrashPush, TypeOK
    <2>3. wpc' \in Working => blk'[wblk].place = "writer"
      BY <1>9, OwnStep DEF UncompressEnd, HandPacket, TrashPush, OwnInv, WriterOwns, Next
    <2>4. wpc' = "leave" => blk'[wblk].place = "trash"
      <3>1. ASSUME TrashPush PROVE blk'[wblk].place = "trash"
        BY <2>1, <3>1, PlaceChanges DEF TrashPush, Places, TypeOK
      <3> QED
        BY <1>9, <3>1 DEF UncompressEnd, HandPacket, Working
    <2>5. wpc' \in Working \/ wpc' = "leave"
      BY <1>9 DEF UncompressEnd, HandPacket, TrashPush, Working
    <2> QED
      BY <2>2, <2>3, <2>4, <2>5
  <1>10. ASSUME WriteThread
         PROVE  \/ blk[b].place = "trash" /\ blk[b].locks = 0
                \/ wpc \in {"unzipping", "wait"} /\ b = wblk
    BY <1>10, <1>4, <1>6, <1>7, <1>8, <1>9 DEF WriteThread
  <1> QED
    BY <1>1, <1>3, <1>5, <1>7, <1>10 DEF Next

-----------------------------------------------------------------------------
(* The theorems *)

\* As long as there are no more files than numbers for them, every spilled block finds its
\* file, a file knows how many of its blocks are unread, and only the last file takes
\* blocks: cleanupFileStore never removes a file that pop still needs.
THEOREM SpillFilesServe == Spec /\ []FewFiles => []FilesServeBlocks
  <1>1. Init => TypeOK /\ OwnInv /\ FileInv
    BY OwnInit, FileInit
  <1>2. TypeOK /\ OwnInv /\ FileInv /\ FewFiles /\ FewFiles' /\ [Next]_vars
          => TypeOK' /\ OwnInv' /\ FileInv'
    BY OwnStep, FileStep
  <1>3. TypeOK /\ FileInv /\ FewFiles => FilesServeBlocks
    BY ServesFromInv
  <1> QED
    BY <1>1, <1>2, <1>3, PTL DEF Spec

\* Nothing but a spill file that cannot be read makes the write thread work on a deleted
\* block: pop never finds the file of a block gone, and the destroy thread never deletes the
\* block in work.
THEOREM DanglingOnlyByFault == Spec /\ []FewFiles => []DanglingOnlyByReadFault
  <1>1. Init => TypeOK /\ OwnInv /\ FileInv
    BY OwnInit, FileInit
  <1>2. TypeOK /\ OwnInv /\ FileInv /\ FewFiles /\ FewFiles' /\ [Next]_vars
          => TypeOK' /\ OwnInv' /\ FileInv'
    BY OwnStep, FileStep
  <1>3. TypeOK /\ OwnInv /\ FileInv => DanglingOnlyByReadFault
    BY OwnersFromInv DEF DanglingOnlyByReadFault, FileInv
  <1> QED
    BY <1>1, <1>2, <1>3, PTL DEF Spec

\* A block is deleted from the trash and unlocked, or by the write thread when its
\* decompression or its read from a spill file failed; never in another way.
THEOREM DeletedOnlyUnused == Spec /\ []FewFiles => DeletedWhenUnused
  <1>1. Init => TypeOK /\ OwnInv /\ FileInv
    BY OwnInit, FileInit
  <1>2. TypeOK /\ OwnInv /\ FileInv /\ FewFiles /\ FewFiles' /\ [Next]_vars
          => TypeOK' /\ OwnInv' /\ FileInv'
    BY OwnStep, FileStep
  <1>3. TypeOK /\ OwnInv /\ FileInv /\ [Next]_vars =>
          [\A b \in Blocks : blk[b].place # "none" /\ blk'[b].place = "none" =>
              \/ blk[b].place = "trash" /\ blk[b].locks = 0
              \/ wpc \in {"unzipping", "wait"} /\ b = wblk]_vars
    BY DeleteStep
  <1> QED
    BY <1>1, <1>2, <1>3, PTL DEF Spec, DeletedWhenUnused

-----------------------------------------------------------------------------
(* The space that the files occupy *)

\* The units of the files can be counted.
LEMMA UnitsFinite ==
    ASSUME NEW fs \in Seq(File)
    PROVE  IsFiniteSet(Units(fs)) /\ TotalSize(fs) \in Nat
  <1>1. Len(fs) \in Nat /\ DOMAIN fs = 1 .. Len(fs)
    OBVIOUS
  <1>2. PICK f : f = [i \in DOMAIN fs |-> {i} \X (1 .. fs[i].size)]
    OBVIOUS
  <1>3. PICK S : S = {{i} \X (1 .. fs[i].size) : i \in DOMAIN fs}
    OBVIOUS
  <1>4. f \in Surjection(DOMAIN fs, S)
    BY <1>2, <1>3 DEF Surjection
  <1>5. IsFiniteSet(DOMAIN fs)
    BY <1>1, FS_Interval
  <1>6. IsFiniteSet(S)
    BY <1>4, <1>5, FS_Surjection
  <1>7. ASSUME NEW T \in S PROVE IsFiniteSet(T)
    <2>1. PICK i \in DOMAIN fs : T = {i} \X (1 .. fs[i].size)
      BY <1>3, <1>7
    <2>2. PICK m \in Nat : m = fs[i].size
      BY <1>1, <2>1, FileFields
    <2>3. IsFiniteSet({i})
      BY FS_Singleton
    <2>4. IsFiniteSet(1 .. m)
      BY <2>2, FS_Interval
    <2> QED
      BY <2>1, <2>2, <2>3, <2>4, FS_Product
  <1>8. IsFiniteSet(UNION S)
    BY <1>6, <1>7, FS_UNION
  <1>9. IsFiniteSet(Units(fs))
    BY <1>3, <1>8 DEF Units
  <1> QED
    BY <1>9, FS_CardinalityType DEF Units, TotalSize

\* A new file occupies nothing.
LEMMA UnitsOpened ==
    ASSUME NEW fs \in Seq(File), NEW gs, Opened(fs, gs)
    PROVE  TotalSize(gs) = TotalSize(fs)
  <1>1. CASE SameFiles(fs, gs)
    BY <1>1, SameUnits
  <1>2. CASE ~SameFiles(fs, gs)
    <2>1. /\ gs \in Seq(File) /\ Len(gs) = Len(fs) + 1
          /\ \A i \in 1 .. Len(fs) : SameFile(fs[i], gs[i])
          /\ gs[Len(gs)].size = 0
      BY <1>2 DEF Opened
    <2>2. /\ Len(fs) \in Nat /\ DOMAIN fs = 1 .. Len(fs) /\ DOMAIN gs = 1 .. Len(fs) + 1
          /\ \A i \in 1 .. Len(fs) : gs[i].size = fs[i].size
          /\ gs[Len(fs) + 1].size = 0
      BY <2>1 DEF SameFile
    <2>3. 1 .. gs[Len(fs) + 1].size = {}
      BY <2>2
    <2>4. \A i \in DOMAIN gs : i \in DOMAIN fs \/ i = Len(fs) + 1
      BY <2>2
    <2>5. DOMAIN fs \subseteq DOMAIN gs
      BY <2>2
    <2>6. \A x \in Units(gs) : x \in Units(fs)
      <3> TAKE x \in Units(gs)
      <3>1. PICK i \in DOMAIN gs : x \in {i} \X (1 .. gs[i].size)
        BY DEF Units
      <3>2. i \in DOMAIN fs
        BY <2>3, <2>4, <3>1
      <3>3. x \in {i} \X (1 .. fs[i].size)
        BY <2>2, <3>1, <3>2
      <3> QED
        BY <3>2, <3>3 DEF Units
    <2>7. \A x \in Units(fs) : x \in Units(gs)
      <3> TAKE x \in Units(fs)
      <3>1. PICK i \in DOMAIN fs : x \in {i} \X (1 .. fs[i].size)
        BY DEF Units
      <3>2. x \in {i} \X (1 .. gs[i].size)
        BY <2>2, <3>1
      <3> QED
        BY <2>5, <3>1, <3>2 DEF Units
    <2>8. Units(gs) = Units(fs)
      BY <2>6, <2>7
    <2> QED
      BY <2>8 DEF Units, TotalSize
  <1> QED
    BY <1>1, <1>2

\* A block that is stored occupies no more than its size in memory.
LEMMA UnitsStored ==
    ASSUME NEW gs \in Seq(File), gs # <<>>, NEW hs, StoredInLast(gs, hs)
    PROVE  TotalSize(hs) <= TotalSize(gs) + RawSize
  <1>1. PICK n : n = Len(gs)
    OBVIOUS
  <1>2. n \in Nat /\ n >= 1 /\ DOMAIN gs = 1 .. n /\ n \in DOMAIN gs
    BY <1>1
  <1>3. hs \in Seq(File) /\ DOMAIN hs = DOMAIN gs
    BY <1>1, <1>2 DEF StoredInLast
  <1>4. PICK a, c : a = gs[n].size /\ c = hs[n].size
    OBVIOUS
  <1>5. a \in Nat /\ c \in Nat /\ RawSize \in Nat
    BY <1>2, <1>3, <1>4, FileFields, Constants
  <1>6. a <= c /\ c <= a + RawSize
    <2>1. a + ZipSize <= c /\ c <= a + RawSize
      BY <1>1, <1>2, <1>4 DEF StoredInLast
    <2> QED
      BY <1>5, <2>1, Constants
  <1>7. \A i \in DOMAIN gs : i # n => hs[i].size = gs[i].size
    <2>1. \A i \in 1 .. n : i # n => i < n
      BY <1>2
    <2> QED
      BY <1>1, <1>2, <2>1 DEF StoredInLast
  <1>8. PICK T : T = {n} \X (a + 1 .. c)
    OBVIOUS
  <1>9. IsFiniteSet(T) /\ Cardinality(T) \in Nat /\ Cardinality(T) <= RawSize
    <2>1. IsFiniteSet({n}) /\ Cardinality({n}) = 1
      BY FS_Singleton
    <2>2. PICK m : m = IF a + 1 > c THEN 0 ELSE c - (a + 1) + 1
      OBVIOUS
    <2>3. m \in Nat /\ m <= RawSize
      BY <1>5, <1>6, <2>2
    <2>4. a + 1 \in Int /\ c \in Int
      BY <1>5
    <2>5. IsFiniteSet(a + 1 .. c) /\ Cardinality(a + 1 .. c) = m
      BY <2>2, <2>4, FS_Interval
    <2>6. IsFiniteSet(T) /\ Cardinality(T) = Cardinality({n}) * Cardinality(a + 1 .. c)
      BY <1>8, <2>1, <2>5, FS_Product
    <2>7. Cardinality(T) = 1 * m
      BY <2>1, <2>5, <2>6
    <2> QED
      BY <2>3, <2>6, <2>7
  <1>10. \A x \in Units(hs) : x \in Units(gs) \cup T
    <2> TAKE x \in Units(hs)
    <2>1. PICK i \in DOMAIN hs : x \in {i} \X (1 .. hs[i].size)
      BY DEF Units
    <2>2. CASE i # n
      <3>1. i \in DOMAIN gs /\ x \in {i} \X (1 .. gs[i].size)
        BY <1>3, <1>7, <2>1, <2>2
      <3> QED
        BY <3>1 DEF Units
    <2>3. CASE i = n
      <3>1. PICK u \in 1 .. c : x = <<n, u>>
        BY <1>4, <2>1, <2>3
      <3>2. u \in 1 .. a \/ u \in a + 1 .. c
        BY <1>5, <3>1
      <3>3. CASE u \in 1 .. a
        <4>1. x \in {n} \X (1 .. gs[n].size)
          BY <1>4, <3>1, <3>3
        <4> QED
          BY <1>2, <4>1 DEF Units
      <3>4. CASE u \in a + 1 .. c
        BY <1>8, <3>1, <3>4
      <3> QED
        BY <3>2, <3>3, <3>4
    <2> QED
      BY <2>2, <2>3
  <1>11. IsFiniteSet(Units(gs)) /\ IsFiniteSet(Units(hs)) /\ TotalSize(gs) \in Nat
         /\ TotalSize(hs) \in Nat
    BY <1>3, UnitsFinite
  <1>12. PICK U : U = Units(gs) \cup T
    OBVIOUS
  <1>13. IsFiniteSet(U)
         /\ Cardinality(U) = Cardinality(Units(gs)) + Cardinality(T) - Cardinality(Units(gs) \cap T)
    BY <1>9, <1>11, <1>12, FS_Union
  <1>14. Cardinality(Units(gs) \cap T) \in Nat
    <2>1. (Units(gs) \cap T) \in SUBSET T
      OBVIOUS
    <2>2. IsFiniteSet(Units(gs) \cap T)
      BY <1>9, <2>1, FS_Subset
    <2> QED
      BY <2>2, FS_CardinalityType
  <1>15. Cardinality(Units(hs)) <= Cardinality(U)
    <2>1. Units(hs) \in SUBSET U
      BY <1>10, <1>12
    <2> QED
      BY <1>13, <2>1, FS_Subset
  <1>16. Cardinality(Units(gs)) = TotalSize(gs) /\ Cardinality(Units(hs)) = TotalSize(hs)
    BY DEF Units, TotalSize
  <1>17. Cardinality(U) \in Nat
    BY <1>13, FS_CardinalityType
  <1> QED
    BY <1>5, <1>9, <1>11, <1>13, <1>14, <1>15, <1>16, <1>17

\* Removing files frees space.
LEMMA UnitsCleaned ==
    ASSUME NEW fs \in Seq(File)
    PROVE  TotalSize(Cleaned(fs)) <= TotalSize(fs)
  <1>1. PICK gs : gs = Cleaned(fs)
    OBVIOUS
  <1>2. PICK k \in 0 .. Len(fs) :
             /\ gs \in Seq(File)
             /\ Len(gs) = Len(fs) - k
             /\ \A i \in 1 .. Len(fs) - k : gs[i] = fs[i + k]
    BY <1>1, CleanedProperties
  <1>3. /\ Len(fs) \in Nat /\ DOMAIN fs = 1 .. Len(fs) /\ DOMAIN gs = 1 .. Len(fs) - k
        /\ \A i \in DOMAIN gs : i + k \in DOMAIN fs /\ gs[i] = fs[i + k]
    <2>1. Len(fs) \in Nat /\ DOMAIN fs = 1 .. Len(fs)
      OBVIOUS
    <2>2. DOMAIN gs = 1 .. Len(fs) - k
      BY <1>2, <2>1
    <2>3. \A i \in 1 .. Len(fs) - k : i + k \in 1 .. Len(fs)
      BY <2>1
    <2> QED
      BY <1>2, <2>1, <2>2, <2>3
  <1>4. PICK f : f = [x \in Units(gs) |-> <<x[1] + k, x[2]>>]
    OBVIOUS
  <1>5. ASSUME NEW x \in Units(gs)
        PROVE  /\ x[1] \in Nat /\ x = <<x[1], x[2]>> /\ f[x] = <<x[1] + k, x[2]>>
               /\ f[x] \in Units(fs)
    <2>1. PICK i \in DOMAIN gs : x \in {i} \X (1 .. gs[i].size)
      BY DEF Units
    <2>2. x = <<i, x[2]>> /\ x[1] = i /\ x[2] \in 1 .. gs[i].size
      BY <2>1
    <2>3. i \in Nat /\ i + k \in DOMAIN fs /\ gs[i] = fs[i + k]
      BY <1>3, <2>1
    <2>4. <<i + k, x[2]>> \in {i + k} \X (1 .. fs[i + k].size)
      BY <2>2, <2>3
    <2>5. <<i + k, x[2]>> \in Units(fs)
      BY <2>3, <2>4 DEF Units
    <2> QED
      BY <1>4, <2>2, <2>3, <2>5
  <1>6. f \in [Units(gs) -> Units(fs)]
    BY <1>4, <1>5
  <1>7. ASSUME NEW x \in Units(gs), NEW y \in Units(gs), f[x] = f[y]
        PROVE  x = y
    <2>1. <<x[1] + k, x[2]>> = <<y[1] + k, y[2]>>
      BY <1>5, <1>7
    <2>2. x[1] + k = y[1] + k /\ x[2] = y[2]
      BY <2>1
    <2>3. x[1] = y[1]
      BY <1>5, <2>2
    <2>4. x = <<x[1], x[2]>> /\ y = <<y[1], y[2]>>
      BY <1>5
    <2> QED
      BY <2>2, <2>3, <2>4
  <1>8. f \in Injection(Units(gs), Units(fs))
    BY <1>6, <1>7 DEF Injection, IsInjective
  <1>9. Cardinality(Units(gs)) <= Cardinality(Units(fs))
    BY <1>8, UnitsFinite, FS_Injection
  <1> QED
    BY <1>1, <1>9 DEF Units, TotalSize

\* What the files occupy is within the limit and one block, which holds with the limit 0 too.
DiskHeld == TotalSize(fileStore) <= DiskMax + RawSize

\* What the files occupy and the limit stay, or the files change and the limit holds.
LEMMA DiskStep ==
    ASSUME TypeOK, OwnInv, DiskHeld, [Next]_vars
    PROVE  DiskHeld'
  <1>1. /\ fileStore \in Seq(File) /\ TotalSize(fileStore) \in Nat
        /\ DiskMax \in Nat /\ RawSize \in Nat
    <2>1. setup \in Setups
      BY DEF TypeOK
    <2> QED
      BY <2>1, SetupType, Constants, UnitsFinite DEF TypeOK, DiskMax
  <1>2. ASSUME UNCHANGED setup, TotalSize(fileStore') \in Nat,
               \/ TotalSize(fileStore') <= TotalSize(fileStore)
               \/ TotalSize(fileStore') <= DiskMax + RawSize
        PROVE  DiskHeld'
    <2>1. DiskMax' = DiskMax
      BY <1>2 DEF DiskMax
    <2>2. TotalSize(fileStore') <= DiskMax + RawSize
      BY <1>1, <1>2 DEF DiskHeld
    <2> QED
      BY <2>1, <2>2 DEF DiskHeld, TotalSize
  <1>3. ASSUME UNCHANGED <<fileStore, setup>> PROVE DiskHeld'
    BY <1>3 DEF DiskHeld, DiskMax, TotalSize
  <1>4. ASSUME NEW p \in Producers, PushAskFile(p) \/ PushToDisk(p)
        PROVE  DiskHeld'
    <2>1. UNCHANGED setup /\ ppc[p] # "idle"
      BY <1>4 DEF PushAskFile, PushToDisk, process
    <2>2. pblk[p] \in Blocks
      BY <2>1 DEF TypeOK, OwnInv, ProducersOwn
    <2>3. AskedOnly(p) \/ OpenedOnly(p) \/ Spilled(p, pblk[p])
      BY <1>4, <2>2, PushFileStep
    <2>4. fileStore' \in Seq(File)
      BY <2>3 DEF AskedOnly, OpenedOnly, Spilled, SameFiles, Opened, StoredInLast
    <2>5. TotalSize(fileStore') \in Nat
      BY <2>4, UnitsFinite
    <2>6. CASE AskedOnly(p)
      <3>1. TotalSize(fileStore') = TotalSize(fileStore)
        BY <1>1, <2>6, SameUnits DEF AskedOnly
      <3> QED
        BY <1>1, <1>2, <2>1, <2>5, <3>1
    <2>7. CASE OpenedOnly(p)
      <3>1. TotalSize(fileStore') = TotalSize(fileStore)
        BY <1>1, <2>7, UnitsOpened DEF OpenedOnly
      <3> QED
        BY <1>1, <1>2, <2>1, <2>5, <3>1
    <2>8. CASE Spilled(p, pblk[p])
      <3>1. PICK open \in Seq(File) :
              /\ Opened(fileStore, open) /\ StoredInLast(open, fileStore')
              /\ ~DiskIsFull(fileStore)
        BY <2>8 DEF Spilled
      <3>2. open # <<>> /\ TotalSize(open) = TotalSize(fileStore)
        BY <1>1, <3>1, UnitsOpened DEF Opened
      <3>3. TotalSize(fileStore') <= TotalSize(open) + RawSize
        BY <3>1, <3>2, UnitsStored
      <3>4. ~(TotalSize(fileStore) > DiskMax)
        BY <3>1 DEF DiskIsFull
      <3>5. TotalSize(fileStore') <= DiskMax + RawSize
        BY <1>1, <2>5, <3>2, <3>3, <3>4
      <3> QED
        BY <1>2, <2>1, <2>5, <3>5
    <2> QED
      BY <2>3, <2>6, <2>7, <2>8
  <1>5. CASE PopFromFile \/ PopFromFileFail
    <2>1. UNCHANGED setup
      BY <1>5 DEF PopFromFile, PopFromFileFail, process
    <2>2. PICK i, d : ReadFrom(i, d)
      BY <1>5, PopFromFileFiles
    <2>3. SameSizes(fileStore, fileStore')
      BY <2>2 DEF ReadFrom, SameSizes
    <2>4. TotalSize(fileStore') = TotalSize(fileStore)
      BY <1>1, <2>3, SizesUnits
    <2> QED
      BY <1>1, <1>2, <2>1, <2>4
  <1>6. CASE PopCount
    <2>1. UNCHANGED setup /\ (fileStore' = fileStore \/ fileStore' = Cleaned(fileStore))
      BY <1>6 DEF PopCount, process
    <2>2. CASE fileStore' = fileStore
      BY <1>3, <2>1, <2>2
    <2>3. CASE fileStore' = Cleaned(fileStore)
      <3>1. Cleaned(fileStore) \in Seq(File)
        BY <1>1, CleanedProperties
      <3>2. TotalSize(Cleaned(fileStore)) \in Nat
        BY <3>1, UnitsFinite
      <3>3. TotalSize(Cleaned(fileStore)) <= TotalSize(fileStore)
        BY <1>1, UnitsCleaned
      <3> QED
        BY <1>2, <2>1, <2>3, <3>2, <3>3
    <2> QED
      BY <2>1, <2>2, <2>3
  <1>7. ASSUME NEW p \in Producers, Push(p) PROVE DiskHeld'
    <2>1. CASE \/ NewBlockStore(p) \/ PushCheck(p) \/ PushMemoryCheck(p) \/ PushMemoryAdd(p)
               \/ PushEnqueue(p)
      <3>1. UNCHANGED <<fileStore, setup>>
        BY <2>1 DEF NewBlockStore, PushCheck, PushMemoryCheck, PushMemoryAdd, PushEnqueue,
                    filevars, process
      <3> QED
        BY <1>3, <3>1
    <2> QED
      BY <1>4, <1>7, <2>1 DEF Push
  <1>8. CASE WriteThread
    <2>1. CASE \/ PopFront \/ PopEmpty \/ UncompressBegin \/ UncompressEnd \/ UncompressFail
               \/ HandPacket \/ TrashPush \/ TrashLeaveUsed \/ TrashAccount
               \/ SkipCleanup \/ WriteThreadStop
      <3>1. UNCHANGED <<fileStore, setup>>
        BY <2>1 DEF PopFront, PopEmpty, UncompressBegin, UncompressEnd, UncompressFail,
                    HandPacket, TrashPush, TrashLeaveUsed, TrashAccount, SkipCleanup,
                    WriteThreadStop, filevars, process
      <3> QED
        BY <1>3, <3>1
    <2>2. CASE \E k \in 0 .. Len(trash) : CleanupBlockStoreTrash(k)
      <3>1. UNCHANGED <<fileStore, setup>>
        BY <2>2 DEF CleanupBlockStoreTrash, filevars, process
      <3> QED
        BY <1>3, <3>1
    <2> QED
      BY <1>5, <1>6, <1>8, <2>1, <2>2 DEF WriteThread
  <1>9. CASE DestroyBlock \/ (\E b \in Blocks : UnlockPacket(b)) \/ Terminate \/ UNCHANGED vars
    <2>1. UNCHANGED <<fileStore, setup>>
      BY <1>9 DEF DestroyBlock, UnlockPacket, Terminate, vars, filevars, process
    <2> QED
      BY <1>3, <2>1
  <1> QED
    BY <1>7, <1>8, <1>9 DEF Next

\* At the start the files occupy nothing.
LEMMA DiskInit == Init => DiskHeld
  <1> SUFFICES ASSUME Init PROVE DiskHeld
    OBVIOUS
  <1>1. fileStore = <<>> /\ setup \in Setups
    BY DEF Init
  <1>2. Units(fileStore) = {}
    BY <1>1 DEF Units
  <1>3. TotalSize(fileStore) = 0
    BY <1>2, FS_EmptySet DEF TotalSize, Units
  <1>4. DiskMax \in Nat /\ RawSize \in Nat
    BY <1>1, SetupType, Constants DEF DiskMax
  <1> QED
    BY <1>3, <1>4 DEF DiskHeld

\* The files never occupy more than opt_pcap_queue_store_queue_max_disk_size and the one
\* block that reached it, however many producers spill blocks: the size is asked and the
\* block stored under one lock.
THEOREM DiskStaysBounded == Spec => []DiskBounded
  <1>1. Init => TypeOK /\ OwnInv /\ DiskHeld
    BY OwnInit, DiskInit
  <1>2. TypeOK /\ OwnInv /\ DiskHeld /\ [Next]_vars => TypeOK' /\ OwnInv' /\ DiskHeld'
    BY OwnStep, DiskStep
  <1>3. DiskHeld => DiskBounded
    BY DEF DiskHeld, DiskBounded
  <1> QED
    BY <1>1, <1>2, <1>3, PTL DEF Spec

-----------------------------------------------------------------------------
(* There are numbers enough *)

\* Each file but the last is full, and a file that is full holds a block.
FilledTo(fs) ==
    \A i \in 1 .. Len(fs) :
        /\ fs[i].size = 0 \/ fs[i].size >= ZipSize
        /\ fs[i].full => fs[i].size >= ZipSize
        /\ i < Len(fs) => fs[i].full

FilledInv == FilledTo(fileStore)

\* The files that the limit allows are fewer than the numbers for them, as 2^32 numbers are
\* for every disk there is.
EnoughNumbers == \A s \in Setups : s.diskMax + RawSize < FileIdMax * ZipSize

\* Opening a file leaves every file but the last full.
LEMMA FilledOpened ==
    ASSUME NEW fs \in Seq(File), FilledTo(fs), NEW gs, SameFiles(fs, gs) \/ Opened(fs, gs)
    PROVE  FilledTo(gs)
  <1>1. Len(fs) \in Nat /\ ZipSize \in Nat
    BY Constants
  <1>2. ASSUME NEW i \in 1 .. Len(fs), SameFile(fs[i], gs[i])
        PROVE  /\ gs[i].size = 0 \/ gs[i].size >= ZipSize
               /\ gs[i].full => gs[i].size >= ZipSize
               /\ i < Len(fs) => gs[i].full
    <2>1. fs[i].size \in Nat
      BY FileFields
    <2> QED
      BY <1>1, <1>2, <2>1 DEF FilledTo, SameFile
  <1>3. CASE SameFiles(fs, gs)
    BY <1>2, <1>3 DEF FilledTo, SameFiles
  <1>4. CASE ~SameFiles(fs, gs)
    <2>1. /\ gs \in Seq(File) /\ Len(gs) = Len(fs) + 1
          /\ \A i \in 1 .. Len(fs) : SameFile(fs[i], gs[i])
          /\ Len(fs) > 0 => gs[Len(fs)].full
          /\ gs[Len(gs)].size = 0 /\ gs[Len(gs)].full = FALSE
      BY <1>4 DEF Opened
    <2>2. ASSUME NEW i \in 1 .. Len(gs)
          PROVE  /\ gs[i].size = 0 \/ gs[i].size >= ZipSize
                 /\ gs[i].full => gs[i].size >= ZipSize
                 /\ i < Len(gs) => gs[i].full
      <3>1. CASE i = Len(gs)
        BY <1>1, <2>1, <3>1
      <3>2. CASE i # Len(gs)
        <4>1. i \in 1 .. Len(fs) /\ (i < Len(fs) \/ (i = Len(fs) /\ Len(fs) > 0))
          BY <1>1, <2>1, <3>2
        <4> QED
          BY <1>2, <2>1, <4>1
      <3> QED
        BY <3>1, <3>2
    <2> QED
      BY <2>2 DEF FilledTo
  <1> QED
    BY <1>3, <1>4

\* The file that a block is stored in holds a block.
LEMMA FilledStored ==
    ASSUME NEW gs \in Seq(File), FilledTo(gs), NEW hs, StoredInLast(gs, hs)
    PROVE  FilledTo(hs)
  <1>1. Len(gs) \in Nat /\ ZipSize \in Nat
    BY Constants
  <1>2. ASSUME NEW i \in 1 .. Len(hs)
        PROVE  /\ hs[i].size = 0 \/ hs[i].size >= ZipSize
               /\ hs[i].full => hs[i].size >= ZipSize
               /\ i < Len(hs) => hs[i].full
    <2>1. i \in 1 .. Len(gs) /\ hs \in Seq(File) /\ Len(hs) = Len(gs)
      BY <1>2 DEF StoredInLast
    <2>2. gs[i].size \in Nat /\ hs[i].size \in Nat
      BY <2>1, FileFields
    <2>3. CASE i < Len(gs)
      <3>1. hs[i] = gs[i]
        BY <2>1, <2>3 DEF StoredInLast
      <3> QED
        BY <2>1, <3>1 DEF FilledTo
    <2>4. CASE ~(i < Len(gs))
      <3>1. gs[i].size + ZipSize <= hs[i].size
        BY <2>1, <2>4 DEF StoredInLast
      <3>2. hs[i].size >= ZipSize
        BY <1>1, <2>2, <3>1
      <3> QED
        BY <2>1, <2>4, <3>2
    <2> QED
      BY <2>3, <2>4
  <1> QED
    BY <1>2 DEF FilledTo

\* Removing files from the front leaves every file but the last full.
LEMMA FilledCleaned ==
    ASSUME NEW fs \in Seq(File), FilledTo(fs)
    PROVE  FilledTo(Cleaned(fs))
  <1>1. PICK gs : gs = Cleaned(fs)
    OBVIOUS
  <1>2. PICK k \in 0 .. Len(fs) :
             /\ gs \in Seq(File)
             /\ Len(gs) = Len(fs) - k
             /\ \A i \in 1 .. Len(fs) - k : gs[i] = fs[i + k]
    BY <1>1, CleanedProperties
  <1>3. ASSUME NEW i \in 1 .. Len(gs)
        PROVE  /\ gs[i] = fs[i + k] /\ i + k \in 1 .. Len(fs)
               /\ i < Len(gs) => i + k < Len(fs)
    BY <1>2
  <1> QED
    BY <1>1, <1>3 DEF FilledTo

\* Every file but the last occupies at least what a compressed block does.
LEMMA UnitsFilled ==
    ASSUME NEW fs \in Seq(File), FilledTo(fs), fs # <<>>
    PROVE  (Len(fs) - 1) * ZipSize <= TotalSize(fs)
  <1>1. PICK n \in Nat : n = Len(fs) - 1 /\ Len(fs) = n + 1
    BY Len(fs) \in Nat /\ Len(fs) > 0
  <1>2. ZipSize \in Nat /\ ZipSize > 0
    BY Constants
  <1>3. IsFiniteSet(1 .. n) /\ Cardinality(1 .. n) = n
    <2>1. n = IF 1 > n THEN 0 ELSE n - 1 + 1
      OBVIOUS
    <2>2. 1 \in Int /\ n \in Int
      OBVIOUS
    <2> QED
      BY <2>1, <2>2, FS_Interval
  <1>4. IsFiniteSet(1 .. ZipSize) /\ Cardinality(1 .. ZipSize) = ZipSize
    <2>1. ZipSize = IF 1 > ZipSize THEN 0 ELSE ZipSize - 1 + 1
      BY <1>2
    <2>2. 1 \in Int /\ ZipSize \in Int
      BY <1>2
    <2> QED
      BY <2>1, <2>2, FS_Interval
  <1>5. PICK R : R = (1 .. n) \X (1 .. ZipSize)
    OBVIOUS
  <1>6. IsFiniteSet(R) /\ Cardinality(R) = n * ZipSize
    <2>1. IsFiniteSet(R) /\ Cardinality(R) = Cardinality(1 .. n) * Cardinality(1 .. ZipSize)
      BY <1>3, <1>4, <1>5, FS_Product
    <2> QED
      BY <1>3, <1>4, <2>1
  <1>7. R \in SUBSET Units(fs)
    <2> SUFFICES ASSUME NEW x \in R PROVE x \in Units(fs)
      OBVIOUS
    <2>1. PICK i \in 1 .. n, u \in 1 .. ZipSize : x = <<i, u>>
      BY <1>5
    <2>2. i \in 1 .. Len(fs) /\ i < Len(fs)
      BY <1>1
    <2>3. fs[i].size \in Nat /\ fs[i].size >= ZipSize
      BY <2>2, FileFields DEF FilledTo
    <2>4. u \in 1 .. fs[i].size
      BY <1>2, <2>3
    <2>5. x \in {i} \X (1 .. fs[i].size) /\ i \in DOMAIN fs
      BY <2>1, <2>2, <2>4
    <2> QED
      BY <2>5 DEF Units
  <1>8. Cardinality(R) <= Cardinality(Units(fs))
    BY <1>7, UnitsFinite, FS_Subset
  <1> QED
    BY <1>1, <1>6, <1>8 DEF Units, TotalSize

\* While the files are within the limit, there are no more of them than numbers.
LEMMA FewFromInv ==
    ASSUME EnoughNumbers, TypeOK, DiskHeld, FilledInv
    PROVE  FewFiles
  <1>1. CASE fileStore = <<>>
    <2>1. Len(fileStore) = 0
      BY <1>1
    <2> QED
      BY <2>1, Constants DEF FewFiles
  <1>2. CASE fileStore # <<>>
    <2>1. fileStore \in Seq(File) /\ setup \in Setups
      BY DEF TypeOK
    <2>2. PICK n : n = Len(fileStore) - 1
      OBVIOUS
    <2>3. n \in Nat /\ Len(fileStore) = n + 1
      BY <1>2, <2>1, <2>2
    <2>4. TotalSize(fileStore) \in Nat /\ n * ZipSize <= TotalSize(fileStore)
      BY <1>2, <2>1, <2>2, UnitsFinite, UnitsFilled DEF FilledInv
    <2>5. PICK D : D = DiskMax
      OBVIOUS
    <2>6. D \in Nat /\ D + RawSize < FileIdMax * ZipSize
      BY <2>1, <2>5, SetupType DEF EnoughNumbers, DiskMax
    <2>7. TotalSize(fileStore) <= D + RawSize
      BY <2>5 DEF DiskHeld
    <2>8. FileIdMax \in Nat /\ ZipSize \in Nat /\ RawSize \in Nat
      BY Constants
    <2>9. n * ZipSize \in Nat /\ FileIdMax * ZipSize \in Nat
      BY <2>3, <2>8
    <2>10. n * ZipSize < FileIdMax * ZipSize
      BY <2>4, <2>6, <2>7, <2>8, <2>9
    <2>11. n < FileIdMax
      <3> SUFFICES ASSUME ~(n < FileIdMax) PROVE FALSE
        OBVIOUS
      <3>1. PICK e \in Nat : n = FileIdMax + e
        <4>1. n - FileIdMax \in Nat /\ n = FileIdMax + (n - FileIdMax)
          BY <2>3, <2>8
        <4> QED
          BY <4>1
      <3>2. n * ZipSize = FileIdMax * ZipSize + e * ZipSize /\ e * ZipSize \in Nat
        BY <2>8, <3>1
      <3> QED
        BY <2>9, <2>10, <3>2
    <2> QED
      BY <2>3, <2>8, <2>11 DEF FewFiles
  <1> QED
    BY <1>1, <1>2

\* Every step leaves every file but the last full.
LEMMA FilledStep ==
    ASSUME TypeOK, OwnInv, FilledInv, [Next]_vars
    PROVE  FilledInv'
  <1>1. fileStore \in Seq(File) /\ FilledTo(fileStore)
    BY DEF TypeOK, FilledInv
  <1>2. ASSUME FilledTo(fileStore') PROVE FilledInv'
    BY <1>2 DEF FilledInv, FilledTo
  <1>3. ASSUME UNCHANGED fileStore PROVE FilledInv'
    BY <1>1, <1>2, <1>3
  <1>4. ASSUME NEW p \in Producers, PushAskFile(p) \/ PushToDisk(p)
        PROVE  FilledInv'
    <2>1. ppc[p] # "idle"
      BY <1>4 DEF PushAskFile, PushToDisk
    <2>2. pblk[p] \in Blocks
      BY <2>1 DEF TypeOK, OwnInv, ProducersOwn
    <2>3. AskedOnly(p) \/ OpenedOnly(p) \/ Spilled(p, pblk[p])
      BY <1>4, <2>2, PushFileStep
    <2>4. CASE AskedOnly(p) \/ OpenedOnly(p)
      <3>1. SameFiles(fileStore, fileStore') \/ Opened(fileStore, fileStore')
        BY <2>4 DEF AskedOnly, OpenedOnly
      <3> QED
        BY <1>1, <1>2, <3>1, FilledOpened
    <2>5. CASE Spilled(p, pblk[p])
      <3>1. PICK open \in Seq(File) : Opened(fileStore, open) /\ StoredInLast(open, fileStore')
        BY <2>5 DEF Spilled
      <3>2. FilledTo(open)
        BY <1>1, <3>1, FilledOpened
      <3>3. FilledTo(fileStore')
        BY <3>1, <3>2, FilledStored
      <3> QED
        BY <1>2, <3>3
    <2> QED
      BY <2>3, <2>4, <2>5
  <1>5. CASE PopFromFile \/ PopFromFileFail
    <2>1. PICK i, d : ReadFrom(i, d)
      BY <1>5, PopFromFileFiles
    <2>2. /\ Len(fileStore') = Len(fileStore)
          /\ \A j \in 1 .. Len(fileStore) : /\ fileStore'[j].size = fileStore[j].size
                                           /\ fileStore'[j].full = fileStore[j].full
      BY <2>1 DEF ReadFrom
    <2>3. FilledTo(fileStore')
      BY <1>1, <2>2 DEF FilledTo
    <2> QED
      BY <1>2, <2>3
  <1>6. CASE PopCount
    <2>1. fileStore' = fileStore \/ fileStore' = Cleaned(fileStore)
      BY <1>6 DEF PopCount
    <2>2. FilledTo(fileStore')
      BY <1>1, <2>1, FilledCleaned
    <2> QED
      BY <1>2, <2>2
  <1>7. ASSUME NEW p \in Producers, Push(p) PROVE FilledInv'
    <2>1. CASE \/ NewBlockStore(p) \/ PushCheck(p) \/ PushMemoryCheck(p) \/ PushMemoryAdd(p)
               \/ PushEnqueue(p)
      <3>1. UNCHANGED fileStore
        BY <2>1 DEF NewBlockStore, PushCheck, PushMemoryCheck, PushMemoryAdd, PushEnqueue,
                    filevars
      <3> QED
        BY <1>3, <3>1
    <2> QED
      BY <1>4, <1>7, <2>1 DEF Push
  <1>8. CASE WriteThread
    <2>1. CASE \/ PopFront \/ PopEmpty \/ UncompressBegin \/ UncompressEnd \/ UncompressFail
               \/ HandPacket \/ TrashPush \/ TrashLeaveUsed \/ TrashAccount
               \/ SkipCleanup \/ WriteThreadStop
      <3>1. UNCHANGED fileStore
        BY <2>1 DEF PopFront, PopEmpty, UncompressBegin, UncompressEnd, UncompressFail,
                    HandPacket, TrashPush, TrashLeaveUsed, TrashAccount, SkipCleanup,
                    WriteThreadStop, filevars
      <3> QED
        BY <1>3, <3>1
    <2>2. CASE \E k \in 0 .. Len(trash) : CleanupBlockStoreTrash(k)
      <3>1. UNCHANGED fileStore
        BY <2>2 DEF CleanupBlockStoreTrash, filevars
      <3> QED
        BY <1>3, <3>1
    <2> QED
      BY <1>5, <1>6, <1>8, <2>1, <2>2 DEF WriteThread
  <1>9. CASE DestroyBlock \/ (\E b \in Blocks : UnlockPacket(b)) \/ Terminate \/ UNCHANGED vars
    <2>1. UNCHANGED fileStore
      BY <1>9 DEF DestroyBlock, UnlockPacket, Terminate, vars, filevars
    <2> QED
      BY <1>3, <2>1
  <1> QED
    BY <1>7, <1>8, <1>9 DEF Next

\* Where the numbers are enough for the files that the limit on the disk allows, there are
\* never more files than numbers: a file gets a successor only once it holds a block.
THEOREM FilesAreFew ==
    ASSUME EnoughNumbers PROVE Spec => []FewFiles
  <1>1. Init => TypeOK /\ OwnInv /\ DiskHeld /\ FilledInv
    <2>1. Init => FilledInv
      BY DEF Init, FilledInv, FilledTo
    <2> QED
      BY <2>1, OwnInit, DiskInit
  <1>2. TypeOK /\ OwnInv /\ DiskHeld /\ FilledInv /\ [Next]_vars
          => TypeOK' /\ OwnInv' /\ DiskHeld' /\ FilledInv'
    BY OwnStep, DiskStep, FilledStep
  <1>3. TypeOK /\ DiskHeld /\ FilledInv => FewFiles
    BY FewFromInv
  <1> QED
    BY <1>1, <1>2, <1>3, PTL DEF Spec

\* With such a limit every spilled block finds its file, nothing but a read fault makes the
\* write thread work on a deleted block, and no block in use is deleted.
THEOREM SpilledBlocksSafe ==
    ASSUME EnoughNumbers
    PROVE  Spec => []FilesServeBlocks /\ []DanglingOnlyByReadFault /\ DeletedWhenUnused
  BY FilesAreFew, SpillFilesServe, DanglingOnlyByFault, DeletedOnlyUnused, PTL

=============================================================================
