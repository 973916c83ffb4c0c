---------------------------- MODULE PacketBuffer ----------------------------
(***************************************************************************)
(* The packet buffer of the sniffer: pcap_store_queue, its spill files     *)
(* (pcap_file_store), the write thread t2 that empties it, the trash where *)
(* a processed block stays while packets of it are in use, and the memory  *)
(* counters of cBuffersControl.                                            *)
(*                                                                         *)
(* Producers are the threads that call pcap_store_queue::push: thread t1,  *)
(* the interface threads when t1 is suppressed, or the connections of a    *)
(* mirror receiver.  Sizes are in abstract units; a block is ZipSize large *)
(* while it is compressed and RawSize afterwards.                          *)
(***************************************************************************)
EXTENDS Integers, Sequences, FiniteSets, SequencesExt, FiniteSetsExt

CONSTANTS
    Producers,     \* threads that push blocks
    MaxBlocks,     \* block objects that exist at the same time; a bound of the model
    ZipSize,       \* getUseAllSize() of a compressed block
    RawSize,       \* getUseAllSize() of an uncompressed block
    Packets,       \* packets in a block
    FileMax,       \* opt_pcap_queue_file_store_max_size
    FileIdMax,     \* the largest file id, 2^32 - 1 in the code
    CleanupEvery,  \* pops between two calls of cleanupFileStore, 100 in the code
    DestroyMin,    \* trash blocks below which the destroy thread sleeps, 3 in the code
    Setups         \* the configurations that a process may be started with

ASSUME SizeAssumption ==
    /\ IsFiniteSet(Producers)
    /\ {MaxBlocks, ZipSize, RawSize, Packets, FileMax, FileIdMax, CleanupEvery} \subseteq Nat \ {0}
    /\ DestroyMin \in Nat \ {0, 1}
    /\ ZipSize <= RawSize

ASSUME SetupAssumption ==
    Setups \subseteq
        [producers : SUBSET Producers, \* the producers of this process
         blocks : 1 .. MaxBlocks,      \* block objects in this process
         memMax : Nat,                 \* max_buffer_mem_own_use
         diskMax : Nat,                \* opt_pcap_queue_store_queue_max_disk_size; 0: no disk buffer
         compress : BOOLEAN,           \* opt_pcap_queue_compress
         destroyThread : BOOLEAN,      \* opt_ipaccount: a thread of its own empties the trash
         trashKeep : Nat,              \* youngest trash blocks a cleanup leaves alone, 5 in the code
         writeFaults : BOOLEAN,        \* a write to a spill file may fail
         readFaults : BOOLEAN]         \* reading a block back from a spill file may fail

\* The destroy thread, too, leaves the youngest block of the trash alone.
ASSUME KeepAssumption == \A s \in Setups : s.destroyThread => s.trashKeep > 0

VARIABLES
    blk,         \* the block objects
    ppc, pblk,   \* where each producer is in its push, and its block
    queueStore,  \* deque of blocks, in memory or spilled
    fileStore,   \* deque of spill files
    lastFileStoreId,
    used,        \* pb_used_size
    trashSize,   \* pb_trash_size
    trash,       \* blockStoreTrash
    wpc, wblk,   \* where the write thread is, and its block
    handed,      \* packets of wblk that have been processed
    popCount,    \* cleanupFileStoreCounter, modulo CleanupEvery
    terminating,
    setup        \* the configuration, which never changes

pvars == <<ppc, pblk>>
wvars == <<wpc, wblk, handed>>
filevars == <<fileStore, lastFileStoreId>>
process == <<terminating, setup>>
vars == <<blk, pvars, queueStore, filevars, used, trashSize, trash, wvars, popCount, process>>

MemMax == setup.memMax
DiskMax == setup.diskMax

\* Addresses of block objects, and the NULL pointer.
Blocks == 1 .. MaxBlocks
NoBlock == 0

\* A block that does not exist.
Unborn == [place |-> "none", inMem |-> FALSE, file |-> 0, zip |-> FALSE, locks |-> 0]

\* getUseAllSize()
SizeOf(b) == IF blk[b].zip THEN ZipSize ELSE RawSize

\* sub__pb_used_size and sub__pb_trash_size: an underflow is reset to zero.
Sub(x, n) == IF x < n THEN 0 ELSE x - n

\* check__pb__add_used(): the sum is below 90% of the limit.
CheckAddUsed == 10 * (used + trashSize) < 9 * MemMax

\* getFileStoreUseSize: the sum of the sizes, counted as the units of all files.
TotalSize(files) == Cardinality(UNION {{i} \X (1 .. files[i].size) : i \in DOMAIN files})

\* pcap_file_store::isFull(forceSetFull) as it leaves the file; late: the file is older
\* than opt_pcap_queue_file_store_max_time_ms.
AfterIsFull(f, force, late) ==
    [f EXCEPT !.full = @ \/ f.size >= FileMax \/ (f.size > 0 /\ (late \/ force))]

\* The deque of files after isFull was called on its last file.
AskLast(files, force, late) ==
    IF files = <<>> THEN files
    ELSE [files EXCEPT ![Len(files)] = AfterIsFull(@, force, late)]

\* ++lastFileStoreId, a u_int that skips zero.
NextFileId == IF lastFileStoreId = FileIdMax THEN 1 ELSE lastFileStoreId + 1

\* pcap_file_store::pcap_file_store
NewFile(id) == [id |-> id, size |-> 0, push |-> 0, pop |-> 0, full |-> FALSE]

\* findFileStoreById: an index of fileStore, 0 when there is none.
FindFile(id) == SelectInSeq(fileStore, LAMBDA f : f.id = id)

Init ==
    /\ blk = [b \in Blocks |-> Unborn]
    /\ ppc = [p \in Producers |-> "idle"]
    /\ pblk = [p \in Producers |-> NoBlock]
    /\ queueStore = <<>>
    /\ fileStore = <<>>
    /\ lastFileStoreId = 0
    /\ used = 0
    /\ trashSize = 0
    /\ trash = <<>>
    /\ wpc = "pop"
    /\ wblk = NoBlock
    /\ handed = 0
    /\ popCount = 0
    /\ terminating = FALSE
    /\ setup \in Setups

-----------------------------------------------------------------------------
(* pcap_store_queue::push, called with deleteBlockStoreIfFail = false: the caller keeps
   the block and calls again when push returns false *)

\* A producer comes with a new block; it stops when terminating.  Which free address
\* the new object gets makes no difference: the model takes the lowest.
NewBlockStore(p) ==
    /\ p \in setup.producers
    /\ ppc[p] = "idle"
    /\ ~terminating
    /\ \E b \in 1 .. setup.blocks : blk[b] = Unborn
    /\ LET b == Min({x \in Blocks : blk[x] = Unborn})
       IN /\ blk' = [blk EXCEPT ![b] = [Unborn EXCEPT !.place = "producer",
                                                     !.inMem = TRUE, !.zip = setup.compress]]
          /\ pblk' = [pblk EXCEPT ![p] = b]
    /\ ppc' = [ppc EXCEPT ![p] = "push"]
    /\ UNCHANGED <<queueStore, filevars, used, trashSize, trash, wvars, popCount,
                   process>>

\* The first check of the memory: above the limit the block goes to disk.
PushCheck(p) ==
    /\ ppc[p] = "push"
    /\ ~terminating
    /\ ppc' = [ppc EXCEPT ![p] = IF DiskMax = 0 THEN "memory"
                                 ELSE IF CheckAddUsed THEN "ask" ELSE "disk"]
    /\ UNCHANGED <<blk, pblk, queueStore, filevars, used, trashSize, trash, wvars,
                   popCount, process>>

\* Mutant of DiskIsFull: only the last file counts.
LastFileIsFull(files) == files # <<>> /\ Last(files).size > DiskMax

\* getFileStoreUseSize() > opt_pcap_queue_store_queue_max_disk_size
DiskIsFull(files) == TotalSize(files) > DiskMax

\* Under lock_fileStore: store the block of p in the last of `files', or in a new file
\* when there is none that takes more.  A failed write leaves a new file in place.
StoreToFile(p, files) ==
    IF DiskIsFull(files)
    THEN /\ fileStore' = files
         /\ ppc' = [ppc EXCEPT ![p] = "push"]
         /\ UNCHANGED <<blk, lastFileStoreId>>
    ELSE \E late \in BOOLEAN, written \in {TRUE, ~setup.writeFaults} :
         LET asked == AskLast(files, FALSE, late)
             fresh == asked = <<>> \/ Last(asked).full
             open  == IF fresh THEN Append(asked, NewFile(NextFileId)) ELSE asked
             b     == pblk[p]
         IN /\ lastFileStoreId' = IF fresh THEN NextFileId ELSE lastFileStoreId
            /\ IF written
               THEN /\ fileStore' = [open EXCEPT ![Len(open)].size = @ + SizeOf(b),
                                                 ![Len(open)].push = @ + 1]
                    /\ blk' = [blk EXCEPT ![b].inMem = FALSE, ![b].file = Last(open).id]
                    /\ ppc' = [ppc EXCEPT ![p] = "enqueue"]
               ELSE /\ fileStore' = open
                    /\ ppc' = [ppc EXCEPT ![p] = "push"]
                    /\ UNCHANGED blk

\* There is memory, but while the last file takes more blocks they go there.  The
\* lock is kept from the question to the write.
PushAskFile(p) ==
    /\ ppc[p] = "ask"
    /\ \E late \in BOOLEAN :
          LET asked == AskLast(fileStore, used = 0, late)
          IN IF asked # <<>> /\ ~Last(asked).full
             THEN StoreToFile(p, asked)
             ELSE /\ fileStore' = asked
                  /\ ppc' = [ppc EXCEPT ![p] = "memory"]
                  /\ UNCHANGED <<blk, lastFileStoreId>>
    /\ UNCHANGED <<pblk, queueStore, used, trashSize, trash, wvars, popCount, process>>

PushToDisk(p) ==
    /\ ppc[p] = "disk"
    /\ StoreToFile(p, fileStore)
    /\ UNCHANGED <<pblk, queueStore, used, trashSize, trash, wvars, popCount, process>>

\* Mutant of PushMemoryCheck: the memory is not checked again.
PushMemoryNoCheck(p) ==
    /\ ppc[p] = "memory"
    /\ ppc' = [ppc EXCEPT ![p] = "add"]
    /\ UNCHANGED <<blk, pblk, queueStore, filevars, used, trashSize, trash, wvars,
                   popCount, process>>

\* The second check of the memory; push returns false when it fails.
PushMemoryCheck(p) ==
    /\ ppc[p] = "memory"
    /\ ppc' = [ppc EXCEPT ![p] = IF CheckAddUsed THEN "add" ELSE "push"]
    /\ UNCHANGED <<blk, pblk, queueStore, filevars, used, trashSize, trash, wvars,
                   popCount, process>>

\* add__pb_used_size, after the check and not atomically with it.
PushMemoryAdd(p) ==
    /\ ppc[p] = "add"
    /\ used' = used + SizeOf(pblk[p])
    /\ ppc' = [ppc EXCEPT ![p] = "enqueue"]
    /\ UNCHANGED <<blk, pblk, queueStore, filevars, trashSize, trash, wvars, popCount,
                   process>>

PushEnqueue(p) ==
    /\ ppc[p] = "enqueue"
    /\ queueStore' = Append(queueStore, pblk[p])
    /\ blk' = [blk EXCEPT ![pblk[p]].place = "queue"]
    /\ ppc' = [ppc EXCEPT ![p] = "idle"]
    /\ pblk' = [pblk EXCEPT ![p] = NoBlock]
    /\ UNCHANGED <<filevars, used, trashSize, trash, wvars, popCount, process>>

-----------------------------------------------------------------------------
(* The write thread *)

\* Mutant of PopFront: pop_front is missing.
PopFrontKeeps ==
    /\ wpc = "pop"
    /\ ~terminating
    /\ queueStore # <<>>
    /\ wblk' = Head(queueStore)
    /\ blk' = [blk EXCEPT ![wblk'].place = "writer"]
    /\ wpc' = IF blk[wblk'].file # 0 THEN "wait" ELSE "count"
    /\ UNCHANGED <<pvars, queueStore, filevars, used, trashSize, trash, handed, popCount,
                   process>>

\* pcap_store_queue::pop takes the front.  A spilled block has to wait for its file; a
\* block whose file is gone is deleted, and the thread, which does not look at the
\* result of pop, goes on with the dangling pointer.  What it does from there on is
\* undefined: the model stops it.
PopFront ==
    /\ wpc = "pop"
    /\ ~terminating
    /\ queueStore # <<>>
    /\ LET b == Head(queueStore)
           lost == blk[b].file # 0 /\ FindFile(blk[b].file) = 0
       IN /\ wblk' = b
          /\ blk' = [blk EXCEPT ![b] = IF lost THEN Unborn ELSE [@ EXCEPT !.place = "writer"]]
          /\ wpc' = IF lost THEN "dangling" ELSE IF blk[b].file # 0 THEN "wait" ELSE "count"
    /\ queueStore' = Tail(queueStore)
    /\ UNCHANGED <<pvars, filevars, used, trashSize, trash, handed, popCount, process>>

\* Nothing in the queue: the loop goes on to the trash.
PopEmpty ==
    /\ wpc = "pop"
    /\ ~terminating
    /\ queueStore = <<>>
    /\ wpc' = "clean"
    /\ UNCHANGED <<blk, pvars, queueStore, filevars, used, trashSize, trash, wblk, handed,
                   popCount, process>>

\* The wait for _fileStore->full, which looks neither at the clock nor at terminating;
\* then pcap_file_store::pop reads the block back.
PopFromFile ==
    /\ wpc = "wait"
    /\ LET i == FindFile(blk[wblk].file)
       IN /\ fileStore[i].full
          /\ fileStore' = [fileStore EXCEPT ![i].pop = @ + 1]
    /\ blk' = [blk EXCEPT ![wblk].inMem = TRUE]
    /\ wpc' = "count"
    /\ UNCHANGED <<pvars, queueStore, lastFileStoreId, used, trashSize, trash, wblk, handed,
                   popCount, process>>

\* The block cannot be read back, and is counted as read unless it was open that failed:
\* it is deleted like one whose file is gone.
PopFromFileFail ==
    /\ setup.readFaults
    /\ wpc = "wait"
    /\ LET i == FindFile(blk[wblk].file)
       IN /\ fileStore[i].full
          /\ \E opened \in {0, 1} : fileStore' = [fileStore EXCEPT ![i].pop = @ + opened]
    /\ blk' = [blk EXCEPT ![wblk] = Unborn]
    /\ wpc' = "dangling"
    /\ UNCHANGED <<pvars, queueStore, lastFileStoreId, used, trashSize, trash, wblk, handed,
                   popCount, process>>

\* Mutants of Cleaned: a full file is removed whether or not it is read, and no file is
\* removed at all.
CleanedUnread(files) == SelectSeq(files, LAMBDA f : ~f.full)
CleanedNever(files) == files

\* cleanupFileStore: the leading files that are full and read to the end are removed.
Cleaned(files) ==
    LET keep == SelectInSeq(files, LAMBDA f : ~(f.full /\ f.push = f.pop))
    IN IF keep = 0 THEN <<>> ELSE SubSeq(files, keep, Len(files))

\* The end of pop: every CleanupEvery-th block calls cleanupFileStore.
PopCount ==
    /\ wpc = "count"
    /\ popCount' = (popCount + 1) % CleanupEvery
    /\ fileStore' = IF popCount' = 0 THEN Cleaned(fileStore) ELSE fileStore
    /\ wpc' = "unzip"
    /\ UNCHANGED <<blk, pvars, queueStore, lastFileStoreId, used, trashSize, trash, wblk,
                   handed, process>>

\* A compressed block leaves the account before uncompress() and comes back, larger,
\* after it.
UncompressBegin ==
    /\ wpc = "unzip"
    /\ used' = IF blk[wblk].zip THEN Sub(used, SizeOf(wblk)) ELSE used
    /\ wpc' = IF blk[wblk].zip THEN "unzipping" ELSE "hand"
    /\ handed' = 0
    /\ UNCHANGED <<blk, pvars, queueStore, filevars, trashSize, trash, wblk, popCount,
                   process>>

\* Mutant of UncompressEnd: the size from before uncompress() is added again.
UncompressEndOldSize ==
    /\ wpc = "unzipping"
    /\ blk' = [blk EXCEPT ![wblk].zip = FALSE]
    /\ used' = used + ZipSize
    /\ wpc' = "hand"
    /\ UNCHANGED <<pvars, queueStore, filevars, trashSize, trash, wblk, handed, popCount,
                   process>>

UncompressEnd ==
    /\ wpc = "unzipping"
    /\ blk' = [blk EXCEPT ![wblk].zip = FALSE]
    /\ used' = used + RawSize
    /\ wpc' = "hand"
    /\ UNCHANGED <<pvars, queueStore, filevars, trashSize, trash, wblk, handed, popCount,
                   process>>

\* uncompress() failed: the block is deleted.
UncompressFail ==
    /\ wpc = "unzipping"
    /\ blk' = [blk EXCEPT ![wblk] = Unborn]
    /\ wblk' = NoBlock
    /\ wpc' = "clean"
    /\ UNCHANGED <<pvars, queueStore, filevars, used, trashSize, trash, handed, popCount,
                   process>>

\* Mutant of HandPacket: one packet too many.
HandPacketTooMany ==
    /\ wpc = "hand"
    /\ ~terminating
    /\ handed <= Packets
    /\ handed' = handed + 1
    /\ blk' = [blk EXCEPT ![wblk].locks = @ + 1]
    /\ UNCHANGED <<pvars, queueStore, filevars, used, trashSize, trash, wpc, wblk, popCount,
                   process>>

\* processPacket on the next packet: an output thread gets it, and the block is locked
\* for it (lock_packet), or it is ignored.
HandPacket ==
    /\ wpc = "hand"
    /\ ~terminating
    /\ handed < Packets
    /\ handed' = handed + 1
    /\ \E ignored \in BOOLEAN :
          blk' = IF ignored THEN blk ELSE [blk EXCEPT ![wblk].locks = @ + 1]
    /\ UNCHANGED <<pvars, queueStore, filevars, used, trashSize, trash, wpc, wblk, popCount,
                   process>>

\* Mutant of TrashPush: a block is only given up when all its packets were processed.
TrashPushAllHanded ==
    /\ wpc = "hand"
    /\ handed = Packets
    /\ trash' = Append(trash, wblk)
    /\ blk' = [blk EXCEPT ![wblk].place = "trash"]
    /\ wpc' = "leave"
    /\ UNCHANGED <<pvars, queueStore, filevars, used, trashSize, wblk, handed, popCount,
                   process>>

\* blockStoreTrashPush: the block joins the trash ...
TrashPush ==
    /\ wpc = "hand"
    /\ handed = Packets \/ terminating
    /\ trash' = Append(trash, wblk)
    /\ blk' = [blk EXCEPT ![wblk].place = "trash"]
    /\ wpc' = "leave"
    /\ UNCHANGED <<pvars, queueStore, filevars, used, trashSize, wblk, handed, popCount,
                   process>>

\* ... then leaves the used account ...
TrashLeaveUsed ==
    /\ wpc = "leave"
    /\ used' = Sub(used, SizeOf(wblk))
    /\ wpc' = "account"
    /\ UNCHANGED <<blk, pvars, queueStore, filevars, trashSize, trash, wblk, handed,
                   popCount, process>>

\* ... and is added to the trash account.
TrashAccount ==
    /\ wpc = "account"
    /\ trashSize' = trashSize + RawSize
    /\ wpc' = "clean"
    /\ wblk' = NoBlock
    /\ UNCHANGED <<blk, pvars, queueStore, filevars, used, trash, handed, popCount,
                   process>>

\* Mutants of Destroyable: locked blocks too, and never the oldest block.
DestroyableLocked == 1 .. Len(trash) - setup.trashKeep
DestroyableNotFirst == {i \in 2 .. Len(trash) - setup.trashKeep : blk[trash[i]].locks = 0}

\* The trash blocks that cleanupBlockStoreTrash may delete: all but the youngest
\* trashKeep, and no block with a locked packet (enableDestroy).
Destroyable == {i \in 1 .. Len(trash) - setup.trashKeep : blk[trash[i]].locks = 0}

\* The indices in S, a finite set of numbers, in ascending order.
Ascending(S) ==
    {f \in [1 .. Cardinality(S) -> S] : \A i, j \in DOMAIN f : i < j => f[i] < f[j]}

\* delete of the trash blocks at the indices in D, and sub__pb_trash_size for each; the
\* others keep their order.
DestroyTrash(D) ==
    /\ \E f \in Ascending(DOMAIN trash \ D) : trash' = [j \in DOMAIN f |-> trash[f[j]]]
    /\ blk' = [b \in Blocks |-> IF \E i \in D : trash[i] = b THEN Unborn ELSE blk[b]]
    /\ trashSize' = Sub(trashSize, RawSize * Cardinality(D))

\* The end of the loop: cleanupBlockStoreTrash deletes what is unlocked and 100 ms in the
\* trash, the oldest k blocks; the destroy thread does it with opt_ipaccount.
CleanupBlockStoreTrash(k) ==
    /\ wpc = "clean"
    /\ ~setup.destroyThread
    /\ DestroyTrash({i \in Destroyable : i <= k})
    /\ wpc' = "pop"
    /\ UNCHANGED <<pvars, queueStore, filevars, used, wblk, handed, popCount, process>>

\* The cleanup is not due: getPerc_pb_trash() is at most 20 (of 90% of the limit) and
\* it is too soon after the last one.
SkipCleanup ==
    /\ wpc = "clean"
    /\ setup.destroyThread \/ 100 * trashSize <= 18 * MemMax
    /\ wpc' = "pop"
    /\ UNCHANGED <<blk, pvars, queueStore, filevars, used, trashSize, trash, wblk, handed,
                   popCount, process>>

\* The loop ends.
WriteThreadStop ==
    /\ wpc = "pop"
    /\ terminating
    /\ wpc' = "stopped"
    /\ UNCHANGED <<blk, pvars, queueStore, filevars, used, trashSize, trash, wblk, handed,
                   popCount, process>>

-----------------------------------------------------------------------------
(* The other threads *)

\* Mutant of DestroyBlock: it does not leave the youngest blocks alone.
DestroyBlockAny ==
    /\ setup.destroyThread
    /\ ~terminating
    /\ trash # <<>>
    /\ blk[Head(trash)].locks = 0
    /\ DestroyTrash({1})
    /\ UNCHANGED <<pvars, queueStore, filevars, used, wvars, popCount, process>>

\* destroyBlocksThreadFunction deletes the front block, or the first unlocked one
\* when the front is locked for long.  The block leaves the trash under the lock; its
\* subtraction from the account and its deletion follow in the same thread, which alone
\* knows it then, and are part of the step.
DestroyBlock ==
    /\ setup.destroyThread
    /\ ~terminating
    /\ Len(trash) >= DestroyMin
    /\ \/ blk[Head(trash)].locks = 0 /\ DestroyTrash({1})
       \/ blk[Head(trash)].locks # 0 /\ Destroyable # {} /\ DestroyTrash({Min(Destroyable)})
    /\ UNCHANGED <<pvars, queueStore, filevars, used, wvars, popCount, process>>

\* An output thread, or whoever it passed the packet to, is done: unlock_packet.
UnlockPacket(b) ==
    /\ blk[b].locks > 0
    /\ blk' = [blk EXCEPT ![b].locks = @ - 1]
    /\ UNCHANGED <<pvars, queueStore, filevars, used, trashSize, trash, wvars, popCount,
                   process>>

\* vm_terminate
Terminate ==
    /\ ~terminating
    /\ terminating' = TRUE
    /\ UNCHANGED <<blk, pvars, queueStore, filevars, used, trashSize, trash, wvars, popCount,
                   setup>>

-----------------------------------------------------------------------------
Push(p) ==
    \/ NewBlockStore(p)
    \/ PushCheck(p)
    \/ PushAskFile(p)
    \/ PushToDisk(p)
    \/ PushMemoryCheck(p)
    \/ PushMemoryAdd(p)
    \/ PushEnqueue(p)

WriteThread ==
    \/ PopFront
    \/ PopEmpty
    \/ PopFromFile
    \/ PopFromFileFail
    \/ PopCount
    \/ UncompressBegin
    \/ UncompressEnd
    \/ UncompressFail
    \/ HandPacket
    \/ TrashPush
    \/ TrashLeaveUsed
    \/ TrashAccount
    \/ \E k \in 0 .. Len(trash) : CleanupBlockStoreTrash(k)
    \/ SkipCleanup
    \/ WriteThreadStop

Next ==
    \/ \E p \in Producers : Push(p)
    \/ WriteThread
    \/ DestroyBlock
    \/ \E b \in Blocks : UnlockPacket(b)
    \/ Terminate

Spec == Init /\ [][Next]_vars

\* Fairness: the traffic goes on and every thread is scheduled.  A cleanup that is due
\* again and again is done, and a packet in use is released in the end.
FairSpec ==
    /\ Spec
    /\ \A p \in Producers : WF_vars(Push(p))
    /\ WF_vars(WriteThread)
    /\ SF_vars(CleanupBlockStoreTrash(Len(trash)))
    /\ WF_vars(DestroyBlock)
    /\ \A b \in Blocks : WF_vars(UnlockPacket(b))

-----------------------------------------------------------------------------
(* Properties *)

Places == {"none", "producer", "queue", "writer", "trash"}

BlockStore ==
    [place : Places, inMem : BOOLEAN, file : 0 .. FileIdMax, zip : BOOLEAN, locks : 0 .. Packets]

File == [id : 1 .. FileIdMax, size : Nat, push : Nat, pop : Nat, full : BOOLEAN]

\* Types of all variables.
TypeOK ==
    /\ blk \in [Blocks -> BlockStore]
    /\ ppc \in [Producers -> {"idle", "push", "ask", "disk", "memory", "add", "enqueue"}]
    /\ pblk \in [Producers -> Blocks \cup {NoBlock}]
    /\ queueStore \in Seq(Blocks)
    /\ fileStore \in Seq(File)
    /\ lastFileStoreId \in 0 .. FileIdMax
    /\ used \in Nat
    /\ trashSize \in Nat
    /\ trash \in Seq(Blocks)
    /\ wpc \in {"pop", "wait", "count", "unzip", "unzipping", "hand", "leave", "account",
                "clean", "stopped", "dangling"}
    /\ wblk \in Blocks \cup {NoBlock}
    /\ handed \in 0 .. Packets
    /\ popCount \in 0 .. CleanupEvery - 1
    /\ terminating \in BOOLEAN
    /\ setup \in Setups

\* The blocks stored in file f that have not been read back.
Unread(f) == {b \in Blocks : blk[b].place # "none" /\ ~blk[b].inMem /\ blk[b].file = f.id}

\* Every spilled block finds its file; a file knows how many of its blocks are unread, so
\* cleanupFileStore never removes a file that is needed and, unless a read failed, does
\* remove it when it is not; and only the last file takes blocks.
FilesServeBlocks ==
    /\ \A b \in Blocks : blk[b].place # "none" /\ ~blk[b].inMem => FindFile(blk[b].file) # 0
    /\ \A i \in DOMAIN fileStore :
          /\ fileStore[i].push - fileStore[i].pop >= Cardinality(Unread(fileStore[i]))
          /\ wpc # "dangling" =>
                fileStore[i].push - fileStore[i].pop = Cardinality(Unread(fileStore[i]))
          /\ i < Len(fileStore) => fileStore[i].full
          /\ \A j \in DOMAIN fileStore : fileStore[i].id = fileStore[j].id => i = j

\* A block is in exactly one place: with one producer, once in the queue, with the write
\* thread or once in the trash.  None is lost, none is there twice.
OneOwner ==
    \A b \in Blocks :
        /\ blk[b].place = "writer" => wblk = b
        /\ Cardinality({p \in Producers : pblk[p] = b}) = IF blk[b].place = "producer" THEN 1 ELSE 0
        /\ Cardinality({i \in DOMAIN queueStore : queueStore[i] = b})
              = IF blk[b].place = "queue" THEN 1 ELSE 0
        /\ Cardinality({i \in DOMAIN trash : trash[i] = b}) = IF blk[b].place = "trash" THEN 1 ELSE 0

\* The block that the write thread works on exists and is where the thread takes it to be:
\* its own, or the one that it has put into the trash and whose size it still reads while
\* the destroy thread empties the trash.
WriterHasBlock ==
    /\ wpc \in {"wait", "count", "unzip", "unzipping", "hand"} => blk[wblk].place = "writer"
    /\ wpc \in {"leave", "account"} => blk[wblk].place = "trash"

\* The write thread never works on a deleted block, one that pop gave up included.
NoDangling == wpc # "dangling" /\ WriterHasBlock

\* What the code does guarantee: nothing but a spill file that cannot be read makes the
\* write thread work on a deleted block, and the destroy thread never does.
DanglingOnlyByReadFault == (wpc = "dangling" => setup.readFaults) /\ WriterHasBlock

\* A block is deleted from the trash, when no packet of it is in use, and in no other way
\* but a failed decompression or a failed read from its spill file.
DeletedWhenUnused ==
    [][\A b \in Blocks : blk[b].place # "none" /\ blk'[b].place = "none" =>
          \/ blk[b].place = "trash" /\ blk[b].locks = 0
          \/ wpc \in {"unzipping", "wait"} /\ b = wblk]_vars

\* getUseAllSize() summed over a set of blocks.
Sum(S) ==
    LET zipped == {b \in S : blk[b].zip}
    IN ZipSize * Cardinality(zipped) + RawSize * Cardinality(S \ zipped)

\* The blocks that the used account stands for.
Charged ==
    {b \in Blocks :
        \/ \E p \in Producers : pblk[p] = b /\ ppc[p] = "enqueue"
        \/ blk[b].place = "queue"
        \/ blk[b].place = "writer" /\ wpc # "unzipping"
        \/ b = wblk /\ wpc = "leave"}

\* Without a disk buffer the two accounts are exact at every moment, up to the block
\* that is on its way from one to the other.
AccountingExact == DiskMax = 0 =>
    /\ used = Sum(Charged)
    /\ trashSize = Sum({b \in Blocks : blk[b].place = "trash"})
                     - (IF wpc \in {"leave", "account"} THEN RawSize ELSE 0)

\* The memory that the blocks of the packet buffer occupy.
MemHeld == Sum({b \in Blocks : blk[b].inMem /\ blk[b].place # "producer"})

\* max_buffer_mem is "the maximum amount of memory used for buffering packets", up to a
\* block for each producer that has passed the check and one that the write thread is
\* moving between the accounts: the code leaves 10% of the limit for them.
MemoryBounded == MemHeld < MemMax + RawSize * (Cardinality(setup.producers) + 1)

\* What the code does guarantee: the bound holds, with the 10% unused, as long as neither
\* disk buffer nor compression makes blocks larger in memory than in the account.
PlainMemoryBounded ==
    DiskMax = 0 /\ ~setup.compress =>
        10 * (MemHeld - RawSize * (Cardinality(setup.producers) + 1)) < 9 * MemMax

\* packetbuffer_file_totalmaxsize limits what the files occupy, up to the block that
\* reaches it.
DiskBounded == DiskMax > 0 => TotalSize(fileStore) <= DiskMax + RawSize

\* As long as producers keep coming with blocks, every block in the queue reaches the
\* write thread and leaves it, unless the process terminates.
Served ==
    []<>(\E p \in Producers : ppc[p] = "push") =>
        \A b \in Blocks : blk[b].place \in {"queue", "writer"} ~>
            blk[b].place \notin {"queue", "writer"} \/ terminating

\* The memory of processed blocks comes back: as long as producers keep coming, every
\* block in the trash is deleted, also when the write thread, which does it, is held up by
\* spill files or when packets of older blocks are in use.
TrashEmptied ==
    []<>(\E p \in Producers : ppc[p] = "push") =>
        \A b \in Blocks : blk[b].place = "trash" ~> blk[b].place # "trash" \/ terminating

\* After terminating is set the write thread stops, unless it waits for a spill file:
\* that loop does not look at terminating (src/pcap_queue.cpp:1342).
StopsUnlessWaiting == terminating ~> wpc \in {"stopped", "wait"}
=============================================================================
