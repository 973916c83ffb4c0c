# TLA+ models of the VoIPmonitor sniffer

This directory holds a verification project for the sniffer in `src/`: TLA+
modules for the parts that carry its packet path, TLC configurations that check
them on small instances, and machine-checked proofs (TLAPS). `PROJECT.json` maps
each definition to the source lines it models, and lists runs, mutants, findings,
hazards and theorems.

Contents: [the system](#1-the-system), [modules](#2-modules-and-the-code-they-model),
[runs](#3-runs), [fairness](#4-fairness), [proofs](#5-proofs),
[findings](#6-where-the-code-and-its-documentation-disagree),
[not modelled](#7-what-is-not-modelled), [plan](#8-plan).

## 1. The system

The sniffer captures packets, buffers them in blocks, orders and reassembles
them, follows SIP calls and their RTP streams, and stores the result in files
and an SQL database. One sniffer can also send its blocks to another one.

```
 interfaces --> bypass queue --> t1 --+                     +--> output threads --> SIP/RTP --> calls --> SQL, files
 (readFromInterface)  (rqueue_quick)  +--> pcap_store_queue |    (detach, defrag,
 mirror connections ------------------+    memory | files --+--> t2 dedup)
                                                            +--> mirror sender --> TCP --> receiver's connections
```

### Inventory

| component | state | operations | interacts with | hard behaviour | what makes it correct |
|---|---|---|---|---|---|
| ring queue `rqueue_quick` (`rqueue.h`) | slots, a flag per slot, `readit`, `writeit`, `_sync_lock` | `push`, `pop`, `popq`, `get`, `moveReadit`, `size` | used by the bypass queue, `block_qring`, object stacks | lock-free between one producer and one consumer, flag and index updated in two steps; lock given up while waiting | it is a bounded FIFO; no slot is read and written at once; `size()` right at the wrap |
| packet buffer `pcap_store_queue` | `queueStore`, `fileStore`, `lastFileStoreId`, `cleanupFileStoreCounter` | `push`, `pop`, `cleanupFileStore` | producers on one side, the write thread on the other, `buffersControl` | check and add of the memory are not atomic; a block changes owner under three locks | a block has one owner; limits of memory and disk; blocks are served |
| spill files `pcap_file_store` | size, `countPush`, `countPop`, `full` | `push`, `pop`, `isFull`, `isForDestroy` | owned by the packet buffer | reader waits until the file is full; write and read errors | no file is removed that a block needs, none stays for ever |
| accounts `cBuffersControl` | `pb_used_size`, `pb_trash_size`, pool, async | add, sub (clamped), `check__pb__add_used` | all threads of the packet buffer, asynchronous file writing | updates apart from what they account for | the accounts are the sizes of the blocks |
| write thread t2, trash, destroy thread | current block, `blockStoreTrash` | pop, uncompress, `processPacket`, `blockStoreTrashPush`, `cleanupBlockStoreTrash`, `destroyBlocksThreadFunction` | output threads lock packets of blocks in the trash | deletion races with use; termination | nothing used is deleted, all is deleted in the end |
| mirroring | sender: `socketHandle`, `block_counter`; receiver: per connection `block_counter`, restore buffer | `socketWritePcapBlock`, `socketConnect`, `_socketWrite`, connection thread | TCP, the receiver's packet buffer | lost, late and repeated answers; reconnection in the middle of a block | nothing confirmed is lost, nothing is delivered twice on a connection, everything is confirmed in the end |
| IP reassembly `cIpFrag` | `fdata`: fragments by key and offset, `has_last` | `defrag`, `add`, `dequeue`, `cleanup` | output thread `defrag` | fragments lost, repeated, reordered; colliding keys | packets are whole datagrams; incomplete ones are dropped |
| bypass queue, t1 | ring and `sizeOfBlocks` | `push`, `pop` | readers, packet buffer | account updated after publication | bound, no leak |
| dequeue window (methods 1-3) | sorted packets of several blocks | part of `writeThreadFunction` | trash | blocks held until the last packet leaves | time order, every block reaches the trash |
| output threads `PcapQueue_outputThread` | batch ring with `used` flags, per next thread `next_data`, two semaphores, `items_flag` | `push`, `push_batch`, `outThreadFunction`, `nextThreadFunction`, `addNextThread`, `removeNextThread`, `stop` | each other in a chain, packet locks of blocks, `cIpFrag` | fork and join of a batch, results handed on while others work, the number of threads changes, termination at any point | order kept, each packet analysed once and handed on or destroyed, a source in order, nobody waits for ever |
| query cache and store process (`MySqlStore`) | cache files, `qfiles_load`, `query_buff`, batch, last SQL error | `query_to_file`, `threadQFilesCheckPeriod`, `threadLoadFromQFiles`, `loadFromQFile`, `MySqlStore_process::store`, destructors | all writers of SQL, the file system with inotify, the database | file removed before its queries are stored; several store threads; retries with side effects; files that cannot be written or read; crash, termination and restart | in normal operation a query is lost only with its line, overtaking is limited, the cache drains, the program ends |
| call table, SIP/RTP pipeline, spool cleaning, tar/async files, TCP reassembly, TLS, client/server, fraud, manager ... | see `PROJECT.json` | | | | not modelled yet or not at all, see section 7 |

## 2. Modules and the code they model

| module | models | checked by |
|---|---|---|
| `BoundedFifo` | abstract specification: a FIFO queue of bounded length with look and remove | target of the refinement |
| `RQueue` | `rqueue_quick` of `rqueue.h`, one action per shared access | `MCRQueue`, `RQueue_proofs` |
| `RQueue_proofs` | theorems about `RQueue` | tlapm |
| `PacketBuffer` | `pcap_store_queue`, `pcap_file_store`, `cBuffersControl`, write thread, trash, destroy thread | `MCPacketBuffer`, the two proof modules below |
| `PacketBuffer_proofs` | theorems about the owners of blocks, their deletion, the spill files and the disk limit | tlapm |
| `PacketMemory_proofs` | theorems about the memory accounts and the memory limit | tlapm |
| `Mirror` | mirror sender and receiver | `MCMirror`, `Mirror_proofs` |
| `Mirror_proofs` | theorems about mirroring: order, no loss | tlapm |
| `IpFrag` | `cIpFrag` as the defrag thread uses it | `MCIpFrag`, `IpFrag_proofs` |
| `IpFrag_proofs` | theorems about reassembly: whole datagrams, completion noticed | tlapm |
| `OrderedPipe` | abstract specification: a bounded pipe that keeps the order and may discard only the packet whose turn it is | target of the refinement |
| `OrderedPipe_proofs` | theorem about every implementation of `OrderedPipe` | tlapm |
| `OutThread` | `PcapQueue_outputThread`: a stage of type detach, defrag, dedup or detach2 with its next threads | `MCOutThread`, `OutThread_proofs` |
| `OutThread_proofs` | theorems about a stage: accounting, analysis, order, refinement of `OrderedPipe` | tlapm |
| `SqlStore` | query cache of `sql_db.cpp`: writer, loader, inotify, store threads, end and start of the program | `MCSqlStore`, `SqlStore_proofs` |
| `SqlStore_proofs` | theorems about the query cache: loss, order, repetition | tlapm |

The `MC*` modules only add a symmetry set and values of constants. Operators that a
comment calls a mutant are not part of the models: each is a plausible bug in the
definition that follows it, used to show that a property can fail.

### RQueue

`buffer`, `free`, `readit`, `writeit` and `lock` are the fields of the class; `pc`,
`item` and `got` say where each thread is in its call and what it carries. `push` is
`PushCall`, `Lock`, `PushFree` / `PushWait` / `PushFail`, `PushCopy`, `PushPublish` (the
flag), `PushAdvance` (the index); `pop`, `popq` and `get` + `moveReadit` are `PopCall`,
`Lock`, `PopFull` / `PopFail`, `PopCopy`, `PopRelease`, `PopAdvance`; `GetReturn` is
`get` alone. With `RQUEUE_SAFE` (the build's setting) flags and indices are updated with
atomic built-ins, so each update is one step. `queue` is a history variable, changed
where the ring's effect becomes visible. `ThreadsAssumption` is the callers' rule: a
side with several threads passes `useLock`. `pop` with `waitForFree` has no caller and
is left out.

### PacketBuffer

A block is a record: its place (producer, queue, writer, trash), whether its data is in
memory, its file, whether it is compressed, how many of its packets are locked. Block
objects are numbers, and a deleted one may be allocated again. Sizes are units. `setup` is
the configuration the process was started with (producers, limits, compression, destroy
thread, which faults occur); it is chosen in `Init` from the constant `Setups` and never
changes.

* `push`: `PushCheck` (first check), `PushAskFile` / `PushToDisk` (under
  `lock_fileStore`; `StoreToFile` is the common part: full disk, new file, write, failed
  write), `PushMemoryCheck`, `PushMemoryAdd` (a separate step, as in the code),
  `PushEnqueue`. A producer whose push fails keeps its block and calls again.
* write thread: `PopFront`, `PopFromFile` or `PopFromFileFail`, `PopCount` with
  `cleanupFileStore`, `UncompressBegin`, `UncompressEnd` or `UncompressFail`, `HandPacket`,
  `TrashPush`, `TrashLeaveUsed`, `TrashAccount` (the three separate effects of
  `blockStoreTrashPush`), `CleanupBlockStoreTrash` or `SkipCleanup`. The age conditions
  of the trash are a choice of how many of the oldest blocks are old enough.
* other threads: `DestroyBlock` (with `opt_ipaccount`), `UnlockPacket`, `Terminate`.

When pop deletes a block the thread's position is `dangling` and it stops there: what
follows is undefined behaviour, and `NoDangling` and `DanglingOnlyByReadFault` say when it
is reached. The removal
of a block from the trash, its subtraction from the trash account and its deletion are
one step: they follow each other in one thread and nothing else refers to the block.

### Mirror

The sender is `NextBlock`, `SocketConnect`, `HandshakeDone` / `HandshakeFail`, `WritePiece`,
`WriteTimeout`, `WriteFail`, `Response`, `NoResponse`. A connection is a record with two
FIFO channels and the state of the receiver's thread. A block travels as a head and a
tail of equal length, so two pieces always fill a block in the restore buffer and a pair
that does not belong together fails the checksum (`Faulty`). After an error the
receiver skips the rest of what its last `recv` returned and searches for the next
head. `Receive` takes a piece, `PushBlock` is the end of the loop around
`pcapStoreQueue.push`, `EnforceClose` all the reasons for which the receiver closes,
`Break` the network. Every place where the code waits with a timeout may give up at any
time, unless `Prompt` says that a timeout ends only when nothing is under way.

### IpFrag

`fdata` maps a key (source address, identification) to the queued fragments by offset
and to `has_last`. `Layout` gives a datagram as the ascending offsets of its fragments, with its
length at the end; `Contiguous` is the loop of `add` that compares each offset with the end of
the fragment before. `Defrag` is `defrag`, `add` and `dequeue`; `packet` shows the fragments
of which the last step made a packet. Times are ages, capped above the limit. `Tick` lets
the timestamps of the traffic go on, `Cleanup` is `processDefrag_cleanup`.

### OutThread

Three kinds of threads share the state. The upstream thread is `Push` (the batch is
published when it is full or too old), `PushTerminating`, `PushBatch` (the idle flush). The
output thread is `OutTake`, then either `OutSerial` for each item, or `OutPost` for each next
thread, `OutEarlyPush` (items at the front are handed on while next threads work) or
`OutBegin`, `OutEnd`, `OutOwnEnd` (with one next thread it works on its own share), `OutJoin`
for each thread, `OutRest`, and `OutRelease`. Between batches it does a pending resize
(`OutCreate`, `OutCreated`, `OutTerm`, `OutTermJoined`). A next thread is `NextStart`,
`NextHead`, `NextWake`, `NextBegin`, `NextEnd`, `NextDone`, `NextReport`. `Share` and
`OwnShare` are the three places in which the code divides a batch, and `InShare` the items that
the loop over a share looks at. `data`, `ready` and `processing` are the fields of `next_data`,
`semWork` and `semDone` the two semaphores of a next thread. An analysis begins and
ends in separate steps, so that overlaps can be seen, and reports a verdict (keep or gone)
instead of computing one. `conf` is the configuration, chosen in `Init`; the two options
that decide about the semaphores are kept equal (see section 6). The stage starts with its
threads in their loops. `stop`, and the termination of the process, may come at any time;
`stop` joins the output thread only, and after the destructor the next threads take no
steps, since their memory is gone. The wait of a next thread and the test of its
`terminate` flag after it are one step.

Downstream is the sequence `out` and the counter `down` of packets in the next stage's
partial batch. A next stage whose ring is full only delays the output thread, and its
time-limited publication is left out.

### SqlStore

With `query_cache` the object `sqlStore` writes queries to files and another object,
`loadFromQFiles`, reads them. `files` has the files in the order of creation, which is the
order of the times in their names: what they hold, whether the writer has them open,
whether they are in the directory, their age. A query is its number.

* writer: `Write`, `WriteFails` (no file can be created), `CloseExceeded`. A failed `::write` is
  noticed by nobody: `FlushFails` takes from the open file what had not reached the disk, and
  `WriteDropped` is every later write to this file.
* loader, with `INotify` beside it: `LoaderFill`, `LoaderNext`, `LoaderOpen`, then for each line
  `LoaderPush` or `LoaderBadLine`, `LoaderReadFails` (the file cannot be opened, read or
  decompressed further), in each case `LoaderUnlink`, and `LoaderDone`. `PushTo` is the choice
  of the store thread: the shortest buffer, but the first thread as long as its buffer is below
  `next_threads_limit`, the others are empty and their number was not configured. By default
  there are 3 threads for cdr, message, sip_msg, register and IP accounting; the sizes are
  read one by one in the code, here at one moment.
* each store thread: `StorePop`, `StorePacketFull`, `StoreEmpty`, `StoreCreate`,
  `StoreCreateFails`, `StoreCall`, `StoreCallFails` (after some statements took effect, or only
  the answer is lost), `StoreCallRefused`, `StoreCheck`.
* the end of the program, in the order of the destructors: `Terminate`, `DeleteSqlStore`,
  `WaitProcess` for each process and `WaitsEnd`, `DeleteProcess` for each and `DeletesEnd`,
  `JoinLoader`. The loader may still be in a file: a push after `WaitProcess` starts a second
  store thread, which is `dangling` once its process is deleted; a push after `DeleteProcess`
  (`LoaderPushFreed`) works in freed memory, where the query disappears, or the loader hangs
  (`dangling`), or the process crashes.
* `Crash` may happen at any time and leaves any prefix of the open file; `Restart` follows
  every end.

Whether inotify is used and how many store threads there are is chosen in `Init`; the watch is
set before any file is closed. `damaged` is a history variable: queries whose line could not be
written or read. `Lost` is not bookkeeping but derived: a query that was written and is nowhere.
The model is of a sniffer with `mysql_enable_new_store` off (the default): `_store` separates the
queries of the old and the new store, and the second list is empty.

Time is in units in which the periods are given. The check thread runs every 250 ms, so
`Tick` does not pass a unit while a file is open past its period. `PeriodsAssumption` is the
relation between the two periods on which the separation of writer and loader rests (the
code does not check it): a file is closed before it is old enough to be loaded.

## 3. Runs

Passing runs:

| run | shows | bounds, and why they are enough |
|---|---|---|
| `RQueue_ring` | `IndInv`, `NoSlotRace`, `SizeExactAtRest`, `RefinesFifo`, `Drains`, `WaitEnds` | 2 producers that share the lock, 1 consumer without one, so both disciplines occur and a producer loses its slot to the other; 3 slots: wrap, full, empty, and a slot that is neither first nor last; 2 values tell order apart. `WaitEnds` has the exception of a producer that the other one overtakes for ever, which nothing in `push` excludes. The safety properties are proved for all values, a consumer side with a lock included. |
| `PacketBuffer_safety` | `TypeOK`, `OneOwner`, `AccountingExact`, `PlainMemoryBounded`, `DanglingOnlyByReadFault`, `FilesServeBlocks`, `DiskBounded`, `DeletedWhenUnused` | four setups (below); up to 4 blocks of 2 packets, compressed 1 and raw 2 units: one block in each place at a time; files of 2 blocks, ids wrap after 3, cleanup every 2nd pop |
| `PacketBuffer_live` | `Served`, `TrashEmptied`, `StopsUnlessWaiting` | 3 blocks: one in memory, two that spill; the file wait and termination happen |
| `Mirror_prompt` | `TypeOK`, `NoLoss`, `AllConfirmed` | 3 blocks, 3 connections: two reconnections at any point, rejected blocks |
| `Mirror_late` | `OncePerConnection` with late answers and timeouts | 3 blocks, 2 connections, window of 3 pieces: one and a half blocks fit |
| `IpFrag_own` | `WholeDatagrams`, `NoneCompleteHeld`, `Released` | datagrams of 3 and 2 fragments of different lengths, the code's limits of 2 seconds |
| `OutThread_stage` | `TypeOK`, `PacketsAccounted`, `AnalysedOnce`, `AnalysedBeforePassed`, `SourceInOrder`, `QuietBetweenBatches`, `StageIsOrderedPipe`, `StageDrains`, `StopCompletes`, `ResizeCompletes` | ring of 2 batches of 3 items, 3 packets of 2 sources: full and partial batches, a wrap, a batch in use while the next is filled; four configurations: detach2 with one next thread and both semaphores, defrag with one that a second joins, by which sources change their thread between batches, detach with zero to two that come and go with one semaphore, and dedup with none |
| `SqlStore_restart` | `TypeOK`, `NoOvertaking`, `StoredOnce`, `LossOnlyAtEnd`, `CacheDrains`, `ShutdownCompletes` | `MaxEvents` bounds queries and faults together: 3 queries with 1 fault, 2 with 2, 1 with 3, at every point, a fault being also each line that cannot be written or read; one store thread with and without inotify, and two, of which the second gets queries when the first has `NextLimit = 2` (100 in the code) waiting; batches of 2, so that 3 queries need two; both periods 1, so that files overlap in time |

The setups of `PacketBuffer_safety` are values of the variable `setup`, from which every
behaviour starts with one: `Compressed` (2 producers, compressed blocks), `Tight` (2
producers race for a memory of one block: `PlainMemoryBounded` is strict and is nearly
reached), `Destroying` (the destroy thread; the trash exceeds `DestroyMin` and a locked
front is passed over) and `Disk` with failing writes and reads.

Runs that expect a violation: `PacketBuffer_memory_violation` (setup `SpillSetups`: 8 blocks,
because the account must drift by several), `PacketBuffer_read_violation`,
`Mirror_loss_violation` and `SqlStore_restart_violation`; see section 6.

`CHECK_DEADLOCK FALSE` is set where the system may really stop: the packet buffer after
termination or a dangling pointer, the mirror when all blocks are confirmed, an output thread after `stop`, the query cache
when nothing is written any more. Symmetry is
used for the producers of `PacketBuffer_safety`, which has no liveness property.

Bounds of the models: `MaxBlocks` (block objects alive at once, or blocks of a mirror
sender), `MaxPackets`, `MaxThreads` and `maxResize` of a stage, `MaxQueries` and `MaxEvents` of
the query cache, `MaxConns`, `FileIdMax` and `CounterMod` (2^32 in the code; `FileIdMax` is small so
that ids wrap, `CounterMod` is above the number of blocks), the caps `Interval + 1` and
`Limit + 1` of ages.

## 4. Fairness

* `RQueue`: weak fairness of the steps of a push in progress, its wait included, and of the
  consumer's polling loop; strong fairness of `Lock`, since a thread that spins for a lock that
  is free again and again gets it in the end. Nothing obliges a producer to call push. Strong fairness of
  `PopRelease`: a consumer that looks at the front again and again with `get` removes it in
  the end, as t1 does once the packet buffer takes the block.
* `PacketBuffer`: weak fairness of each thread. The properties `Served` and `TrashEmptied`
  assume that producers keep coming with blocks, because only a push makes a spill file
  full. Strong fairness of the full cleanup: it is done again and again (every second, or
  when the trash exceeds 20%), and the oldest blocks grow older than 100 ms. Weak
  fairness of `UnlockPacket`: whoever has a packet is done with it in the end; the threads
  behind the output threads are not modelled.
* `Mirror`: weak fairness of the sender and of the receiver's threads; strong fairness of
  `WriteFail`: a send on a connection that is down fails in the end, although single
  ones may still succeed; strong fairness of `ReceiveWhole`: the sender repeats a block
  until it is confirmed, and damage in memory or on the way, which the receiver's
  checksum finds, does not hit every copy. Connections need not break, and there is always
  one left.
* `IpFrag`: time passes and the thread processes batches. Fragments need not arrive.
* `OutThread`: weak fairness of the output thread and of each next thread, of the join in
  `stop`, and of `push_batch` in the idle loops before and in the stage: they add up their
  sleeps and flush when the sum reaches the limit (with `usleep` set, as by default). Nothing
  is assumed of arrivals, resizes and termination.
* `SqlStore`: weak fairness of the threads that close files, read inotify and load, of the
  destructors, of the clock and of `Restart` (a service manager starts the program again); and
  for each store thread weak fairness of its steps with a failing database left out: a database
  that is asked again and again answers in the end; without it nothing could be stored. Nobody
  is obliged to write, fail, terminate or crash.

## 5. Proofs

A theorem holds for every value of the constants that the named assumptions of its module
allow; the run that checks the same property shows it on one instance, with liveness beside it.

| theorem | states | beyond the module's assumptions |
|---|---|---|
| `Invariance`, `SlotSafety`, `SizeCorrect` (`RQueue_proofs`) | `IndInv`, `NoSlotRace`, `SizeExactAtRest` | |
| `Refinement` (`RQueue_proofs`) | the ring implements `BoundedFifo` | |
| `TypeCorrect`, `Accounted`, `EachAnalysedOnce`, `PassedAfterAnalysis`, `SourcesInOrder`, `Quiet` (`OutThread_proofs`) | `TypeOK`, `PacketsAccounted`, `AnalysedOnce`, `AnalysedBeforePassed`, `SourceInOrder`, `QuietBetweenBatches` | |
| `StageImplementsPipe` (`OutThread_proofs`) | a stage implements `OrderedPipe` | |
| `LeaveInOrder` (`OutThread_proofs`) | hence `InOrder` of the packets that leave a stage | |
| `PacketsAreWhole`, `CompletionNoticed` (`IpFrag_proofs`) | `WholeDatagrams`, `NoneCompleteHeld` | `DistinctKeys`: no two datagrams share source and identification |
| `PipeInOrder` (`OrderedPipe_proofs`) | `InOrder`: order kept, each packet at most once | |
| `BufferTypes`, `BufferOneOwner`, `BufferWriterHasBlock` (`PacketBuffer_proofs`) | `TypeOK`, `OneOwner`, `WriterHasBlock` | |
| `SpillFilesServe`, `DanglingOnlyByFault`, `DeletedOnlyUnused` (`PacketBuffer_proofs`) | `FilesServeBlocks`, `DanglingOnlyByReadFault`, the action property `DeletedWhenUnused` | `[]FewFiles`: no more spill files than ids |
| `DiskStaysBounded` (`PacketBuffer_proofs`) | `DiskBounded` | |
| `FilesAreFew`, `SpilledBlocksSafe` (`PacketBuffer_proofs`) | `FewFiles`, and with it the three properties above without `[]FewFiles` | `EnoughNumbers`: the disk limit admits fewer blocks than there are ids |
| `BufferAccounts`, `BufferBounded` (`PacketMemory_proofs`) | `AccountingExact`, `PlainMemoryBounded` | |
| `MirrorTypes`, `MirrorOrder` (`Mirror_proofs`) | `TypeOK`, `OncePerConnection` | |
| `MirrorNoLoss` (`Mirror_proofs`) | `NoLoss` | `Prompt = TRUE`, `MaxBlocks < CounterMod` |
| `SqlTypes`, `SqlOrder`, `SqlOnce`, `SqlInvariance` (`SqlStore_proofs`) | `TypeOK`, `NoOvertaking`, `StoredOnce`, the inductive invariant | |
| `SqlLoss` (`SqlStore_proofs`) | the action property `LossOnlyAtEnd` | |

### RQueue

For every number of slots (`LengthAssumption`: at least one), every set of values and every set
of threads that keeps the rule `ThreadsAssumption`. `NoSlotRace` is not inductive: that a
producer is not at the consumer's slot depends on what both have seen earlier. `IndInv` is the
strengthening. `TypeOK` contains that a flag is 0 or 1. `LockInv` says who is inside a call and
thus that one thread of a side at most is (`Mutex`). `RingInv` says that the occupied slots are
the `Len(queue)` slots from `Front` on and hold the queue in order; `Front` and `Back` are the
indices corrected for a thread that has updated its flag and not yet its index, which is what
makes the invariant hold between the two steps. `StepInv` says that what a thread saw is still
so. The argument: modular arithmetic on slots (`PlaceNext`, `PlaceInjective`), room and items
(`RoomForPush`, `ItemForPop`), then one lemma for each part of the invariant (`TypeStep`,
`LockStep`, `RingStep` with `RingPublish` and `RingRelease` for the only steps that change the
queue, `StepStep`). In the refinement `FifoStep` maps `PushPublish` to `Put`, `PopCopy` to `Peek`,
`PopRelease` to `Take`, `GetReturn` to `Drop`, and the rest to stuttering.

### OrderedPipe

The invariant of `PipeInOrder` relates what is inside to what has left, since a packet that
leaves must be younger than all before it; `GrowingAppend` and `GrowingTail` are the two facts on
sequences. `OutThread` implements `OrderedPipe` (`StageImplementsPipe`), so it holds of the packets
that leave an output thread (`LeaveInOrder`).

### OutThread

For every ring and batch length (at least 1), any number of packets and next threads, any
hash, and every configuration, also one in which the two semaphore options differ. None of
the properties is inductive, and they need each other: that nothing is handed on before its
analysis depends on which thread works on what, that on the semaphores and flags, and those on
where the output thread is. `IInv` has these parts:

* `PhaseInv`: the position of the output thread fits its counters;
* `SlotsInv`: the published batches are the slots from `readit` up to `writeit`, all of them when
  `writeit` is used too; a partial batch is only at `writeit` and is not full;
* `OrderInv`: packet numbers grow within a batch and from slot to slot in ring order;
* `ThreadsInv`: a next thread that was given a share the output thread still awaits (`Posted`)
  has not yet noticed it, works on it or left with it, or has done it; any other is idle or is
  being removed. For each of these the flags and the two semaphores are described, for each of
  the three ways to synchronise;
* `AnalysisInv`: outside the batch at hand nothing in the ring is analysed (`Untouched`); within
  it, what is analysed is what each actor has passed in its share (`SharesDone`); an actor is
  busy with the item of its share that it has come to (`BusyInv`); a flag is only on an analysed
  item (`FlagsInv`);
* `AccountInv`: what was handed on was analysed, is not gone and is older than what is inside;
  what is gone and still in the ring has a flag that says so; every number up to `arrived` is
  inside, handed on or gone.

Shares of one batch are disjoint and cover it: every n-th item, the two halves, or for defrag the
items whose hash belongs to the thread. The last gives `SourceInOrder` too, since one thread has
all the packets of a source in a batch, and the batches follow each other. A thread that left
with its share (`Abandoned`, section 6) counts as working: the output thread waits for it for
ever and hands on only what comes before the first item that was not analysed.

In the refinement the queue of the pipe is `Pending`, the packets in the ring in ascending
order, and no history variable is needed. `SortsUnique` and `AscendingIs` show that an ascending
sequence is determined by its set, by the least index at which two would differ, in place of an
induction over its length. With it `StagePipe` maps `Push` to `Accept`, the steps that hand an
item on to `Deliver` or `Discard`, `Delete` to `Close` and the rest to stuttering; `RoomLeft`
counts slots and positions for the capacity.

### IpFrag

For any datagrams, cut into any number of fragments of any lengths. `QueueInv` says that the
queue of a datagram's key holds fragments of this datagram only, each at its offset, that
`has_last` is set if and only if the last one is among them (`Mine`), and that it does not hold all
(`Whole`). Completeness is decided in the code by walking along the fragments: if the first and
the last are queued and one is missing, the greatest missing one (`GreatestMissing`) has a queued
successor that does not start where the fragment queued before it ends. So `Contiguous` fails
(`CompleteIsWhole`), without a sum of lengths. `RankOfFragment` says that fragment `i` has
`i - 1` offsets below it, by a bijection, hence that `dequeue` joins them in order
(`DequeuedWhole`). `DistinctKeys` is needed: two datagrams with one key may be mixed (section 6),
and `MCIpFrag` keeps the keys apart as well.

### PacketBuffer

`OneOwner` counts the places that refer to a block, which no single step can be reasoned about
from: `OwnInv` says instead that the place written in a block and the lists agree.
`ProducersOwn`: a producer inside push has a block of its own, marked so. `Lists`: queue and
trash list the blocks marked so, each once. `WriterOwns`: the write thread has the one block
marked so, or has just put it at the end of the trash; this is where it matters that the destroy
thread leaves the youngest block alone, and what `DestroyMin` of at least 2 (3 in the code) and
`KeepAssumption` (a cleanup leaves the youngest blocks, 5 in the code) are for. `LocksHeld`: only
blocks in the trash or in work are locked. Each step is one hand-over, and there is a lemma
`...Own` for each.

The spill files need more: `FileInv` says where a block is spilled (`SpillInv`), that ids are
consecutive modulo the largest one (`NumberedTo`), and that the counters of a file cover its
unread blocks, exactly so unless a read has failed (`FilesServe`). Two files with one id would let
pop read from the wrong one, so the three theorems have the hypothesis `[]FewFiles`, that there
are at most `FileIdMax` files.

What the files occupy is a sum, `TotalSize`, over a sequence of any length. It is defined as the
cardinality of the set of pairs of a file and a unit in it, so that its changes are shown by
inclusions and injections of finite sets: a new file adds nothing (`UnitsOpened`), a stored
block at most `RawSize` (`UnitsStored`), a cleanup only removes (`UnitsCleaned`). With check and
store under one lock this gives `DiskStaysBounded`, and from it follows what the code relies on
for its ids. `FilledInv` says that every file but the last is full, and a full one holds a
block, so n files occupy at least n - 1 blocks; if the limit admits fewer blocks than there are
ids (`EnoughNumbers`, as 2^32 ids are for any disk), there are never more files than ids
(`FilesAreFew`), and `SpilledBlocksSafe` has the three properties without `[]FewFiles`.

The accounts: `MemInv` adds to `OwnInv` that without a disk buffer no block is in a file, and
that `used` is the size of the blocks in `Charged`; sums over finite sets of blocks are
cardinalities of the compressed and the uncompressed ones, to which the lemmas of
`FiniteSetTheorems` apply. `PlainMemoryBounded` is about check and add as separate steps: the
invariant `PlainInv` bounds `Load`, which counts what is in the accounts, the block between them
and one block for each producer between its check and its add. A producer that passes the check
brings at most its own block on top of a load that was below 90% of the limit at that time,
whatever the other producers do.

### Mirror

`MirrorOrder` makes no assumption on timeouts, losses or the width of the counter. `OrderInv`
says that the pieces on a connection carry non-decreasing block numbers (the sender repeats a
block and never goes back), and that there is a last block taken (`LastTaken`) to which the
receiver's counter belongs, with all deliveries at or below it and all that is to come at or
above it. The number is existentially quantified, since the counter itself wraps.

`MirrorNoLoss` is about answers without a number. `PromptInv` describes the sender's connection
at each of its positions (`InStep`): how many pieces of the current block are under way, and that
at most one answer is, which is `block_ok` only when the receiver has the block (`Answers`).
`Prompt = TRUE` says that a timeout fires only with nothing under way; without it the property
is false (finding 3). `MaxBlocks < CounterMod` excludes that the counter returns to a value still
in use; it has 32 bits in the code, where a repetition is always of the current block.

### SqlStore

The constants are the two periods (`PeriodsAssumption`), the batch limit, the number of store
threads and their limit, and the bounds on queries and faults, which may be any numbers.
`LossOnlyAtEnd` depends on the whole path: the loader removes a file when it has read it, so
nothing must be in the file that it has neither pushed nor found damaged, and nothing may be
written to it later. `SqlInv` is:

* `FilesOrdered`: lines grow within a file and from file to file, and only the last may be open;
* `ClosedInTime`: an open file is not past its period by more than a unit (the check every
  250 ms), so the file the loader has is closed: it was old enough, by `SavePeriod < 2 *
  LoadPeriod`, or was reported by the event of its close;
* `KnowsOldest`: the loader's file is the oldest; with inotify it knows every file it has not
  taken, except younger ones that are open or have an event still to be read;
* `LifeInv`, `ThreadsInv`: what the state of the program, and the place of each store thread, say
  of the loader, the buffers, the batches and the noted errors;
* `PathInv`: for each store thread its batch, its buffer, the lines still to be pushed and the
  other files hold growing query numbers in this order; no query is with two threads; and what
  is in the database more than once, or is still to be sent again, is covered by crashes and
  repeated calls;
* `OlderInv`: what is in memory or in the database comes from an older file than those in the
  directory, or from the same one, which is closed then. This is what limits overtaking when
  several threads share the queries;
* `RestInv`: what is still to be pushed is in the file being read;
* `AheadInv`: with one thread (and, once the program has terminated, batches of more than one
  query) a query on its way that is neither settled nor damaged comes after all in the database;
* `ReadInv`: what was read from the file at hand is in memory, settled or damaged, unless the
  program terminates and a thread has given up.

`PathInv` is stated for arguments (`Path`) and not for the variables, so that what a step does to
the path is a lemma on sequences, which the lemmas for the actions (`...Keeps`) cite: for a
pushed line, a popped query, a sent batch, an opened file, a lost memory (`PathForgets`). A step
of a store thread changes four functions in one place each; `OneChanged` says so, and one lemma
for all kinds of step rests on it. `SqlOrder` then is `AheadInv` for one thread and `OlderInv`
for several.

### Only model-checked

* All liveness properties (`Drains`, `WaitEnds`, `Served`, `TrashEmptied`, `StopsUnlessWaiting`,
  `AllConfirmed`, `Released`, `StageDrains`, `StopCompletes`, `ResizeCompletes`, `CacheDrains`,
  `ShutdownCompletes`): the prover has no reasoning about fairness.

Every invariant and every other action property that a passing run checks, and both
refinements, are proved.

## 6. Where the code and its documentation disagree

1. Memory limit and disk buffer (`PacketBuffer_memory_violation`): a block that is read back
   from disk is not added to `pb_used_size` and yet subtracted from it. The limit is not kept.
   Without a disk buffer and compression it is (`PlainMemoryBounded`).
2. Failed read from a spill file (`PacketBuffer_read_violation`): the write thread goes on with a
   deleted block. It is the only way to one (`DanglingOnlyByReadFault`).
3. Mirror confirmation (`Mirror_loss_violation`): answers carry no number, so a late one
   confirms the wrong block. With prompt answers nothing is lost (`Mirror_prompt`).
4. Query cache and restarts (`SqlStore_restart_violation`): the configuration file promises that
   queries survive a restart. A file is removed when its queries are in memory, and a
   terminating program gives up a batch at the first failed attempt: these queries are lost.
   In normal operation only those are whose lines could not be written or read (`LossOnlyAtEnd`).

Observations without a run of their own:

* a next thread that notices the termination with a share assigned to it leaves without
  reporting (`pcap_queue.cpp:10763`, `10780`), and the output thread, and with it `stop`, waits
  for ever. `StopCompletes` names this exception (`Abandoned`); without it TLC finds the hang;
* `termNextThread` posts the semaphore, and the constructor of the thread's data creates it,
  according to `process_rtp_packets_hash_next_thread_sem_sync`, while the threads wait on it
  according to `pre_process_packets_next_thread_sem_sync` (`pcap_queue.cpp:10875`, `10767`,
  `pcap_queue.h:1403`): with only the second one set a removal does not end. `MCConfs`
  keeps both equal; the mutant of `ResizeCompletes` shows the other case;
* the destructor of a stage forgets the packets of a partial batch, whose count is still 0;
* `queryqueue_length` in `MySqlStore_process::store` is reset and never increased
  (`sql_db.cpp:3817`): the length of a batch is not limited, only a single query's is, hence
  `StorePacketFull` depends on the query alone;
* a query may be executed again after a crash between its storing and the removal of its
  file, or when a call failed after an effect (`StoredOnce` says that it is only then);
* the results of writes to a cache file are not looked at (`sql_db.cpp:4415`), and after a failed
  one the rest of the file's queries are dropped without a message of their own (`tools.cpp:4610`);
* a cache file that cannot be opened, read or decompressed, and one with bad lines, is removed
  like one that was loaded (`sql_db.cpp:4706`), with the queries it holds;
* `~MySqlStore` deletes the store processes before it joins the loader (`sql_db.cpp:4176`): a
  loader in the middle of a file goes on with freed memory, and one that pushes between
  `waitForTerminate` and the deletion starts a second thread on a process that is deleted under
  it. `ShutdownCompletes` and `CacheDrains` name the hang of the loader as their exception;
  without it TLC finds it;
* with several store threads, the default for calls and messages, queries of one file may reach
  the database in another order than they were written (`NoOvertaking` says how far);
* with `mysqlstore_concat_limit` 1 a terminating store thread whose call failed sends the next
  query all the same, hence the exception in `NoOvertaking`;
* blocks are admitted with their compressed size and grow in memory when they are
  decompressed (`AccountingExact` shows that the account follows, the limit does not);
* the disk limit may be exceeded by a block (`DiskBounded` shows that it is no more);
* a mirror block whose 32-bit counter is 0 after a wrap is taken for a repetition when it is
  the first on a connection;
* `has_last` does not mean that the last fragment is queued: with two datagrams of the same
  source and identification a part may pass for the whole;
* the write thread waits for a full spill file without looking at the termination flag, and
  with a disk limit below the file size producer and write thread can wait for each other;
* repeated blocks are delivered again after a reconnection.

## 7. What is not modelled

Inside the modelled parts: the delay of push with `opt_scanpcapdir`; the DPDK block pool and
its account; the account of asynchronous file writes in the memory limit; forced deletion by
`packetbuffer_block_timeout` (off by default) and by the destructor of the buffer
(`pcap_queue.cpp:7861`), which both delete locked blocks; the dequeue window; in mirroring the refusal
because of a time difference, termination, and the mode without confirmation; in
reassembly the clamp of the total length at 0xFFFF; in the output threads what a stage
computes (a verdict stands for it; the split of the reassembly over threads is
`SourceInOrder`) and the back-pressure of the next stage; in the SQL store the mode without
a cache, several kinds of query (each has files, loader and threads of its own), the new store
(`mysql_enable_new_store`), `query_cache_speed` (off by default: the loader does not wait for
empty buffers), redirection, server, remote and cloud stores, transactions, the loops on a missing procedure and on a deadlock (both
repeat the statement), and the forced end on a second signal.

Whole parts: parsers and evaluation (SIP, RTP quality, skinny, mgcp, hep, ipfix, diameter,
fraud, billing, charts, filters) are data processing with little control that a model would
show; cryptography; the manager and configuration are I/O; vendored code. Candidates with
control worth modelling are in the plan.

## 8. Plan

Done first, because everything else passes through it: `RQueue` with its proofs,
`PacketBuffer`, `Mirror`, `IpFrag`; then the stages behind it (`OutThread`) and the other end of
the program (`SqlStore`). Next, in this order:

1. `BypassQueue`: `pcap_block_store_queue` and thread t1, composing `RQueue` (through
   `BoundedFifo`) with the push of `PacketBuffer`; its account and the leak on failed compression.
2. `DequeueWindow`: methods 1 to 3, order by time, every block reaches the trash.
3. `CallLifecycle`: a call between call table, finished calls and storing threads.
4. `ClientServer`: blocks from a sniffer client to a server (`server.cpp`), confirmation by counter.
5. `AsyncClose`, spool cleaning, `TcpReassembly`, packet deduplication, `FifoBuffer`.

Abstract specifications worth adding: a lossless buffer that `PacketBuffer` implements when no
fault occurs; an at-least-once channel for `Mirror` with prompt answers.

Proofs worth adding with them: that `BypassQueue` needs of the ring only what `BoundedFifo`
promises, so that `Refinement` of `RQueue_proofs` carries over; the chain of two stages as an
`OrderedPipe`, from `StageImplementsPipe` of each.
