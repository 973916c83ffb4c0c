----------------------------- MODULE OutThread -----------------------------
(***************************************************************************)
(* One stage of the packet pipeline behind the packet buffer: class        *)
(* PcapQueue_outputThread (src/pcap_queue.h:1339, src/pcap_queue.cpp:10107)*)
(* of type detach, defrag, dedup or detach2.                               *)
(*                                                                         *)
(*  - The upstream thread fills batches of a ring (push) and publishes a   *)
(*    partial batch when it has been idle for a while (push_batch).        *)
(*  - The output thread (outThreadFunction) takes a batch, shares its      *)
(*    items among the "next" threads and hands the results downstream in   *)
(*    order, partly while the next threads still work.                     *)
(*  - A next thread (nextThreadFunction) waits on a semaphore or spins on  *)
(*    data_ready, analyses its share and reports.                          *)
(*  - The statistics thread asks for one thread more or one less           *)
(*    (addNextThread, removeNextThread); the output thread does it between *)
(*    batches.                                                             *)
(*  - The process may terminate (is_terminating) and the stage be stopped  *)
(*    (stop) and deleted at any time.                                      *)
(*                                                                         *)
(* Actor 0 is the output thread, actor i > 0 is next_threads[i - 1].       *)
(***************************************************************************)
EXTENDS Integers, Sequences, FiniteSets

CONSTANTS
    QRingLength,    \* qring_length
    BatchLength,    \* qring_batch_item_length
    MaxPackets,     \* bound: how many packets arrive
    MaxThreads,     \* opt_pre_process_packets_next_thread_max
    Hash,           \* getHashNumber() of a packet's source address
    Confs           \* the configurations that are explored

\* Packets carry the number of their arrival.
Packets == 1..MaxPackets

Threads == 1..MaxThreads

\* type: the type of the stage; opt: the configured number of next threads;
\* semSync: pre_process_packets_next_thread_sem_sync; termSync: whether
\* process_rtp_packets_hash_next_thread_sem_sync, the option that
\* termNextThread reads, is set; usleep: preprocess_packets_qring_usleep # 0;
\* maxResize: bound on the requests to add or remove a thread.
ConfType ==
    [type : {"detach", "defrag", "dedup", "detach2"}, opt : 0..MaxThreads,
     semSync : 0..2, termSync : BOOLEAN, usleep : BOOLEAN,
     maxResize : Nat]

ASSUME OutThreadAssumption ==
    /\ QRingLength \in Nat \ {0}
    /\ BatchLength \in Nat \ {0}
    /\ MaxPackets \in Nat
    /\ MaxThreads \in Nat
    /\ Hash \in [Packets -> Nat]
    /\ Confs \subseteq ConfType

VARIABLES
    conf,               \* the configuration, fixed in Init
    terminating,        \* is_terminating()
    terminatingThread,  \* asks the threads of this stage to end
    stop,               \* stop() and the destructor: none, joining, stopped, deleted
    qring,              \* slot -> [batch, count, used]
    writeit,            \* slot that is filled next
    readit,             \* slot that is read next
    pushing,            \* qring_push_index # 0: slot writeit holds a partial batch
    arrived,            \* how many packets have arrived
    outPc,              \* where the output thread is
    nThreads,           \* next_threads_count
    countMod,           \* next_threads_count_mod
    resizes,            \* how many resize requests were made
    n,                  \* _next_threads_count, sampled for the batch
    k,                  \* loop counter over the next threads
    completed,          \* items of the batch that were handed on
    flag,               \* items_flag: 0, 1 (keep) or -1 (gone)
    nextPc,             \* where each next thread is
    data,               \* the share in next_data of each next thread
    ready,              \* next_data.data_ready of each next thread
    processing,         \* next_data.processing of each next thread
    semWork,            \* sem_sync[0] of each next thread
    semDone,            \* sem_sync[1] of each next thread
    terminate,          \* terminate of each next thread
    at,                 \* batch_index of each actor
    busy,               \* the packet each actor is analysing, 0 if none
    analysed,           \* packets whose analysis has ended
    out,                \* packets handed downstream, oldest first
    gone,               \* packets destroyed, or kept by the defragmenter
    down                \* items in the partial batch of the next stage

ringVars == <<qring, writeit, pushing, arrived>>
endVars == <<conf, terminating, terminatingThread, stop>>
sizeVars == <<nThreads, countMod, resizes>>
workVars == <<nextPc, data, ready, processing, semWork, semDone, terminate>>
anVars == <<at, busy, analysed, flag>>
passVars == <<out, gone, down>>
vars == <<endVars, ringVars, readit, outPc, sizeVars, n, k, completed, workVars,
          anVars, passVars>>

Slots == 0..QRingLength - 1

\* Mutant of NextSlot: the index does not wrap.
NextSlotNoWrap(s) == s + 1

\* The slot after s; the ring wraps.
NextSlot(s) == IF s + 1 = QRingLength THEN 0 ELSE s + 1

\* A slot of the ring.
Slot(batch, count, used) == [batch |-> batch, count |-> count, used |-> used]

\* s_next_thread_data::null; no batch is assigned.
NullData == [start |-> 0, end |-> 0, skip |-> 0, index |-> 0, batch |-> FALSE]

\* The items start, start + skip, ... before end of the batch; for defrag those of them
\* with this thread_index.
Piece(start, end, skip, index) ==
    [start |-> start, end |-> end, skip |-> skip, index |-> index, batch |-> TRUE]

\* The constructor and start(); the threads have entered their loops.
Init ==
    /\ conf \in Confs
    /\ terminating = FALSE
    /\ terminatingThread = FALSE
    /\ stop = "none"
    /\ qring = [s \in Slots |-> Slot(<<>>, 0, FALSE)]
    /\ writeit = 0
    /\ readit = 0
    /\ pushing = FALSE
    /\ arrived = 0
    /\ outPc = "loop"
    /\ nThreads = IF conf.type = "dedup" THEN 0 ELSE conf.opt
    /\ countMod = 0
    /\ resizes = 0
    /\ n = 0
    /\ k = 0
    /\ completed = 0
    /\ flag = [j \in 0..BatchLength - 1 |-> 0]
    /\ nextPc = [i \in Threads |-> IF i <= nThreads THEN "head" ELSE "none"]
    /\ data = [i \in Threads |-> NullData]
    /\ ready = [i \in Threads |-> FALSE]
    /\ processing = [i \in Threads |-> FALSE]
    /\ semWork = [i \in Threads |-> 0]
    /\ semDone = [i \in Threads |-> 0]
    /\ terminate = [i \in Threads |-> FALSE]
    /\ at = [a \in {0} \cup Threads |-> 0]
    /\ busy = [a \in {0} \cup Threads |-> 0]
    /\ analysed = {}
    /\ out = <<>>
    /\ gone = {}
    /\ down = 0

-----------------------------------------------------------------------------
(* The upstream thread. *)

\* The active batch is complete: count and used are set, writeit moves on.
Publish(batch) ==
    /\ qring' = [qring EXCEPT ![writeit] = Slot(batch, Len(batch), TRUE)]
    /\ writeit' = NextSlot(writeit)
    /\ pushing' = FALSE

\* push: without an active batch the thread waits for a free slot; the batch
\* is published when it is full or when the packet is more than
\* push_batch_limit_ms younger than the first one.
Push(late) ==
    /\ stop = "none"
    /\ ~terminating
    /\ arrived < MaxPackets
    /\ pushing \/ ~qring[writeit].used
    /\ late => pushing
    /\ LET batch == Append(IF pushing THEN qring[writeit].batch ELSE <<>>, arrived + 1)
       IN  \/ /\ Len(batch) = BatchLength \/ late
              /\ Publish(batch)
           \/ /\ ~(Len(batch) = BatchLength \/ late)
              /\ qring' = [qring EXCEPT ![writeit] =
                              Slot(batch, qring[writeit].count, qring[writeit].used)]
              /\ pushing' = TRUE
              /\ UNCHANGED writeit
    /\ arrived' = arrived + 1
    /\ UNCHANGED <<endVars, readit, outPc, sizeVars, n, k, completed, workVars,
                   anVars, passVars>>

\* push when the process terminates, at the start or in the waiting loop.
PushTerminating ==
    /\ stop = "none"
    /\ terminating
    /\ arrived < MaxPackets
    /\ arrived' = arrived + 1
    /\ gone' = gone \cup {arrived + 1}
    /\ UNCHANGED <<endVars, qring, writeit, pushing, readit, outPc, sizeVars, n, k,
                   completed, workVars, anVars, out, down>>

\* Mutant of PushBatch: a batch of one packet is not flushed.
PushBatchNotOne ==
    /\ stop = "none"
    /\ ~terminating
    /\ conf.usleep
    /\ pushing
    /\ Len(qring[writeit].batch) > 1
    /\ Publish(qring[writeit].batch)
    /\ UNCHANGED <<endVars, arrived, readit, outPc, sizeVars, n, k, completed, workVars,
                   anVars, passVars>>

\* push_batch, called by the upstream thread when it has slept long enough: the first
\* two guards are those of the loops that call it, push_batch itself has none.
PushBatch ==
    /\ stop = "none"
    /\ ~terminating
    /\ conf.usleep
    /\ pushing
    /\ Publish(qring[writeit].batch)
    /\ UNCHANGED <<endVars, arrived, readit, outPc, sizeVars, n, k, completed, workVars,
                   anVars, passVars>>

-----------------------------------------------------------------------------
(* The output thread. *)

Batch == qring[readit].batch
Count == qring[readit].count

Ending == terminating \/ terminatingThread

\* Mutant of OutExit: terminatingThread is not read.
OutExitProcessOnly ==
    /\ outPc = "loop"
    /\ terminating
    /\ outPc' = "done"
    /\ UNCHANGED <<endVars, ringVars, readit, sizeVars, n, k, completed, workVars,
                   anVars, passVars>>

\* The head of the loop when the thread has to end.
OutExit ==
    /\ outPc = "loop"
    /\ Ending
    /\ outPc' = "done"
    /\ UNCHANGED <<endVars, ringVars, readit, sizeVars, n, k, completed, workVars,
                   anVars, passVars>>

\* createNextThread up to the creation of the thread.
OutCreate ==
    /\ outPc = "loop"
    /\ ~Ending
    /\ countMod > 0
    /\ IF nThreads < MaxThreads
       THEN /\ data' = [data EXCEPT ![nThreads + 1] = NullData]
            /\ ready' = [ready EXCEPT ![nThreads + 1] = FALSE]
            /\ processing' = [processing EXCEPT ![nThreads + 1] = FALSE]
            /\ semWork' = [semWork EXCEPT ![nThreads + 1] = 0]
            /\ semDone' = [semDone EXCEPT ![nThreads + 1] = 0]
            /\ terminate' = [terminate EXCEPT ![nThreads + 1] = FALSE]
            /\ nextPc' = [nextPc EXCEPT ![nThreads + 1] = "start"]
            /\ outPc' = "created"
            /\ UNCHANGED countMod
       ELSE /\ countMod' = 0
            /\ outPc' = "batch"
            /\ UNCHANGED workVars
    /\ UNCHANGED <<endVars, ringVars, readit, nThreads, resizes, n, k, completed,
                   anVars, passVars>>

\* The new thread has announced its thread_id.
OutCreated ==
    /\ outPc = "created"
    /\ nextPc[nThreads + 1] # "start"
    /\ nThreads' = nThreads + 1
    /\ countMod' = 0
    /\ outPc' = "batch"
    /\ UNCHANGED <<endVars, ringVars, readit, resizes, n, k, completed, workVars,
                   anVars, passVars>>

\* Whether the number of threads may shrink.
MayRemove == nThreads > 0 /\ (conf.opt <= 0 \/ nThreads > conf.opt)

\* Mutant of TermPosts: the semaphore is not posted although the thread waits
\* there, as when only the other option is set.
TermPostsNever == FALSE

\* Whether termNextThread posts sem_sync[0], so that a thread that waits
\* there notices: it asks the option of another part of the program.
TermPosts == conf.termSync

\* termNextThread up to the join.
OutTerm ==
    /\ outPc = "loop"
    /\ ~Ending
    /\ countMod < 0
    /\ IF MayRemove
       THEN /\ nThreads' = nThreads - 1
            /\ terminate' = [terminate EXCEPT ![nThreads] = TRUE]
            /\ semWork' = IF TermPosts THEN [semWork EXCEPT ![nThreads] = @ + 1] ELSE semWork
            /\ outPc' = "joined"
            /\ UNCHANGED countMod
       ELSE /\ countMod' = 0
            /\ outPc' = "batch"
            /\ UNCHANGED <<nThreads, semWork, terminate>>
    /\ UNCHANGED <<endVars, ringVars, readit, resizes, n, k, completed, nextPc, data,
                   ready, processing, semDone, anVars, passVars>>

\* termNextThread after the join.
OutTermJoined ==
    /\ outPc = "joined"
    /\ nextPc[nThreads + 1] = "exited"
    /\ nextPc' = [nextPc EXCEPT ![nThreads + 1] = "none"]
    /\ data' = [data EXCEPT ![nThreads + 1] = NullData]
    /\ ready' = [ready EXCEPT ![nThreads + 1] = FALSE]
    /\ processing' = [processing EXCEPT ![nThreads + 1] = FALSE]
    /\ semWork' = [semWork EXCEPT ![nThreads + 1] = 0]
    /\ semDone' = [semDone EXCEPT ![nThreads + 1] = 0]
    /\ terminate' = [terminate EXCEPT ![nThreads + 1] = FALSE]
    /\ countMod' = 0
    /\ outPc' = "batch"
    /\ UNCHANGED <<endVars, ringVars, readit, nThreads, resizes, n, k, completed,
                   anVars, passVars>>

\* The thread looks at the ring: at the head of the loop if there is nothing
\* else to do, or after a resize, when the termination flags are not read again.
Looking == outPc = "batch" \/ (outPc = "loop" /\ ~Ending /\ countMod = 0)

\* No batch is ready after a resize: the thread sleeps and goes round.
OutIdle ==
    /\ outPc = "batch"
    /\ ~qring[readit].used
    /\ outPc' = "loop"
    /\ UNCHANGED <<endVars, ringVars, readit, sizeVars, n, k, completed, workVars,
                   anVars, passVars>>

\* No batch was ready until the sum of the sleeps has reached
\* push_batch_limit_ms: push_batch of the next stage.  Without usleep the sum
\* never grows.
OutIdlePushBatch ==
    /\ Looking
    /\ ~qring[readit].used
    /\ conf.usleep
    /\ down > 0
    /\ down' = 0
    /\ outPc' = "loop"
    /\ UNCHANGED <<endVars, ringVars, readit, sizeVars, n, k, completed, workVars,
                   anVars, out, gone>>

\* A batch is taken: by the next threads if there are any, else by this one.
OutTake ==
    /\ Looking
    /\ qring[readit].used
    /\ n' = nThreads
    /\ k' = 1
    /\ completed' = 0
    /\ flag' = [j \in 0..BatchLength - 1 |-> 0]
    /\ outPc' = IF nThreads > 0 THEN "post" ELSE "serial"
    /\ UNCHANGED <<endVars, ringVars, readit, sizeVars, workVars, at, busy, analysed,
                   passVars>>

\* Mutant of ThreadIndex: packets are dealt out by their number.
ThreadIndexByNumber(p) == p % (IF n > 1 THEN n ELSE n + 1)

\* items_thread_index: the thread that defragments the packets of a source.  Hash
\* stands for items_index, the hash of the addresses modulo DEFRAG_THREADS_SPLIT, and
\* 0 for a packet without an IP header.
ThreadIndex(p) == Hash[p] % (IF n > 1 THEN n ELSE n + 1)

\* Mutant of Share: the share of a single next thread starts one item early.
ShareOverlap(i) ==
    IF conf.type = "defrag"
    THEN Piece(0, Count, 1, IF n > 1 THEN i - 1 ELSE i)
    ELSE IF n > 1
    THEN Piece(i - 1, Count, n, 0)
    ELSE Piece(0, Count, 1, 0)

\* next_data of next thread i: with several threads every n-th item, with one
\* thread the second half of the batch; for defrag the items of its sources.
Share(i) ==
    IF conf.type = "defrag"
    THEN Piece(0, Count, 1, IF n > 1 THEN i - 1 ELSE i)
    ELSE IF n > 1
    THEN Piece(i - 1, Count, n, 0)
    ELSE Piece((Count \div (n + 1)) * i,
               IF i = n THEN Count ELSE (Count \div (n + 1)) * (i + 1), 1, 0)

\* With one next thread the output thread takes the first half itself.
OwnShare ==
    IF conf.type = "defrag"
    THEN Piece(0, Count, 1, 0)
    ELSE Piece(0, Count \div (n + 1), 1, 0)

\* next thread k gets its share and is woken.
OutPost ==
    /\ outPc = "post"
    /\ data' = [data EXCEPT ![k] = Share(k)]
    /\ processing' = [processing EXCEPT ![k] = TRUE]
    /\ IF conf.semSync # 0
       THEN semWork' = [semWork EXCEPT ![k] = @ + 1] /\ UNCHANGED ready
       ELSE ready' = [ready EXCEPT ![k] = TRUE] /\ UNCHANGED semWork
    /\ k' = k + 1
    /\ outPc' = IF k < n THEN "post" ELSE IF n > 1 THEN "early" ELSE "own"
    /\ at' = [at EXCEPT ![0] = 0]
    /\ UNCHANGED <<endVars, ringVars, readit, sizeVars, n, completed, nextPc, semDone,
                   terminate, busy, analysed, flag, passVars>>

\* Mutant of PassOn: a refused packet is not destroyed.
PassOnKeep(p, f) ==
    \/ /\ f > 0 \/ conf.type = "detach"
       /\ out' = Append(out, p)
       /\ down' = (down + 1) % BatchLength
       /\ UNCHANGED gone
    \/ UNCHANGED <<out, down, gone>>

\* An item leaves the batch: it goes downstream, or it is destroyed because
\* its analysis or the next stage refuses it.  For defrag an item with flag -1
\* was already destroyed or kept by the thread that looked at it.  The flag 0 of an
\* item that was not analysed does not occur here (AnalysedBeforePassed): only the
\* code for detach2 would hand such an item on.  The next stage publishes its batch
\* when it is full.
PassOn(p, f) ==
    \/ /\ f > 0 \/ conf.type = "detach"
       /\ out' = Append(out, p)
       /\ down' = (down + 1) % BatchLength
       /\ UNCHANGED gone
    \/ /\ gone' = gone \cup {p}
       /\ UNCHANGED <<out, down>>

SomeProcessing == \E i \in 1..n : processing[i]

\* Mutant of OutEarlyPush: any item that is ready is handed on.
OutEarlyPushAny ==
    /\ outPc = "early"
    /\ SomeProcessing
    /\ \E j \in completed..Count - 1 :
        flag[j] # 0 /\ PassOn(Batch[j + 1], flag[j])
    /\ completed' = completed + 1
    /\ UNCHANGED <<endVars, ringVars, readit, outPc, sizeVars, n, k, workVars, anVars>>

\* While next threads work, items at the front that are ready are handed on.
OutEarlyPush ==
    /\ outPc = "early"
    /\ SomeProcessing
    /\ completed < Count
    /\ flag[completed] # 0
    /\ PassOn(Batch[completed + 1], flag[completed])
    /\ completed' = completed + 1
    /\ UNCHANGED <<endVars, ringVars, readit, outPc, sizeVars, n, k, workVars, anVars>>

OutEarlyEnd ==
    /\ outPc = "early"
    /\ ~SomeProcessing
    /\ outPc' = "join"
    /\ k' = 1
    /\ UNCHANGED <<endVars, ringVars, readit, sizeVars, n, completed, workVars, anVars,
                   passVars>>

\* The indexes of share d.
InShare(d) ==
    {j \in 0..BatchLength - 1 :
        /\ j >= d.start /\ j < d.end
        /\ (j - d.start) % d.skip = 0
        /\ conf.type = "defrag" => ThreadIndex(Batch[j + 1]) = d.index}

\* The indexes an actor with share d still has to look at.
Todo(a, d) == {j \in InShare(d) : j >= at[a]}

\* An actor starts to analyse the next item of its share.
Begin(a, d) ==
    /\ busy[a] = 0
    /\ \E j \in Todo(a, d) :
        /\ \A i \in Todo(a, d) : j <= i
        /\ at' = [at EXCEPT ![a] = j]
        /\ busy' = [busy EXCEPT ![a] = Batch[j + 1]]
    /\ UNCHANGED <<analysed, flag>>

\* What an analysis may report; findHeaderIp of a detach stage refuses nothing.
Verdicts == IF conf.type = "detach" THEN {1} ELSE {1, -1}

\* The analysis ends: processDefrag_defrag destroys the packet or keeps it as
\* a fragment when it reports -1.
End(a, f) ==
    /\ busy[a] # 0
    /\ analysed' = analysed \cup {busy[a]}
    /\ gone' = IF f < 0 /\ conf.type = "defrag" THEN gone \cup {busy[a]} ELSE gone
    /\ busy' = [busy EXCEPT ![a] = 0]
    /\ at' = [at EXCEPT ![a] = @ + 1]
    /\ UNCHANGED <<out, down>>

OutBegin ==
    /\ outPc = "own"
    /\ Begin(0, OwnShare)
    /\ UNCHANGED <<endVars, ringVars, readit, outPc, sizeVars, n, k, completed, workVars,
                   passVars>>

\* A detach stage does not flag the items of its own share.
OutEnd(f) ==
    /\ outPc = "own"
    /\ End(0, f)
    /\ flag' = IF conf.type = "detach" THEN flag ELSE [flag EXCEPT ![at[0]] = f]
    /\ UNCHANGED <<endVars, ringVars, readit, outPc, sizeVars, n, k, completed, workVars>>

\* Mutant of OutOwnEnd: the next thread is not awaited.
OutOwnEndNoJoin ==
    /\ outPc = "own"
    /\ busy[0] = 0
    /\ Todo(0, OwnShare) = {}
    /\ outPc' = "rest"
    /\ UNCHANGED <<endVars, ringVars, readit, sizeVars, n, k, completed, workVars, anVars,
                   passVars>>

\* The own share is done.
OutOwnEnd ==
    /\ outPc = "own"
    /\ busy[0] = 0
    /\ Todo(0, OwnShare) = {}
    /\ outPc' = "join"
    /\ k' = 1
    /\ UNCHANGED <<endVars, ringVars, readit, sizeVars, n, completed, workVars, anVars,
                   passVars>>

\* The output thread waits for next thread k.
OutJoin ==
    /\ outPc = "join"
    /\ IF conf.semSync = 2
       THEN semDone[k] > 0 /\ semDone' = [semDone EXCEPT ![k] = @ - 1]
       ELSE ~processing[k] /\ UNCHANGED semDone
    /\ k' = k + 1
    /\ outPc' = IF k < n THEN "join" ELSE "rest"
    /\ UNCHANGED <<endVars, ringVars, readit, sizeVars, n, completed, nextPc, data,
                   ready, processing, semWork, terminate, anVars, passVars>>

\* After the join the items that are left are handed on.
OutRest ==
    /\ outPc = "rest"
    /\ completed < Count
    /\ PassOn(Batch[completed + 1], flag[completed])
    /\ completed' = completed + 1
    /\ UNCHANGED <<endVars, ringVars, readit, outPc, sizeVars, n, k, workVars, anVars>>

\* Without next threads an item is analysed and handed on in one go
\* (processDetach, processDefrag, processDedup, processDetach2).
OutSerial(f) ==
    /\ outPc = "serial"
    /\ completed < Count
    /\ analysed' = analysed \cup {Batch[completed + 1]}
    /\ PassOn(Batch[completed + 1], f)
    /\ completed' = completed + 1
    /\ UNCHANGED <<endVars, ringVars, readit, outPc, sizeVars, n, k, workVars,
                   at, busy, flag>>

\* The batch is given back to the upstream thread.
OutRelease ==
    /\ outPc \in {"rest", "serial"}
    /\ completed = Count
    /\ qring' = [qring EXCEPT ![readit] = Slot(Batch, 0, FALSE)]
    /\ readit' = NextSlot(readit)
    /\ completed' = 0
    /\ outPc' = "loop"
    /\ UNCHANGED <<endVars, writeit, pushing, arrived, sizeVars, n, k, workVars, anVars,
                   passVars>>

OutStep ==
    \/ OutExit \/ OutCreate \/ OutCreated \/ OutTerm \/ OutTermJoined
    \/ OutIdle \/ OutTake \/ OutPost \/ OutEarlyPush \/ OutEarlyEnd
    \/ OutBegin \/ (\E f \in Verdicts : OutEnd(f)) \/ OutOwnEnd
    \/ OutJoin \/ OutRest \/ (\E f \in Verdicts : OutSerial(f)) \/ OutRelease

-----------------------------------------------------------------------------
(* The next threads.  When the stage is deleted their memory is gone. *)

\* A new thread announces its thread_id.
NextStart(i) ==
    /\ nextPc[i] = "start"
    /\ nextPc' = [nextPc EXCEPT ![i] = "head"]
    /\ UNCHANGED <<endVars, ringVars, readit, outPc, sizeVars, n, k, completed, data,
                   ready, processing, semWork, semDone, terminate, anVars, passVars>>

\* The head of the loop.
NextHead(i) ==
    /\ nextPc[i] = "head"
    /\ nextPc' = [nextPc EXCEPT ![i] = IF Ending THEN "exited" ELSE "wait"]
    /\ UNCHANGED <<endVars, ringVars, readit, outPc, sizeVars, n, k, completed, data,
                   ready, processing, semWork, semDone, terminate, anVars, passVars>>

\* The thread is woken: it ends, or works on its share if it has one.
NextWake(i) ==
    /\ nextPc[i] = "wait"
    /\ IF conf.semSync # 0
       THEN /\ semWork[i] > 0
            /\ semWork' = [semWork EXCEPT ![i] = @ - 1]
            /\ UNCHANGED ready
       ELSE /\ terminatingThread \/ ready[i] \/ terminate[i]
            /\ ready' = [ready EXCEPT ![i] = FALSE]
            /\ UNCHANGED semWork
    /\ nextPc' = [nextPc EXCEPT ![i] =
                    IF terminatingThread \/ terminate[i] THEN "exited"
                    ELSE IF data[i].batch THEN "work" ELSE "head"]
    /\ at' = [at EXCEPT ![i] = data[i].start]
    /\ UNCHANGED <<endVars, ringVars, readit, outPc, sizeVars, n, k, completed, data,
                   processing, semDone, terminate, busy, analysed, flag, passVars>>

\* Mutant of NextBegin: the item is flagged before its analysis.
NextBeginFlags(i) ==
    /\ nextPc[i] = "work"
    /\ busy[i] = 0
    /\ \E j \in Todo(i, data[i]) :
        /\ \A x \in Todo(i, data[i]) : j <= x
        /\ at' = [at EXCEPT ![i] = j]
        /\ busy' = [busy EXCEPT ![i] = Batch[j + 1]]
        /\ flag' = [flag EXCEPT ![j] = 1]
    /\ UNCHANGED <<endVars, ringVars, readit, outPc, sizeVars, n, k, completed, workVars,
                   analysed, passVars>>

NextBegin(i) ==
    /\ nextPc[i] = "work"
    /\ Begin(i, data[i])
    /\ UNCHANGED <<endVars, ringVars, readit, outPc, sizeVars, n, k, completed, workVars,
                   passVars>>

NextEnd(i, f) ==
    /\ nextPc[i] = "work"
    /\ End(i, f)
    /\ flag' = [flag EXCEPT ![at[i]] = f]
    /\ UNCHANGED <<endVars, ringVars, readit, outPc, sizeVars, n, k, completed, workVars>>

\* The share is done: processing is cleared.
NextDone(i) ==
    /\ nextPc[i] = "work"
    /\ busy[i] = 0
    /\ Todo(i, data[i]) = {}
    /\ processing' = [processing EXCEPT ![i] = FALSE]
    /\ nextPc' = [nextPc EXCEPT ![i] = IF conf.semSync = 2 THEN "report" ELSE "head"]
    /\ UNCHANGED <<endVars, ringVars, readit, outPc, sizeVars, n, k, completed, data,
                   ready, semWork, semDone, terminate, anVars, passVars>>

\* With sem_sync 2 the thread also posts sem_sync[1].
NextReport(i) ==
    /\ nextPc[i] = "report"
    /\ semDone' = [semDone EXCEPT ![i] = @ + 1]
    /\ nextPc' = [nextPc EXCEPT ![i] = "head"]
    /\ UNCHANGED <<endVars, ringVars, readit, outPc, sizeVars, n, k, completed, data,
                   ready, processing, semWork, terminate, anVars, passVars>>

NextStep(i) ==
    /\ stop # "deleted"
    /\ \/ NextStart(i) \/ NextHead(i) \/ NextWake(i)
       \/ NextBegin(i) \/ (\E f \in Verdicts : NextEnd(i, f))
       \/ NextDone(i) \/ NextReport(i)

-----------------------------------------------------------------------------
(* The statistics thread and the end of the stage. *)

AddNextThread ==
    /\ stop = "none"
    /\ conf.type # "dedup"
    /\ resizes < conf.maxResize
    /\ nThreads < MaxThreads
    /\ countMod' = 1
    /\ resizes' = resizes + 1
    /\ UNCHANGED <<endVars, ringVars, readit, outPc, nThreads, n, k, completed, workVars,
                   anVars, passVars>>

RemoveNextThread ==
    /\ stop = "none"
    /\ conf.type # "dedup"
    /\ resizes < conf.maxResize
    /\ MayRemove
    /\ countMod' = -1
    /\ resizes' = resizes + 1
    /\ UNCHANGED <<endVars, ringVars, readit, outPc, nThreads, n, k, completed, workVars,
                   anVars, passVars>>

\* set_terminating()
Terminate ==
    /\ ~terminating
    /\ terminating' = TRUE
    /\ UNCHANGED <<conf, terminatingThread, stop, ringVars, readit, outPc, sizeVars, n, k,
                   completed, workVars, anVars, passVars>>

\* stop() up to the join.
StopCall ==
    /\ stop = "none"
    /\ terminatingThread' = TRUE
    /\ stop' = "joining"
    /\ UNCHANGED <<conf, terminating, ringVars, readit, outPc, sizeVars, n, k, completed,
                   workVars, anVars, passVars>>

\* The output thread has ended; the next threads are not joined.
StopJoined ==
    /\ stop = "joining"
    /\ outPc = "done"
    /\ terminatingThread' = FALSE
    /\ stop' = "stopped"
    /\ UNCHANGED <<conf, terminating, ringVars, readit, outPc, sizeVars, n, k, completed,
                   workVars, anVars, passVars>>

\* The destructor destroys the packets of the published batches; the packets
\* of a partial batch, whose count is still 0, are forgotten.
Delete ==
    /\ stop = "stopped"
    /\ stop' = "deleted"
    /\ gone' = gone \cup UNION {{qring[s].batch[j] : j \in 1..qring[s].count} : s \in Slots}
    /\ qring' = [s \in Slots |-> Slot(<<>>, 0, FALSE)]
    /\ pushing' = FALSE
    /\ UNCHANGED <<conf, terminating, terminatingThread, writeit, arrived, readit, outPc,
                   sizeVars, n, k, completed, workVars, anVars, out, down>>

Next ==
    \/ \E late \in BOOLEAN : Push(late)
    \/ PushTerminating
    \/ PushBatch
    \/ OutStep
    \/ OutIdlePushBatch
    \/ \E i \in Threads : NextStep(i)
    \/ AddNextThread
    \/ RemoveNextThread
    \/ Terminate
    \/ StopCall
    \/ StopJoined
    \/ Delete

Spec == Init /\ [][Next]_vars

\* The threads run as long as they can.  The idle loops add up their sleeps
\* and call push_batch in the end: the upstream thread for this stage, the
\* output thread for the next one.  Nothing is assumed of arrivals, of requests
\* to resize or of termination.
Fairness ==
    /\ WF_vars(OutStep)
    /\ WF_vars(OutIdlePushBatch)
    /\ \A i \in Threads : WF_vars(NextStep(i))
    /\ WF_vars(PushBatch)
    /\ WF_vars(StopJoined)

FairSpec == Spec /\ Fairness

-----------------------------------------------------------------------------
(* Properties. *)

\* The type of the state.
TypeOK ==
    /\ conf \in Confs
    /\ terminating \in BOOLEAN
    /\ terminatingThread \in BOOLEAN
    /\ stop \in {"none", "joining", "stopped", "deleted"}
    /\ qring \in [Slots -> [batch : Seq(Packets), count : 0..BatchLength, used : BOOLEAN]]
    /\ \A s \in Slots : Len(qring[s].batch) <= BatchLength
    /\ writeit \in Slots
    /\ readit \in Slots
    /\ pushing \in BOOLEAN
    /\ arrived \in 0..MaxPackets
    /\ outPc \in {"loop", "created", "joined", "batch", "post", "early", "own", "join",
                  "rest", "serial", "done"}
    /\ nThreads \in 0..MaxThreads
    /\ countMod \in {-1, 0, 1}
    /\ resizes \in 0..conf.maxResize
    /\ n \in 0..MaxThreads
    /\ k \in 0..MaxThreads + 1
    /\ completed \in 0..BatchLength
    /\ flag \in [0..BatchLength - 1 -> {-1, 0, 1}]
    /\ nextPc \in [Threads -> {"none", "start", "head", "wait", "work", "report", "exited"}]
    /\ data \in [Threads -> [start : Nat, end : Nat, skip : Nat, index : Nat,
                             batch : BOOLEAN]]
    /\ ready \in [Threads -> BOOLEAN]
    /\ processing \in [Threads -> BOOLEAN]
    /\ semWork \in [Threads -> Nat]
    /\ semDone \in [Threads -> Nat]
    /\ terminate \in [Threads -> BOOLEAN]
    /\ at \in [{0} \cup Threads -> Nat]
    /\ busy \in [{0} \cup Threads -> 0..MaxPackets]
    /\ analysed \subseteq Packets
    /\ out \in Seq(Packets)
    /\ gone \subseteq Packets
    /\ down \in 0..BatchLength - 1

Elements(s) == {s[j] : j \in DOMAIN s}

\* The positions in the ring of the packets inside: what is left of the published
\* batches and the partial batch.
Held ==
    {x \in Slots \X (1..BatchLength) :
        \/ /\ qring[x[1]].used
           /\ x[2] <= qring[x[1]].count
           /\ x[1] = readit => x[2] > completed
        \/ /\ pushing /\ x[1] = writeit
           /\ x[2] <= Len(qring[x[1]].batch)}

\* The packets inside the stage.
Inside == {qring[x[1]].batch[x[2]] : x \in Held}

\* The numbers of S in ascending order.
Ascending(S) ==
    CHOOSE s \in [1..Cardinality(S) -> S] :
        /\ Elements(s) = S
        /\ \A i, j \in DOMAIN s : i < j => s[i] < s[j]

\* The packets inside the stage, oldest first.
Pending == Ascending(Inside)

Pipe == INSTANCE OrderedPipe WITH Packets <- Packets, Capacity <- QRingLength * BatchLength,
                                  queue <- Pending, out <- out

\* Whatever the number of next threads, and however it changes, the stage is
\* an ordered pipe: packets leave in the order of arrival, each once, although
\* they are analysed in parallel and handed on before all are analysed.
StageIsOrderedPipe == Pipe!Spec

\* Until the stage is deleted every packet that arrived is inside, was handed
\* on, or was destroyed, and none is handed on and destroyed as well: neither
\* a lock on its block is left behind nor is it released twice.
PacketsAccounted ==
    /\ Elements(out) \cap gone = {}
    /\ stop # "deleted" => Elements(out) \cup gone \cup Inside = 1..arrived

\* An item is analysed by one thread only and once, and the batch it lies in
\* is not given back to the upstream thread meanwhile.
AnalysedOnce ==
    \A a \in {0} \cup Threads : busy[a] # 0 =>
        /\ busy[a] \notin analysed
        /\ \A b \in {0} \cup Threads : b # a => busy[b] # busy[a]
        /\ qring[readit].used /\ busy[a] \in Elements(Batch)

\* No item goes downstream whose analysis has not ended.
AnalysedBeforePassed == Elements(out) \subseteq analysed

\* The defragmenter has a table for each hash and no lock on it: the packets
\* of a source are defragmented one after the other and in the order of their
\* arrival, also when the number of threads, and with it the thread in charge
\* of the source, changes.
SourceInOrder ==
    conf.type = "defrag" =>
        \A a \in {0} \cup Threads : busy[a] # 0 =>
            \A q \in 1..busy[a] - 1 :
                Hash[q] = Hash[busy[a]] => q \in analysed \cup gone

\* A thread that ended on a termination flag with work assigned to it.
Abandoned ==
    \E i \in Threads : nextPc[i] = "exited" /\ processing[i]

\* Between two batches no wake-up is left over in a semaphore or in
\* data_ready: a next thread is not woken before its next share is complete.
QuietBetweenBatches ==
    outPc \in {"loop", "batch"} =>
        \A i \in Threads :
            semWork[i] = 0 /\ semDone[i] = 0 /\ ~ready[i] /\ ~processing[i]

\* The stage drains, partial batches and the partial batch of the next stage
\* included, unless the process terminates or the stage is stopped.
StageDrains ==
    []<>((Pending = <<>> /\ down = 0) \/ terminating \/ stop # "none")

\* The output thread ends once it is asked to, unless a next thread left with
\* work assigned to it, whose end the output thread then awaits for ever.
StopCompletes == (stop = "joining") ~> (stop # "joining" \/ Abandoned)

\* Adding or removing a thread ends.
ResizeCompletes == (outPc \in {"created", "joined"}) ~> (outPc \notin {"created", "joined"})
=============================================================================
