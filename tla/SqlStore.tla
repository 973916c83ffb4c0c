------------------------------ MODULE SqlStore ------------------------------
(***************************************************************************)
(* The query cache of src/sql_db.cpp: with query_cache enabled a query is  *)
(* appended to a file by one MySqlStore object (sqlStore), and another     *)
(* object (loadFromQFiles) reads the files in the order of their creation, *)
(* pushes their queries to the buffers of store processes, removes the     *)
(* file and lets the threads of the processes send the buffers to the      *)
(* database.                                                               *)
(*                                                                         *)
(* The processes of the model: the callers of MySqlStore::query_lock       *)
(* (Write...), the thread that closes files (CloseExceeded), the inotify   *)
(* thread (INotify), the loader thread (Loader...), the store threads      *)
(* (Store...), the main thread that ends the program (Terminate, Destroy), *)
(* and the world: failing reads and writes, the clock (Tick), Crash and    *)
(* Restart.                                                                *)
(*                                                                         *)
(* One kind of query (id_main) with its store threads is modelled, for a   *)
(* sniffer that is neither server nor cloud client and has                 *)
(* mysql_enable_new_store off, the default: every query ends in the old    *)
(* terminator and a batch is one call of a stored procedure.  A query is   *)
(* its number in the order in which it was written, a file is its number   *)
(* in the order of creation, which is also the order of the times in the   *)
(* names of the files.                                                     *)
(***************************************************************************)
EXTENDS Naturals, Sequences, FiniteSets, SequencesExt

CONSTANTS
    SavePeriod,    \* save_query_to_files_period, in units of the model's clock
    LoadPeriod,    \* load_query_from_files_period
    ConcatLimit,   \* concatLimit: queries of one batch
    StoreThreads,  \* the largest number of store threads
    StoreThreadsSet, \* storeThreadsSet: the number of threads was configured
    Setups,        \* the values of inotify and threads that are explored
    NextLimit,     \* next_threads_limit
    MaxQueries,    \* bound: queries written
    MaxEvents      \* bound: queries written and faults together, a fault being
                   \* a termination, a crash, a call that fails after some
                   \* statements took effect, a query given up on an error, a
                   \* line that cannot be written or read

ASSUME PeriodsAssumption ==
    /\ SavePeriod \in Nat \ {0}
    /\ LoadPeriod \in Nat \ {0}
    /\ SavePeriod < 2 * LoadPeriod
ASSUME ConcatAssumption == ConcatLimit \in Nat \ {0}
ASSUME ThreadsAssumption ==
    /\ StoreThreads \in Nat \ {0}
    /\ StoreThreadsSet \in BOOLEAN
    /\ NextLimit \in Nat
    /\ Setups \subseteq [inotify : BOOLEAN, threads : 1 .. StoreThreads]
ASSUME BoundsAssumption == MaxQueries \in Nat /\ MaxEvents \in Nat

VARIABLES
    inotify,   \* loadFromQFileConfig.inotify
    threads,   \* storeThreads of the kind of query
    life,      \* where the program is: "up", then "flush", "wait", "delete" and
               \* "join" while it terminates, "down"
    written,   \* number of queries handed to query_lock
    files,     \* sequence of [lines, open, onDisk, age]
    writeError, \* the fileZipHandler of the open file has an error
    events,    \* IN_CLOSE_WRITE events not yet read
    qload,     \* qfiles_load: files the loader knows of (inotify only)
    loader,    \* [pc, file, rest] of threadLoadFromQFiles
    buff,      \* query_buff of each store process
    queue,     \* queryqueue, local to MySqlStore_process::store
    store,     \* where each store thread is
    sqlError,  \* sqlDb->getLastError() # 0
    joined,    \* the processes whose end the destructor has waited for
    db,        \* the queries the database executed, in order
    failed,    \* queries given up with an error in the log
    damaged,   \* history: queries whose line could not be written or read
    terms, crashes, reruns

config == <<inotify, threads>>
cache == <<events, qload>>
process == <<buff, queue, store, sqlError, joined>>
counters == <<terms, crashes, reruns>>
vars == <<inotify, threads, life, written, files, writeError, events, qload, loader,
          buff, queue, store, sqlError, joined, db, failed, damaged, terms, crashes,
          reruns>>

MaxAge == 2 * LoadPeriod + 1
Queries == 1 .. MaxQueries
Ids == 0 .. StoreThreads - 1      \* id_2 of the store processes
Active == 0 .. threads - 1

Faults == terms + crashes + reruns + Cardinality(failed) + Cardinality(damaged)
Room(n) == written + Faults + n <= MaxEvents

(* is_terminating() *)
Terminating == life \in {"flush", "wait", "delete", "join"}
Running == life # "down"

Idle == [pc |-> "start", file |-> 0, rest |-> << >>]

Init ==
    /\ \E s \in Setups : inotify = s.inotify /\ threads = s.threads
    /\ life = "up"
    /\ written = 0
    /\ files = << >>
    /\ writeError = FALSE
    /\ events = << >>
    /\ qload = {}
    /\ loader = Idle
    /\ buff = [t \in Ids |-> << >>]
    /\ queue = [t \in Ids |-> << >>]
    /\ store = [t \in Ids |-> "none"]
    /\ sqlError = [t \in Ids |-> FALSE]
    /\ joined = {}
    /\ db = << >>
    /\ failed = {}
    /\ damaged = {}
    /\ terms = 0
    /\ crashes = 0
    /\ reruns = 0

-----------------------------------------------------------------------------
(* The writer: MySqlStore::query_to_file and threadQFilesCheckPeriod.      *)

OpenFiles == {f \in DOMAIN files : files[f].open}
Exceeded(f) == files[f].age > SavePeriod
NewFile(q) == [lines |-> <<q>>, open |-> TRUE, onDisk |-> TRUE, age |-> 0]

(* QFile::close of the files F *)
Closed(F) == [f \in DOMAIN files |->
                 [files[f] EXCEPT !.open = IF f \in F THEN FALSE ELSE @]]

(* The kernel reports the closing of a file to the loader's inotify. *)
CloseEvents(F) == IF inotify THEN events \o SetToSeq(F) ELSE events

(* A query is appended to the open file; a file past its period is closed  *)
(* and a new one created.                                                  *)
Write ==
    /\ life \in {"up", "flush"}
    /\ written < MaxQueries /\ Room(1)
    /\ ~ writeError \/ \A f \in OpenFiles : Exceeded(f)
    /\ written' = written + 1
    /\ writeError' = FALSE
    /\ LET old == {f \in OpenFiles : Exceeded(f)}
           cur == OpenFiles \ old
       IN  /\ events' = CloseEvents(old)
           /\ files' = IF cur # {}
                       THEN [f \in DOMAIN files |->
                               [files[f] EXCEPT !.lines =
                                   IF f \in cur THEN Append(@, written') ELSE @]]
                       ELSE Append(Closed(old), NewFile(written'))
    /\ UNCHANGED <<config, life, qload, loader, process, db, failed, damaged, counters>>

(* The file cannot be created: the query is logged as an error and dropped. *)
WriteFails ==
    /\ life \in {"up", "flush"}
    /\ written < MaxQueries /\ Room(2)
    /\ \A f \in OpenFiles : Exceeded(f)
    /\ written' = written + 1
    /\ failed' = failed \cup {written'}
    /\ files' = Closed(OpenFiles)
    /\ events' = CloseEvents(OpenFiles)
    /\ UNCHANGED <<config, life, writeError, qload, loader, process, db, damaged, counters>>

(* FileZipHandler::write after an error: nobody looks at its result. *)
WriteDropped ==
    /\ life \in {"up", "flush"}
    /\ written < MaxQueries /\ Room(2)
    /\ writeError
    /\ \E f \in OpenFiles : ~ Exceeded(f)
    /\ written' = written + 1
    /\ damaged' = damaged \cup {written'}
    /\ UNCHANGED <<config, life, files, writeError, cache, loader, process, db, failed,
                   counters>>

(* ::write fails, in write, flushBuffer or close: what was still buffered   *)
(* of the open file is gone, and the file takes no more.                   *)
FlushFails ==
    /\ Running /\ ~ writeError
    /\ writeError' = TRUE
    /\ \E f \in OpenFiles : \E n \in 0 .. Len(files[f].lines) - 1 :
          /\ Room(Len(files[f].lines) - n)
          /\ files' = [files EXCEPT ![f].lines = SubSeq(@, 1, n)]
          /\ damaged' = damaged \cup
                        ToSet(SubSeq(files[f].lines, n + 1, Len(files[f].lines)))
    /\ UNCHANGED <<config, life, written, cache, loader, process, db, failed, counters>>

CloseExceeded ==
    /\ life = "up"
    /\ \E f \in OpenFiles : Exceeded(f)
    /\ files' = Closed({f \in OpenFiles : Exceeded(f)})
    /\ events' = CloseEvents({f \in OpenFiles : Exceeded(f)})
    /\ UNCHANGED <<config, life, written, writeError, qload, loader, process, db,
                   failed, damaged, counters>>

-----------------------------------------------------------------------------
(* The loader thread and the inotify thread of loadFromQFiles.             *)

(* addFileFromINotify *)
INotify ==
    /\ life = "up"
    /\ events # << >>
    /\ qload' = qload \cup {Head(events)}
    /\ events' = Tail(events)
    /\ UNCHANGED <<config, life, written, files, writeError, loader, process, db,
                   failed, damaged, counters>>

\* Mutant of Filled: files of an earlier run are not looked for.
FilledNone == qload

(* fillQFiles: every file of the directory, an open one included *)
Filled == IF inotify THEN qload \cup {f \in DOMAIN files : files[f].onDisk}
                     ELSE qload

LoaderFill ==
    /\ Running /\ loader.pc = "start"
    /\ loader' = [loader EXCEPT !.pc = "head"]
    /\ qload' = Filled
    /\ UNCHANGED <<config, life, written, files, writeError, events, process, db,
                   failed, damaged, counters>>

\* Mutant of OldEnough: one period is taken for enough.
OldEnoughOnce(f) == files[f].age > LoadPeriod
OldEnough(f) == files[f].age > 2 * LoadPeriod

\* Mutant of MinQFile: the newest file that is old enough.
MinQFileNewest ==
    LET known == IF inotify THEN qload
                            ELSE {f \in DOMAIN files : files[f].onDisk}
        old == {f \in known : OldEnough(f)}
    IN  {f \in old : \A g \in old : g <= f}

(* getMinQFile: the oldest file known, if it is old enough *)
MinQFile ==
    LET known == IF inotify THEN qload
                            ELSE {f \in DOMAIN files : files[f].onDisk}
    IN  {f \in known : (\A g \in known : f <= g) /\ OldEnough(f)}

LoaderNext ==
    /\ Running /\ loader.pc = "head" /\ ~ Terminating
    /\ \E f \in MinQFile :
          /\ loader' = [loader EXCEPT !.pc = "drain", !.file = f]
          /\ qload' = qload \ {f}
    /\ UNCHANGED <<config, life, written, files, writeError, events, process, db,
                   failed, damaged, counters>>

(* What loadFromQFile can read of a file: all of it; of one that is still  *)
(* open, what the writer has flushed.                                      *)
Readable(f) ==
    IF ~ files[f].onDisk THEN {<< >>}
    ELSE IF files[f].open
    THEN {SubSeq(files[f].lines, 1, n) : n \in 0 .. Len(files[f].lines)}
    ELSE {files[f].lines}

(* All buffers are empty: the file is opened.  existFilenameInQFiles never  *)
(* finds the file, the open files belong to the other object.              *)
LoaderOpen ==
    /\ Running /\ loader.pc = "drain" /\ ~ Terminating
    /\ \A t \in Ids : buff[t] = << >>
    /\ \E lines \in Readable(loader.file) :
          loader' = [loader EXCEPT !.pc = "read", !.rest = lines]
    /\ UNCHANGED <<config, life, written, files, writeError, cache, process, db, failed,
                   damaged, counters>>

(* The process that gets the next query: the first one with the shortest   *)
(* buffer (one that does not exist yet has none), but the first as long as *)
(* its buffer is short, the others are empty and nothing was configured.   *)
(* The sizes are looked at one by one; here, at one moment.                *)
PushTo ==
    LET shortest == {t \in Active : \A u \in Active : Len(buff[t]) <= Len(buff[u])}
    IN  IF /\ ~ StoreThreadsSet /\ Len(buff[0]) < NextLimit
           /\ \A t \in Active \ {0} : buff[t] = << >>
        THEN {0}
        ELSE {t \in shortest : \A u \in shortest : t <= u}

(* A process was deleted, and its pointer is still in the map. *)
Freed == \E t \in Ids : store[t] \in {"deleted", "dangling"}

(* query_lock, MySqlStore_process::query: the next line goes to a buffer,  *)
(* and a process without a thread gets one: a new process, but also one    *)
(* whose thread the destructor has waited for.                             *)
LoaderPush ==
    /\ Running /\ loader.pc = "read" /\ loader.rest # << >>
    /\ ~ Freed
    /\ loader' = [loader EXCEPT !.rest = Tail(@)]
    /\ \E t \in PushTo :
          /\ buff' = [buff EXCEPT ![t] = Append(@, Head(loader.rest))]
          /\ store' = [store EXCEPT ![t] = IF @ \in {"none", "joined"} THEN "fill" ELSE @]
    /\ UNCHANGED <<config, life, written, files, writeError, cache, queue, sqlError,
                   joined, db, failed, damaged, counters>>

(* The same with a deleted process: getSize and query_lock lock and change *)
(* freed memory.  The query disappears in it, or the loader never gets the *)
(* lock, or the program crashes (Crash).                                   *)
LoaderPushFreed ==
    /\ Running /\ loader.pc = "read" /\ loader.rest # << >>
    /\ Freed
    /\ \/ loader' = [loader EXCEPT !.rest = Tail(@)]
       \/ loader' = [loader EXCEPT !.pc = "dangling"]
    /\ UNCHANGED <<config, life, written, files, writeError, cache, process, db, failed,
                   damaged, counters>>

(* A line without the right form or length is skipped. *)
LoaderBadLine ==
    /\ Running /\ loader.pc = "read" /\ loader.rest # << >>
    /\ Room(1)
    /\ loader' = [loader EXCEPT !.rest = Tail(@)]
    /\ damaged' = damaged \cup {Head(loader.rest)}
    /\ UNCHANGED <<config, life, written, files, writeError, cache, process, db, failed,
                   counters>>

(* The file cannot be opened, read on or decompressed further. *)
LoaderReadFails ==
    /\ Running /\ loader.pc = "read" /\ loader.rest # << >>
    /\ Room(Len(loader.rest))
    /\ loader' = [loader EXCEPT !.rest = << >>]
    /\ damaged' = damaged \cup ToSet(loader.rest)
    /\ UNCHANGED <<config, life, written, files, writeError, cache, process, db, failed,
                   counters>>

\* Mutant of Unlinked: the file stays.
UnlinkedNever(f) == files
(* unlink: the entry and, unless the writer has it open, the content *)
Unlinked(f) == [files EXCEPT ![f].onDisk = FALSE,
                             ![f].lines = IF files[f].open THEN @ ELSE << >>]

(* The end of the file, reached or not: in each case it is removed. *)
LoaderUnlink ==
    /\ Running /\ loader.pc = "read" /\ loader.rest = << >>
    /\ files' = Unlinked(loader.file)
    /\ loader' = [loader EXCEPT !.pc = "head"]
    /\ UNCHANGED <<config, life, written, writeError, cache, process, db, failed,
                   damaged, counters>>

(* is_terminating() ends the loop, also while it waits for the buffer. *)
LoaderDone ==
    /\ Terminating
    /\ loader.pc \in {"head", "drain"}
    /\ loader' = [loader EXCEPT !.pc = "done"]
    /\ UNCHANGED <<config, life, written, files, writeError, cache, process, db,
                   failed, damaged, counters>>

-----------------------------------------------------------------------------
(* The store threads: MySqlStore_process::store and SqlDb_mysql::query.    *)

\* Mutant of BatchFull: the batch takes one query more.
BatchFullLate(n) == n > ConcatLimit
BatchFull(n) == n >= ConcatLimit

(* A query moves from the buffer to the batch.  With an error noted and    *)
(* the program terminating the loop is left, whatever the batch holds.     *)
StorePop(t) ==
    /\ Running /\ store[t] = "fill" /\ buff[t] # << >>
    /\ queue' = [queue EXCEPT ![t] = Append(@, Head(buff[t]))]
    /\ buff' = [buff EXCEPT ![t] = Tail(@)]
    /\ store' = [store EXCEPT ![t] = IF BatchFull(Len(queue[t]) + 1) THEN "create"
                                     ELSE IF Terminating /\ sqlError[t] THEN "check"
                                     ELSE "fill"]
    /\ UNCHANGED <<config, life, written, files, writeError, cache, loader, sqlError,
                   joined, db, failed, damaged, counters>>

(* A query longer than max_allowed_packet closes the batch before it. *)
StorePacketFull(t) ==
    /\ Running /\ store[t] = "fill" /\ buff[t] # << >> /\ queue[t] # << >>
    /\ store' = [store EXCEPT ![t] = "create"]
    /\ UNCHANGED <<config, life, written, files, writeError, cache, loader, buff, queue,
                   sqlError, joined, db, failed, damaged, counters>>

StoreEmpty(t) ==
    /\ Running /\ store[t] = "fill" /\ buff[t] = << >>
    /\ store' = [store EXCEPT ![t] = IF queue[t] = << >> THEN "check" ELSE "create"]
    /\ UNCHANGED <<config, life, written, files, writeError, cache, loader, buff, queue,
                   sqlError, joined, db, failed, damaged, counters>>

(* The batch leaves the thread, stored or not, and the loop goes on. *)
BatchEnds(t) ==
    /\ queue' = [queue EXCEPT ![t] = << >>]
    /\ store' = [store EXCEPT ![t] = "check"]

(* A statement fails: it is tried again for ever, unless the program is    *)
(* terminating.                                                            *)
RetryOrGiveUp(t) ==
    IF Terminating THEN BatchEnds(t) ELSE UNCHANGED <<queue, store>>

(* "drop procedure" and "create procedure" with the batch as its body.     *)
(* Nobody asks whether the drop failed.                                    *)
StoreCreate(t) ==
    /\ Running /\ store[t] = "create"
    /\ store' = [store EXCEPT ![t] = "call"]
    /\ \E e \in {sqlError[t], TRUE} : sqlError' = [sqlError EXCEPT ![t] = e]
    /\ UNCHANGED <<config, life, written, files, writeError, cache, loader, buff, queue,
                   joined, db, failed, damaged, counters>>

StoreCreateFails(t) ==
    /\ Running /\ store[t] = "create"
    /\ sqlError' = [sqlError EXCEPT ![t] = TRUE]
    /\ RetryOrGiveUp(t)
    /\ UNCHANGED <<config, life, written, files, writeError, cache, loader, buff,
                   joined, db, failed, damaged, counters>>

(* "call" of the procedure *)
StoreCall(t) ==
    /\ Running /\ store[t] = "call"
    /\ db' = db \o queue[t]
    /\ BatchEnds(t)
    /\ UNCHANGED <<config, life, written, files, writeError, cache, loader, buff,
                   sqlError, joined, failed, damaged, counters>>

(* The call fails, or its answer is lost, after n statements took effect. *)
StoreCallFails(t) ==
    /\ Running /\ store[t] = "call"
    /\ \E n \in 0 .. Len(queue[t]) :
          /\ n > 0 => Room(1)
          /\ reruns' = IF n > 0 THEN reruns + 1 ELSE reruns
          /\ db' = db \o SubSeq(queue[t], 1, n)
    /\ sqlError' = [sqlError EXCEPT ![t] = TRUE]
    /\ RetryOrGiveUp(t)
    /\ UNCHANGED <<config, life, written, files, writeError, cache, loader, buff,
                   joined, failed, damaged, terms, crashes>>

(* ignoreLastError, isSkipError: the statement after the n-th is refused   *)
(* and the rest of the batch is given up.                                  *)
StoreCallRefused(t) ==
    /\ Running /\ store[t] = "call"
    /\ \E n \in 0 .. Len(queue[t]) - 1 :
          /\ Room(Len(queue[t]) - n)
          /\ db' = db \o SubSeq(queue[t], 1, n)
          /\ failed' = failed \cup ToSet(SubSeq(queue[t], n + 1, Len(queue[t])))
    /\ sqlError' = [sqlError EXCEPT ![t] = TRUE]
    /\ BatchEnds(t)
    /\ UNCHANGED <<config, life, written, files, writeError, cache, loader, buff,
                   joined, damaged, counters>>

(* The end of the inner loop: the thread ends, or it sleeps and starts     *)
(* again with a new, empty queryqueue.                                     *)
\* Mutant of StoreLeaves: enableTerminatingIfEmpty is not set.
StoreLeavesIfError(t) == Terminating /\ sqlError[t]
StoreLeaves(t) == Terminating /\ (buff[t] = << >> \/ sqlError[t])

StoreCheck(t) ==
    /\ Running /\ store[t] = "check"
    /\ store' = [store EXCEPT ![t] = IF StoreLeaves(t) THEN "terminated" ELSE "fill"]
    /\ queue' = [queue EXCEPT ![t] = << >>]
    /\ UNCHANGED <<config, life, written, files, writeError, cache, loader, buff,
                   sqlError, joined, db, failed, damaged, counters>>

-----------------------------------------------------------------------------
(* The program's end and its next start.                                   *)

Terminate ==
    /\ life = "up" /\ Room(1)
    /\ life' = "flush"
    /\ terms' = terms + 1
    /\ UNCHANGED <<config, written, files, writeError, cache, loader, process, db,
                   failed, damaged, crashes, reruns>>

(* delete sqlStore: closeAllQFiles.  The inotify thread no longer reads. *)
DeleteSqlStore ==
    /\ life = "flush"
    /\ life' = "wait"
    /\ files' = Closed(OpenFiles)
    /\ UNCHANGED <<config, written, writeError, cache, loader, process, db, failed,
                   damaged, counters>>

(* delete loadFromQFiles, first loop: waitForTerminate of each process *)
WaitProcess(t) ==
    /\ life = "wait"
    /\ t \notin joined /\ store[t] = "terminated"
    /\ \A u \in Ids : u < t => u \in joined \/ store[u] = "none"
    /\ joined' = joined \cup {t}
    /\ store' = [store EXCEPT ![t] = "joined"]
    /\ UNCHANGED <<config, life, written, files, writeError, cache, loader, buff, queue,
                   sqlError, db, failed, damaged, counters>>

WaitsEnd ==
    /\ life = "wait"
    /\ \A t \in Ids : t \in joined \/ store[t] = "none"
    /\ life' = "delete"
    /\ UNCHANGED <<config, written, files, writeError, cache, loader, process, db,
                   failed, damaged, counters>>

(* Second loop: each process is deleted with what its buffer holds, after  *)
(* its thread unless `terminated' is still set from the first loop.  A     *)
(* thread that was started again goes on with freed memory.                *)
DeleteProcess(t) ==
    /\ life = "delete"
    /\ store[t] \notin {"none", "deleted", "dangling"}
    /\ t \in joined \/ store[t] = "terminated"
    /\ \A u \in Ids : u < t => store[u] \in {"none", "deleted", "dangling"}
    /\ store' = [store EXCEPT ![t] = IF @ \in {"joined", "terminated"} THEN "deleted"
                                                                     ELSE "dangling"]
    /\ buff' = [buff EXCEPT ![t] = << >>]
    /\ queue' = [queue EXCEPT ![t] = << >>]
    /\ UNCHANGED <<config, life, written, files, writeError, cache, loader, sqlError,
                   joined, db, failed, damaged, counters>>

DeletesEnd ==
    /\ life = "delete"
    /\ \A t \in Ids : store[t] \in {"none", "deleted", "dangling"}
    /\ life' = "join"
    /\ UNCHANGED <<config, written, files, writeError, cache, loader, process, db,
                   failed, damaged, counters>>

(* Memory is gone, the directory and the database stay. *)
MemoryLost ==
    /\ life' = "down"
    /\ writeError' = FALSE
    /\ events' = << >>
    /\ qload' = {}
    /\ loader' = Idle
    /\ buff' = [t \in Ids |-> << >>]
    /\ queue' = [t \in Ids |-> << >>]
    /\ store' = [t \in Ids |-> "none"]
    /\ sqlError' = [t \in Ids |-> FALSE]
    /\ joined' = {}
    /\ UNCHANGED <<config, written, db, failed, damaged, reruns>>

(* delete loadFromQFiles, last part: the loader thread is joined *)
JoinLoader ==
    /\ life = "join" /\ loader.pc = "done"
    /\ MemoryLost
    /\ UNCHANGED <<files, terms, crashes>>

(* A thread works in freed memory. *)
Undefined == loader.pc = "dangling" \/ \E t \in Ids : store[t] = "dangling"

(* Of the open file remains what had reached the disk. *)
Crash ==
    /\ Running /\ (Room(1) \/ Undefined)
    /\ crashes' = crashes + 1
    /\ \E n \in 0 .. MaxQueries :
          files' = [f \in DOMAIN files |->
                      [files[f] EXCEPT !.open = FALSE,
                         !.lines = IF files[f].open /\ n < Len(@)
                                   THEN SubSeq(@, 1, n) ELSE @]]
    /\ MemoryLost
    /\ UNCHANGED terms

Restart ==
    /\ life = "down"
    /\ life' = "up"
    /\ UNCHANGED <<config, written, files, writeError, cache, loader, process, db,
                   failed, damaged, counters>>

(* One unit of time.  The check thread looks at the files four times a     *)
(* second, so while it runs no file stays open for a unit past its period. *)
Tick ==
    /\ \E f \in DOMAIN files : files[f].age < MaxAge
    /\ life = "up" => \A f \in OpenFiles : ~ Exceeded(f)
    /\ files' = [f \in DOMAIN files |->
                   [files[f] EXCEPT !.age = IF @ < MaxAge THEN @ + 1 ELSE @]]
    /\ UNCHANGED <<config, life, written, writeError, cache, loader, process, db,
                   failed, damaged, counters>>

-----------------------------------------------------------------------------
Writer == Write \/ WriteFails \/ WriteDropped \/ CloseExceeded
Loader == \/ LoaderFill \/ LoaderNext \/ LoaderOpen \/ LoaderPush
          \/ LoaderPushFreed \/ LoaderUnlink \/ LoaderDone
IoFails == FlushFails \/ LoaderBadLine \/ LoaderReadFails
StoreSucceeds(t) == \/ StorePop(t) \/ StorePacketFull(t) \/ StoreEmpty(t)
                    \/ StoreCreate(t) \/ StoreCall(t) \/ StoreCheck(t)
StoreFails(t) == StoreCreateFails(t) \/ StoreCallFails(t) \/ StoreCallRefused(t)
Destroy == \/ DeleteSqlStore \/ WaitsEnd \/ DeletesEnd \/ JoinLoader
           \/ \E t \in Ids : WaitProcess(t) \/ DeleteProcess(t)

Next == \/ Writer \/ INotify \/ Loader \/ IoFails
        \/ \E t \in Ids : StoreSucceeds(t) \/ StoreFails(t)
        \/ Terminate \/ Destroy \/ Crash \/ Restart \/ Tick

Spec == Init /\ [][Next]_vars

(* The threads run and time passes; a program that has ended is started    *)
(* again; and a database that is asked again and again answers one day:    *)
(* failing calls do not count as a step of the store thread.               *)
Fairness ==
    /\ WF_vars(CloseExceeded)
    /\ WF_vars(INotify)
    /\ WF_vars(Loader)
    /\ WF_vars(Destroy)
    /\ WF_vars(Restart)
    /\ WF_vars(Tick)
    /\ \A t \in Ids : WF_vars(StoreSucceeds(t))

FairSpec == Spec /\ Fairness

-----------------------------------------------------------------------------
(* Properties *)

File == [lines : Seq(Queries), open : BOOLEAN, onDisk : BOOLEAN, age : 0 .. MaxAge]

StorePc == {"none", "fill", "create", "call", "check", "terminated", "joined",
            "deleted", "dangling"}
LoaderPc == {"start", "head", "drain", "read", "done", "dangling"}

TypeOK ==
    /\ inotify \in BOOLEAN
    /\ threads \in 1 .. StoreThreads
    /\ life \in {"up", "flush", "wait", "delete", "join", "down"}
    /\ written \in 0 .. MaxQueries
    /\ files \in Seq(File)
    /\ Cardinality(OpenFiles) <= 1
    /\ writeError \in BOOLEAN
    /\ events \in Seq(DOMAIN files)
    /\ qload \subseteq DOMAIN files
    /\ loader \in [pc : LoaderPc, file : {0} \cup DOMAIN files, rest : Seq(Queries)]
    /\ buff \in [Ids -> Seq(Queries)]
    /\ queue \in [Ids -> Seq(Queries)]
    /\ \A t \in Ids : Len(queue[t]) <= ConcatLimit
    /\ store \in [Ids -> StorePc]
    /\ sqlError \in [Ids -> BOOLEAN]
    /\ joined \subseteq Ids
    /\ db \in Seq(Queries)
    /\ failed \subseteq Queries
    /\ damaged \subseteq Queries
    /\ terms \in Nat /\ crashes \in Nat /\ reruns \in Nat

(* Where a query that has been written still is. *)
InFiles == UNION {ToSet(files[f].lines) : f \in {g \in DOMAIN files : files[g].onDisk}}
AtStores == UNION {ToSet(buff[t]) \cup ToSet(queue[t]) : t \in Ids}
InMemory == ToSet(loader.rest) \cup AtStores
Settled == ToSet(db) \cup failed
Lost == (1 .. written) \ (InFiles \cup InMemory \cup Settled)

(* A query that was written is lost only by a crash, while the program     *)
(* terminates, or because its line could not be written to the cache file  *)
(* or read from it: otherwise the file, the buffers, the batches, the      *)
(* database and the log of errors always account for it between them,      *)
(* however files are closed, loaded and removed, queries are dealt out to  *)
(* store threads and calls fail.                                           *)
LossOnlyAtEnd ==
    [][Lost' \subseteq Lost \cup damaged' \/ Terminating \/ life' = "down"]_vars

(* With one store thread no query overtakes another, across failed calls,  *)
(* crashes and terminations: when a query is in the database, every older  *)
(* one is there, was refused or is lost.  (Batches of a single query are   *)
(* the exception, while the program terminates: the error of one does not  *)
(* keep the next from being sent.)  With several threads a query may only  *)
(* have overtaken those that are with the store threads already, or that   *)
(* are in one file with it.                                                *)
NoOvertaking ==
    \A r \in ToSet(db) : \A q \in (1 .. r) \ (Settled \cup Lost \cup damaged) :
        /\ threads > 1 \/ (terms > 0 /\ ConcatLimit = 1)
        /\ \/ q \in AtStores
           \/ \E f \in DOMAIN files : files[f].onDisk /\ {q, r} \subseteq ToSet(files[f].lines)

(* A query is executed once, and once more only for a crash (its file is   *)
(* loaded again) or for a call that was repeated after it had an effect,   *)
(* by whichever store threads.                                             *)
StoredOnce ==
    \A q \in ToSet(db) :
        Cardinality({i \in DOMAIN db : db[i] = q}) <= 1 + crashes + reruns

(* Every query written ends in the database or is given up: again and      *)
(* again, when the callers pause, nothing is left in files and buffers.    *)
(* The exception is a loader that hangs in freed memory.                   *)
CacheDrains == []<>(1 .. written \subseteq Settled \cup Lost \/ loader.pc = "dangling")

(* The program ends once it has been told to, also when the database does  *)
(* not answer or a store thread was started again, unless the loader is in *)
(* the middle of a file when the store processes are deleted and hangs in  *)
(* what was one of them (LoaderPushFreed).                                 *)
ShutdownCompletes == Terminating ~> (~ Terminating \/ loader.pc = "dangling")

(* What config/voipmonitor.conf says of query_cache: "queries survive      *)
(* system restarts".                                                       *)
QueriesSurviveRestart == crashes = 0 => Lost \subseteq damaged
=============================================================================
