--------------------------- MODULE MCPacketBuffer ---------------------------
(* Model checking of PacketBuffer: the configurations of the runs. *)
EXTENDS PacketBuffer, TLC

\* Producers are interchangeable.
Symmetry == Permutations(Producers)

\* Memory only, and plenty of it.
Plain(P) ==
    [producers |-> P, blocks |-> 4, memMax |-> 6, diskMax |-> 0, compress |-> FALSE,
     destroyThread |-> FALSE, trashKeep |-> 1, writeFaults |-> FALSE, readFaults |-> FALSE]

\* Two producers and compressed blocks.
Compressed == [Plain(Producers) EXCEPT !.compress = TRUE]

\* Two producers at a limit of one block.
Tight == [Plain(Producers) EXCEPT !.memMax = 2]

\* The destroy thread.
Destroying(p) == [Plain({p}) EXCEPT !.destroyThread = TRUE, !.memMax = 8]

\* A disk buffer, fed by thread t1: a block in memory, two and the one that reaches the
\* limit on disk.
Disk(p) ==
    [Plain({p}) EXCEPT !.blocks = 3, !.memMax = 2, !.diskMax = 4, !.trashKeep = 0]

SafetySetups ==
    {Compressed, Tight} \cup {Destroying(p) : p \in Producers}
        \cup {[Disk(p) EXCEPT !.writeFaults = TRUE, !.readFaults = TRUE] : p \in Producers}

LiveSetups == {Disk(p) : p \in Producers}

\* More blocks, for the memory that the disk buffer does not account for.
SpillSetups ==
    {[Disk(p) EXCEPT !.blocks = MaxBlocks, !.memMax = 4, !.diskMax = 6] : p \in Producers}

\* Spill files that cannot be read.
ReadFaultSetups == {[Disk(p) EXCEPT !.readFaults = TRUE] : p \in Producers}
=============================================================================
