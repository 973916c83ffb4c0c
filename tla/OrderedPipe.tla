---------------------------- MODULE OrderedPipe ----------------------------
(***************************************************************************)
(* What the neighbours of an output thread rely on                         *)
(* (PcapQueue_outputThread, src/pcap_queue.h:1339): a pipe of bounded      *)
(* capacity that hands packets on in the order in which it took them, each *)
(* of them once, and may discard a packet only when it is that packet's    *)
(* turn.  How many threads work inside the pipe cannot be seen.            *)
(***************************************************************************)
EXTENDS Naturals, Sequences

CONSTANTS
    Packets,    \* the packets, numbered in the order of their arrival
    Capacity    \* how many packets the pipe holds

VARIABLES
    queue,      \* the packets inside, oldest first
    out         \* the packets handed on, oldest first

vars == <<queue, out>>

Init ==
    /\ queue = <<>>
    /\ out = <<>>

\* A packet enters; there must be room, and packets enter in their order.
Accept(p) ==
    /\ Len(queue) < Capacity
    /\ \A i \in DOMAIN queue : queue[i] < p
    /\ \A i \in DOMAIN out : out[i] < p
    /\ queue' = Append(queue, p)
    /\ UNCHANGED out

\* The oldest packet is handed on.
Deliver ==
    /\ queue # <<>>
    /\ out' = Append(out, Head(queue))
    /\ queue' = Tail(queue)

\* The oldest packet is discarded.
Discard ==
    /\ queue # <<>>
    /\ queue' = Tail(queue)
    /\ UNCHANGED out

\* The pipe is closed and what is inside is discarded.
Close ==
    /\ queue' = <<>>
    /\ UNCHANGED out

Next ==
    \/ \E p \in Packets : Accept(p)
    \/ Deliver
    \/ Discard
    \/ Close

Spec == Init /\ [][Next]_vars

\* The numbers of a sequence of packets grow: none is there twice.
Growing(s) == \A i, j \in DOMAIN s : i < j => s[i] < s[j]

\* Packets leave in the order of their arrival, each at most once, and those
\* inside are younger than all that have left: what the stages behind rely on
\* when they follow a call packet by packet.
InOrder ==
    /\ Growing(out)
    /\ Growing(queue)
    /\ \A i \in DOMAIN out, j \in DOMAIN queue : out[i] < queue[j]
=============================================================================
