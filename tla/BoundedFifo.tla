---------------------------- MODULE BoundedFifo ----------------------------
(***************************************************************************)
(* What the users of rqueue_quick (src/rqueue.h) rely on: a first-in       *)
(* first-out queue of at most Length items.  A consumer may look at the    *)
(* front (get) and later remove it (moveReadit); what it removes is the    *)
(* item it looked at.                                                      *)
(***************************************************************************)
EXTENDS Naturals, Sequences

CONSTANTS
    Items,      \* the values that are stored
    Consumers,  \* the threads that take items out
    NoItem,     \* marks a consumer that holds nothing
    Length      \* the capacity

VARIABLES
    queue,      \* the stored items, oldest first
    held        \* the item each consumer has copied out and not yet removed

vars == <<queue, held>>

Init ==
    /\ queue = <<>>
    /\ held = [c \in Consumers |-> NoItem]

\* A producer stores an item; there must be room.
Put(x) ==
    /\ Len(queue) < Length
    /\ queue' = Append(queue, x)
    /\ UNCHANGED held

\* A consumer copies the oldest item and leaves it in the queue.
Peek(c) ==
    /\ queue # <<>>
    /\ held' = [held EXCEPT ![c] = Head(queue)]
    /\ UNCHANGED queue

\* A consumer removes the oldest item, which is the one it holds.
Take(c) ==
    /\ queue # <<>>
    /\ held[c] = Head(queue)
    /\ queue' = Tail(queue)
    /\ held' = [held EXCEPT ![c] = NoItem]

\* A consumer that only looked lets the item be.
Drop(c) ==
    /\ held' = [held EXCEPT ![c] = NoItem]
    /\ UNCHANGED queue

Next ==
    \/ \E x \in Items : Put(x)
    \/ \E c \in Consumers : Peek(c) \/ Take(c) \/ Drop(c)

Spec == Init /\ [][Next]_vars
=============================================================================
