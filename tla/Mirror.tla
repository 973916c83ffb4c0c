------------------------------- MODULE Mirror -------------------------------
(***************************************************************************)
(* Packet mirroring: a sender (socketWritePcapBlock in the write thread of *)
(* one sniffer) passes its blocks over TCP to a receiver (a thread per     *)
(* connection of another), which answers "block_ok" and pushes the block   *)
(* into its own packet buffer.  The sender repeats a block until it is     *)
(* confirmed; an answer does not say which block it is for.                *)
(*                                                                         *)
(* A block travels as two pieces, "head" (with the header and its counter) *)
(* and "tail": a reconnection or a write timeout can fall between them.    *)
(* mirror_require_confirmation, mirror_nonblock_mode and                   *)
(* mirror_use_checksum have their default, yes.                            *)
(***************************************************************************)
EXTENDS Naturals, Sequences, FiniteSets, SequencesExt

CONSTANTS
    MaxBlocks,   \* blocks that the sender has; a bound of the model
    MaxConns,    \* connections, one after the other; a bound of the model
    Window,      \* pieces that a connection buffers
    CounterMod,  \* block_counter is a u_int32_t: 2^32 in the code
    Prompt,      \* no timeout ends while an answer is under way
    Rejects      \* the receiver may find fault with a block that arrived

ASSUME MirrorAssumption ==
    /\ {MaxBlocks, MaxConns, Window, CounterMod} \subseteq Nat \ {0}
    /\ {Prompt, Rejects} \subseteq BOOLEAN

VARIABLES
    spc,        \* where the sender is
    block,      \* the block it sends; block_counter without its width
    part,       \* pieces of it that socketWrite has counted as written
    conn,       \* socketHandle: the sender's connection, 0 for none
    conns,      \* all connections, with the state of the receiver's thread
    delivered,  \* what the receiver pushed to its packet buffer: <<block, connection>>
    confirmed   \* history: blocks that the sender has given up as confirmed

svars == <<spc, block, part, conn>>
vars == <<svars, conns, delivered, confirmed>>

Blocks == 1 .. MaxBlocks
Conns == DOMAIN conns

\* A connection as socketConnect and createConnection leave it: the sender has written
\* its name and time, the receiver's thread looks for the start of a block.
NewConn ==
    [toReceiver |-> <<<<"hello", 0>>>>, toSender |-> <<>>,
     alive |-> TRUE,    \* the TCP connection is up
     active |-> TRUE,   \* the receiver's thread runs
     sync |-> TRUE,     \* syncBeginBlock
     partial |-> 0,     \* the block whose head is in the restore buffer
     counter |-> 0,     \* block_counter of the last block taken
     pending |-> 0]     \* the block that waits in pcapStoreQueue.push

\* The counter in the header of block n, a u_int32_t.
Counter(n) == n % CounterMod

\* With Prompt, nothing that the receiver would answer is under way on connection c.
Quiet(c) ==
    Prompt => \/ ~conns[c].alive
              \/ conns[c].toReceiver = <<>> /\ conns[c].pending = 0

Init ==
    /\ spc = "next"
    /\ block = 0
    /\ part = 0
    /\ conn = 0
    /\ conns = <<>>
    /\ delivered = <<>>
    /\ confirmed = {}

-----------------------------------------------------------------------------
(* The sender *)

NextBlock ==
    /\ spc = "next"
    /\ block < MaxBlocks
    /\ block' = block + 1
    /\ part' = 0
    /\ spc' = IF conn = 0 THEN "connect" ELSE "write"
    /\ UNCHANGED <<conn, conns, delivered, confirmed>>

\* socketConnect, up to the wait for an answer.
SocketConnect ==
    /\ spc = "connect"
    /\ Len(conns) < MaxConns
    /\ conns' = Append(conns, NewConn)
    /\ conn' = Len(conns')
    /\ spc' = "handshake"
    /\ UNCHANGED <<block, part, delivered, confirmed>>

\* Any answer will do, and none within 4 seconds too: _socketRead reports a timeout as
\* a success with no data.  socketWrite goes on where it was.
HandshakeDone ==
    /\ spc = "handshake"
    /\ conns[conn].toSender # <<>> \/ Quiet(conn)
    /\ conns' = [conns EXCEPT ![conn].toSender = <<>>]
    /\ spc' = "write"
    /\ UNCHANGED <<block, part, conn, delivered, confirmed>>

HandshakeFail ==
    /\ spc = "handshake"
    /\ ~conns[conn].alive
    /\ conn' = 0
    /\ spc' = "connect"
    /\ UNCHANGED <<block, part, conns, delivered, confirmed>>

Piece == <<IF part = 0 THEN "head" ELSE "tail", block>>

\* After the last piece the sender waits for the answer.
Written(n) ==
    /\ part' = n
    /\ spc' = IF n = 2 THEN "await" ELSE "write"

\* send() of the next piece.  On a connection that is down it may still succeed.
WritePiece ==
    /\ spc = "write"
    /\ Len(conns[conn].toReceiver) < Window
    /\ conns' = IF conns[conn].alive
                THEN [conns EXCEPT ![conn].toReceiver = Append(@, Piece)] ELSE conns
    /\ Written(part + 1)
    /\ UNCHANGED <<block, conn, delivered, confirmed>>

\* _socketWrite waits a second for buffer space, then returns true and leaves dataLen as
\* it is: the rest of the block counts as written.
WriteTimeout ==
    /\ spc = "write"
    /\ Len(conns[conn].toReceiver) >= Window
    /\ ~Prompt
    /\ Written(2)
    /\ UNCHANGED <<block, conn, conns, delivered, confirmed>>

\* send() fails: socketWrite connects again and goes on with the rest of the block.
WriteFail ==
    /\ spc = "write"
    /\ ~conns[conn].alive
    /\ conn' = 0
    /\ spc' = "connect"
    /\ UNCHANGED <<block, part, conns, delivered, confirmed>>

\* Mutant of Response: every answer is a confirmation.
ResponseAny(k) ==
    /\ spc = "await"
    /\ k <= Len(conns[conn].toSender)
    /\ conns' = [conns EXCEPT ![conn].toSender = SubSeq(@, k + 1, Len(@))]
    /\ spc' = "next"
    /\ part' = 0
    /\ confirmed' = confirmed \cup {block}
    /\ UNCHANGED <<block, conn, delivered>>

\* One recv takes the k answers that have arrived and looks at the first; unless that is
\* "block_ok" the block is sent again.
Response(k) ==
    /\ spc = "await"
    /\ k <= Len(conns[conn].toSender)
    /\ conns' = [conns EXCEPT ![conn].toSender = SubSeq(@, k + 1, Len(@))]
    /\ LET ok == Head(conns[conn].toSender) = "block_ok"
       IN /\ spc' = IF ok THEN "next" ELSE "write"
          /\ confirmed' = IF ok THEN confirmed \cup {block} ELSE confirmed
    /\ part' = 0
    /\ UNCHANGED <<block, conn, delivered>>

\* Mutant of NoResponse: only the rest of the block is sent again.
NoResponseRest ==
    /\ spc = "await"
    /\ conns[conn].toSender = <<>>
    /\ Quiet(conn)
    /\ spc' = "write"
    /\ part' = 1
    /\ UNCHANGED <<block, conn, conns, delivered, confirmed>>

\* No answer within 4 seconds, or the connection is closed: the block is sent again.
NoResponse ==
    /\ spc = "await"
    /\ conns[conn].toSender = <<>>
    /\ Quiet(conn)
    /\ spc' = "write"
    /\ part' = 0
    /\ UNCHANGED <<block, conn, conns, delivered, confirmed>>

-----------------------------------------------------------------------------
(* The receiver's thread of connection c *)

\* send() of an answer; it is lost when the connection is down.
Answered(r, answer) == IF r.alive THEN Append(r.toSender, answer) ELSE r.toSender

\* Mutant of Faulty: destroyRestoreBuffer is missing.
FaultyKeeps(r) == {[r EXCEPT !.sync = TRUE, !.toSender = Answered(r, "error")]}

\* The restore buffer does not hold a block, or holds a bad one: the receiver answers
\* with the error, skips the rest of what the last recv returned, here k pieces, and looks
\* for the start of the next block.
Faulty(r) ==
    {[r EXCEPT !.sync = TRUE, !.partial = 0, !.toSender = Answered(r, "error"),
               !.toReceiver = SubSeq(@, k + 1, Len(@))] : k \in 0 .. Len(r.toReceiver)}

\* Mutant of Accepted: the counter is not compared.
AcceptedAlways(r, n) ==
    [r EXCEPT !.partial = 0, !.toSender = Answered(r, "block_ok"),
              !.pending = n, !.counter = Counter(n)]

\* A complete block n: it is confirmed first, then ignored if it has the counter of the
\* last one, or taken.
Accepted(r, n) ==
    LET answered == [r EXCEPT !.partial = 0, !.toSender = Answered(r, "block_ok")]
    IN IF r.counter = Counter(n) THEN answered
       ELSE [answered EXCEPT !.pending = n, !.counter = Counter(n)]

\* What the thread may become when it takes piece m: in search of a block everything but
\* a head is skipped; a tail completes its head, unless the block is found faulty or
\* "block_ok" cannot be sent; any other piece spoils what the restore buffer holds.  Here
\* this is noticed with the piece; in the code when the buffer has the length of the block,
\* which with pieces of half a block is the same piece.
Taken(r, m) ==
    IF m[1] = "hello" THEN {[r EXCEPT !.toSender = Answered(r, "ok")]}
    ELSE IF m[1] = "head" /\ r.partial = 0
         THEN {[r EXCEPT !.sync = FALSE, !.partial = m[2]]}
    ELSE IF r.sync THEN {r}
    ELSE IF m = <<"tail", r.partial>>
         THEN {Accepted(r, m[2])} \cup IF Rejects \/ ~r.alive THEN Faulty(r) ELSE {}
    ELSE Faulty(r)

Receive(c) ==
    /\ conns[c].active
    /\ conns[c].pending = 0
    /\ conns[c].toReceiver # <<>>
    /\ LET r == [conns[c] EXCEPT !.toReceiver = Tail(@)]
       IN \E t \in Taken(r, Head(conns[c].toReceiver)) : conns' = [conns EXCEPT ![c] = t]
    /\ UNCHANGED <<svars, delivered, confirmed>>

\* pcapStoreQueue.push returns true; until then the thread reads nothing.
PushBlock(c) ==
    /\ conns[c].pending # 0
    /\ delivered' = Append(delivered, <<conns[c].pending, c>>)
    /\ conns' = [conns EXCEPT ![c].pending = 0]
    /\ UNCHANGED <<svars, confirmed>>

\* The thread ends and closes the connection, what it has not read included: the memory
\* is over 90%, there were too many errors, or nothing came for long.  (Another
\* connection must be left to the sender.)
EnforceClose(c) ==
    /\ Len(conns) < MaxConns
    /\ conns[c].active
    /\ conns[c].pending = 0
    /\ conns' = [conns EXCEPT ![c].active = FALSE, ![c].alive = FALSE, ![c].toReceiver = <<>>]
    /\ UNCHANGED <<svars, delivered, confirmed>>

\* The thread has read what arrived before the connection went down.
ConnectionEnds(c) ==
    /\ conns[c].active
    /\ ~conns[c].alive
    /\ conns[c].pending = 0
    /\ conns[c].toReceiver = <<>>
    /\ conns' = [conns EXCEPT ![c].active = FALSE]
    /\ UNCHANGED <<svars, delivered, confirmed>>

\* The connection goes down; of what was under way the first i pieces and j answers arrive.
Break(c, i, j) ==
    /\ Len(conns) < MaxConns
    /\ conns[c].alive
    /\ conns' = [conns EXCEPT ![c].alive = FALSE,
                              ![c].toReceiver = SubSeq(@, 1, i),
                              ![c].toSender = SubSeq(@, 1, j)]
    /\ UNCHANGED <<svars, delivered, confirmed>>

-----------------------------------------------------------------------------
Sender ==
    \/ NextBlock
    \/ SocketConnect
    \/ HandshakeDone
    \/ HandshakeFail
    \/ WritePiece
    \/ WriteTimeout
    \/ WriteFail
    \/ conn # 0 /\ \E k \in 1 .. Len(conns[conn].toSender) : Response(k)
    \/ NoResponse

Receiver(c) ==
    \/ Receive(c)
    \/ PushBlock(c)
    \/ ConnectionEnds(c)

Network(c) ==
    \/ EnforceClose(c)
    \/ \E i \in 0 .. Len(conns[c].toReceiver), j \in 0 .. Len(conns[c].toSender) : Break(c, i, j)

Next ==
    \/ Sender
    \/ \E c \in Conns : Receiver(c) \/ Network(c)

Spec == Init /\ [][Next]_vars

\* A whole block is taken: the receiver finds no fault in it and can answer.
ReceiveWhole(c) ==
    /\ Receive(c)
    /\ ~conns[c].sync
    /\ Head(conns[c].toReceiver) = <<"tail", conns[c].partial>>
    /\ ~conns'[c].sync

\* Fairness: the sender's thread and the receiver's threads run, its packet buffer takes
\* blocks, a connection that is down is noticed, and a block that is sent again and again
\* is not found faulty every time.  Connections need not break.
FairSpec ==
    /\ Spec
    /\ WF_vars(Sender)
    /\ SF_vars(WriteFail)
    /\ \A c \in 1 .. MaxConns :
          /\ WF_vars(c \in Conns /\ Receiver(c))
          /\ SF_vars(c \in Conns /\ ReceiveWhole(c))

-----------------------------------------------------------------------------
(* Properties *)

\* What travels to the receiver, and what it answers.
Pieces == {"hello", "head", "tail"} \X (0 .. MaxBlocks)
Answer == {"ok", "block_ok", "error"}

\* The state of a connection and of the receiver's thread that serves it.
Connection ==
    [toReceiver : Seq(Pieces),
     toSender : Seq(Answer),
     alive : BOOLEAN, active : BOOLEAN, sync : BOOLEAN,
     partial : 0 .. MaxBlocks, counter : 0 .. CounterMod - 1, pending : 0 .. MaxBlocks]

\* Types of all variables; a sender in the middle of a block has one, one that writes or
\* waits has a connection, and a thread that looks for the start of a block has nothing in
\* its restore buffer.
TypeOK ==
    /\ spc \in {"next", "connect", "handshake", "write", "await"}
    /\ block \in 0 .. MaxBlocks
    /\ part \in 0 .. 2
    /\ spc # "next" => block # 0
    /\ spc \in {"connect", "handshake", "write"} => part < 2
    /\ conns \in Seq(Connection)
    /\ Len(conns) <= MaxConns
    /\ conn \in 0 .. Len(conns)
    /\ spc \in {"handshake", "write", "await"} => conn # 0
    /\ \A c \in Conns : conns[c].sync => conns[c].partial = 0
    /\ delivered \in Seq(Blocks \X (1 .. MaxConns))
    /\ confirmed \subseteq Blocks

\* The receiver has block n: in its packet buffer or in the hands of a thread.
Has(n) ==
    \/ \E i \in DOMAIN delivered : delivered[i][1] = n
    \/ \E c \in Conns : conns[c].pending = n

\* "No packets are lost if the connection becomes unstable": the receiver has every block
\* that the sender takes for confirmed.
NoLoss == \A n \in confirmed : Has(n)

\* A connection delivers no block twice and none out of order, however often the sender
\* repeats it.
OncePerConnection ==
    \A i, j \in DOMAIN delivered :
        i < j /\ delivered[i][2] = delivered[j][2] => delivered[i][1] < delivered[j][1]

\* Every block is confirmed in the end, wherever the connections break: neither side waits
\* for ever for the rest of a block that the other takes for sent.
AllConfirmed == <>(confirmed = Blocks)
=============================================================================
