--------------------------- MODULE Mirror_proofs ---------------------------
(* Proofs about Mirror for every number of blocks, connections and pieces. *)
EXTENDS Mirror, SequenceTheorems, TLAPS

\* The constants have their types.
LEMMA Constants ==
    /\ MaxBlocks \in Nat \ {0} /\ MaxConns \in Nat \ {0}
    /\ Window \in Nat \ {0} /\ CounterMod \in Nat \ {0}
    /\ Prompt \in BOOLEAN /\ Rejects \in BOOLEAN
  BY MirrorAssumption

-----------------------------------------------------------------------------
(* The invariants *)

\* The pieces under way on a connection carry growing numbers, none above that of the
\* block that the sender has now: it repeats a block but never goes back.
InSequence(r) ==
    /\ \A i, j \in DOMAIN r.toReceiver : i < j => r.toReceiver[i][2] <= r.toReceiver[j][2]
    /\ \A i \in DOMAIN r.toReceiver : r.toReceiver[i][2] <= block

\* n is the last block that the thread of connection c, in state r, took (0: none): the
\* counter is its counter, nothing older is still to come, and what the connection has
\* delivered is older, or is block n itself when that has been pushed.
LastTaken(c, r, n) ==
    /\ r.counter = Counter(n)
    /\ \A i \in DOMAIN r.toReceiver : r.toReceiver[i][1] # "hello" => n <= r.toReceiver[i][2]
    /\ r.partial # 0 => n <= r.partial
    /\ \A d \in DOMAIN delivered :
          delivered[d][2] = c => /\ delivered[d][1] <= n
                                 /\ r.pending # 0 => delivered[d][1] < n
    /\ r.pending # 0 => r.pending = n

OrderInv ==
    /\ \A c \in Conns : InSequence(conns[c])
    /\ \A c \in Conns : \E n \in 0 .. block : LastTaken(c, conns[c], n)
    /\ \A d \in DOMAIN delivered : delivered[d][2] \in Conns
    /\ OncePerConnection

\* What is under way on the sender's connection while it is up, with prompt answers: at
\* most one answer, and that only when the whole block has been written.
Piece1(r, kind) == Len(r.toReceiver) = 1 /\ r.toReceiver[1] = <<kind, block>>
Piece2(r) == /\ Len(r.toReceiver) = 2
             /\ r.toReceiver[1] = <<"head", block>>
             /\ r.toReceiver[2] = <<"tail", block>>
Nothing(r) == r.toReceiver = <<>>

InStep(r) ==
    /\ spc = "handshake" =>
          /\ r.sync /\ r.pending = 0
          /\ \/ Len(r.toReceiver) = 1 /\ r.toReceiver[1][1] = "hello"
             \/ Nothing(r)
    /\ spc = "next" \/ (spc = "write" /\ part = 0) => Nothing(r) /\ r.partial = 0
    /\ spc = "write" /\ part = 1 =>
          \/ Piece1(r, "head") /\ r.partial = 0
          \/ Nothing(r) /\ r.partial = block
          \/ Nothing(r) /\ r.sync
    /\ spc = "await" =>
          \/ Piece2(r) /\ r.partial = 0
          \/ Piece1(r, "tail") /\ r.partial = block
          \/ Piece1(r, "tail") /\ r.sync
          \/ Nothing(r) /\ r.partial = 0

Answers(r) ==
    /\ spc \in {"next", "write"} => r.toSender = <<>>
    /\ spc = "handshake" =>
          /\ \A i \in DOMAIN r.toSender : r.toSender[i] # "block_ok"
          /\ r.alive /\ r.toReceiver # <<>> => r.toSender = <<>>
    /\ spc = "await" =>
          /\ Len(r.toSender) <= 1
          /\ r.alive /\ r.toReceiver # <<>> => r.toSender = <<>>
          /\ r.toSender # <<>> /\ r.toSender[1] = "block_ok" => Has(block)

PromptInv ==
    /\ NoLoss
    /\ spc = "connect" => conn = 0
    /\ \A c \in Conns : conns[c].alive => conns[c].active
    /\ \A c \in Conns : conns[c].counter # 0 => Has(conns[c].counter)
    /\ conn # 0 => /\ conns[conn].alive => InStep(conns[conn])
                   /\ Answers(conns[conn])

-----------------------------------------------------------------------------
(* Connections *)

\* A counter fits its width.
LEMMA CounterType ==
    ASSUME NEW n \in Nat
    PROVE  Counter(n) \in 0 .. CounterMod - 1
  BY Constants DEF Counter

\* A step that changes one connection leaves the others alone.
LEMMA OneChanged ==
    ASSUME conns \in Seq(Connection), NEW c \in Conns, NEW r \in Connection,
           conns' = [conns EXCEPT ![c] = r]
    PROVE  /\ conns' \in Seq(Connection)
           /\ Len(conns') = Len(conns)
           /\ Conns' = Conns
           /\ conns'[c] = r
           /\ \A d \in Conns : d # c => conns'[d] = conns[d]
  <1>1. c \in 1 .. Len(conns)
    BY DEF Conns
  <1> QED
    BY <1>1, ExceptSeq DEF Conns

\* The beginning and the end of a sequence of S are sequences of S.
LEMMA Ends ==
    ASSUME NEW S, NEW s \in Seq(S), NEW k \in 0 .. Len(s)
    PROVE  /\ SubSeq(s, k + 1, Len(s)) \in Seq(S)
           /\ Len(SubSeq(s, k + 1, Len(s))) = Len(s) - k
           /\ \A i \in 1 .. Len(s) - k : SubSeq(s, k + 1, Len(s))[i] = s[k + i]
           /\ SubSeq(s, 1, k) \in Seq(S)
           /\ Len(SubSeq(s, 1, k)) = k
           /\ \A i \in 1 .. k : SubSeq(s, 1, k)[i] = s[i]
  <1>1. \A i \in 1 .. Len(s) : s[i] \in S
    OBVIOUS
  <1>2. /\ SubSeq(s, k + 1, Len(s)) \in Seq(S)
        /\ Len(SubSeq(s, k + 1, Len(s))) = IF k + 1 <= Len(s) THEN Len(s) - (k + 1) + 1 ELSE 0
        /\ \A i \in 1 .. Len(s) - (k + 1) + 1 : SubSeq(s, k + 1, Len(s))[i] = s[(k + 1) + i - 1]
    BY <1>1, SubSeqProperties
  <1>3. /\ SubSeq(s, 1, k) \in Seq(S)
        /\ Len(SubSeq(s, 1, k)) = IF 1 <= k THEN k - 1 + 1 ELSE 0
        /\ \A i \in 1 .. k - 1 + 1 : SubSeq(s, 1, k)[i] = s[1 + i - 1]
    BY <1>1, SubSeqProperties
  <1> QED
    BY <1>2, <1>3

\* An answer is an answer, whether it is sent or lost.
LEMMA AnsweredType ==
    ASSUME NEW r \in Connection, NEW a \in Answer
    PROVE  Answered(r, a) \in Seq(Answer)
  BY DEF Connection, Answered, Answer

\* A record with fields of the right types is a connection.
LEMMA Rebuilt ==
    ASSUME NEW q \in Seq(Pieces), NEW a \in Seq(Answer), NEW l \in BOOLEAN, NEW v \in BOOLEAN,
           NEW s \in BOOLEAN, NEW p \in 0 .. MaxBlocks, NEW k \in 0 .. CounterMod - 1,
           NEW n \in 0 .. MaxBlocks
    PROVE  [toReceiver |-> q, toSender |-> a, alive |-> l, active |-> v, sync |-> s,
            partial |-> p, counter |-> k, pending |-> n] \in Connection
  BY DEF Connection

\* The fields of a connection.
LEMMA Fields ==
    ASSUME NEW r \in Connection
    PROVE  /\ r.toReceiver \in Seq(Pieces) /\ r.toSender \in Seq(Answer)
           /\ r.alive \in BOOLEAN /\ r.active \in BOOLEAN /\ r.sync \in BOOLEAN
           /\ r.partial \in 0 .. MaxBlocks /\ r.counter \in 0 .. CounterMod - 1
           /\ r.pending \in 0 .. MaxBlocks
           /\ r = [toReceiver |-> r.toReceiver, toSender |-> r.toSender, alive |-> r.alive,
                   active |-> r.active, sync |-> r.sync, partial |-> r.partial,
                   counter |-> r.counter, pending |-> r.pending]
  BY DEF Connection

\* The cases of Taken, by what they do to the fields.
TookHello(r, m, t) ==
    /\ m[1] = "hello"
    /\ t.toReceiver = r.toReceiver /\ t.toSender = Answered(r, "ok")
    /\ t.sync = r.sync /\ t.partial = r.partial
    /\ t.counter = r.counter /\ t.pending = r.pending

NewHead(r, m) == m[1] = "head" /\ r.partial = 0

TookHead(r, m, t) ==
    /\ NewHead(r, m)
    /\ t.toReceiver = r.toReceiver /\ t.toSender = r.toSender
    /\ t.sync = FALSE /\ t.partial = m[2]
    /\ t.counter = r.counter /\ t.pending = r.pending

TookBlock(r, m, t) ==
    /\ ~r.sync /\ m = <<"tail", r.partial>>
    /\ t.toReceiver = r.toReceiver /\ t.toSender = Answered(r, "block_ok")
    /\ t.sync = FALSE /\ t.partial = 0
    /\ IF r.counter = Counter(m[2]) THEN t.counter = r.counter /\ t.pending = r.pending
       ELSE t.counter = Counter(m[2]) /\ t.pending = m[2]

FoundFault(r, m, t) ==
    /\ m[1] # "hello" /\ ~NewHead(r, m) /\ ~r.sync
    /\ \E k \in 0 .. Len(r.toReceiver) :
          t.toReceiver = SubSeq(r.toReceiver, k + 1, Len(r.toReceiver))
    /\ t.toSender = Answered(r, "error")
    /\ t.sync = TRUE /\ t.partial = 0
    /\ t.counter = r.counter /\ t.pending = r.pending

\* Whatever the thread makes of a piece is a connection, and one of these cases.
LEMMA TakenCases ==
    ASSUME NEW r \in Connection, NEW m \in Pieces, r.sync => r.partial = 0,
           NEW t \in Taken(r, m)
    PROVE  /\ t \in Connection
           /\ t.sync => t.partial = 0
           /\ t.alive = r.alive /\ t.active = r.active
           /\ \/ TookHello(r, m, t)
              \/ TookHead(r, m, t)
              \/ ~NewHead(r, m) /\ m[1] # "hello" /\ r.sync /\ t = r
              \/ TookBlock(r, m, t)
              \/ FoundFault(r, m, t)
  <1>0. m[1] \in {"hello", "head", "tail"} /\ m[2] \in 0 .. MaxBlocks
    BY DEF Pieces
  <1>1. /\ \A a \in Answer : Answered(r, a) \in Seq(Answer)
        /\ "ok" \in Answer /\ "error" \in Answer /\ "block_ok" \in Answer
        /\ 0 \in 0 .. MaxBlocks
    BY AnsweredType, Constants DEF Answer
  <1>2. CASE m[1] = "hello"
    <2>1. t = [r EXCEPT !.toSender = Answered(r, "ok")]
      BY <1>2 DEF Taken
    <2>2. t = [toReceiver |-> r.toReceiver, toSender |-> Answered(r, "ok"), alive |-> r.alive,
               active |-> r.active, sync |-> r.sync, partial |-> r.partial,
               counter |-> r.counter, pending |-> r.pending]
      BY <2>1, Fields
    <2>3. t \in Connection
      BY <1>1, <2>2, Fields, Rebuilt
    <2> QED
      BY <1>2, <2>2, <2>3 DEF TookHello
  <1>3. CASE m[1] = "head" /\ r.partial = 0
    <2>1. t = [r EXCEPT !.sync = FALSE, !.partial = m[2]]
      BY <1>3 DEF Taken
    <2>2. t = [toReceiver |-> r.toReceiver, toSender |-> r.toSender, alive |-> r.alive,
               active |-> r.active, sync |-> FALSE, partial |-> m[2],
               counter |-> r.counter, pending |-> r.pending]
      BY <2>1 DEF Connection
    <2>3. t \in Connection
      BY <1>0, <2>2, Fields, Rebuilt
    <2> QED
      BY <1>3, <2>2, <2>3 DEF TookHead, NewHead
  <1>4. CASE m[1] # "hello" /\ ~(m[1] = "head" /\ r.partial = 0) /\ r.sync
    <2>1. t = r
      BY <1>4 DEF Taken
    <2> QED
      BY <2>1, <1>4 DEF NewHead
  <1>5. ASSUME m[1] # "hello", ~NewHead(r, m), ~r.sync, t \in Faulty(r)
        PROVE  /\ t \in Connection /\ (t.sync => t.partial = 0)
               /\ t.alive = r.alive /\ t.active = r.active
               /\ FoundFault(r, m, t)
    <2>1. PICK k \in 0 .. Len(r.toReceiver) :
             t = [r EXCEPT !.sync = TRUE, !.partial = 0, !.toSender = Answered(r, "error"),
                           !.toReceiver = SubSeq(@, k + 1, Len(@))]
      BY <1>5 DEF Faulty
    <2> DEFINE q == SubSeq(r.toReceiver, k + 1, Len(r.toReceiver))
    <2>2. q \in Seq(Pieces)
      BY Fields, Ends
    <2>3. t = [toReceiver |-> q, toSender |-> Answered(r, "error"), alive |-> r.alive,
               active |-> r.active, sync |-> TRUE, partial |-> 0,
               counter |-> r.counter, pending |-> r.pending]
      BY <2>1 DEF Connection
    <2>4. t \in Connection
      BY <1>1, <2>2, <2>3, Fields, Rebuilt
    <2> QED
      BY <1>5, <2>3, <2>4 DEF FoundFault
  <1>6. ASSUME ~r.sync, m = <<"tail", r.partial>>, t = Accepted(r, m[2])
        PROVE  /\ t \in Connection /\ (t.sync => t.partial = 0)
               /\ t.alive = r.alive /\ t.active = r.active
               /\ TookBlock(r, m, t)
    <2>1. Counter(m[2]) \in 0 .. CounterMod - 1
      BY <1>0, Constants, CounterType
    <2>2. CASE r.counter = Counter(m[2])
      <3>1. t = [toReceiver |-> r.toReceiver, toSender |-> Answered(r, "block_ok"),
                 alive |-> r.alive, active |-> r.active, sync |-> r.sync, partial |-> 0,
                 counter |-> r.counter, pending |-> r.pending]
        BY <1>6, <2>2 DEF Accepted, Connection
      <3>2. t \in Connection
        BY <1>1, <3>1, Fields, Rebuilt
      <3> QED
        BY <1>6, <2>2, <3>1, <3>2 DEF TookBlock
    <2>3. CASE r.counter # Counter(m[2])
      <3>1. t = [toReceiver |-> r.toReceiver, toSender |-> Answered(r, "block_ok"),
                 alive |-> r.alive, active |-> r.active, sync |-> r.sync, partial |-> 0,
                 counter |-> Counter(m[2]), pending |-> m[2]]
        BY <1>6, <2>3 DEF Accepted, Connection
      <3>2. t \in Connection
        BY <1>0, <1>1, <2>1, <3>1, Fields, Rebuilt
      <3> QED
        BY <1>6, <2>3, <3>1, <3>2 DEF TookBlock
    <2> QED
      BY <2>2, <2>3
  <1>7. CASE m[1] # "hello" /\ ~(m[1] = "head" /\ r.partial = 0) /\ ~r.sync
    <2>1. t \in Faulty(r) \/ (m = <<"tail", r.partial>> /\ t = Accepted(r, m[2]))
      BY <1>7 DEF Taken
    <2> QED
      BY <1>5, <1>6, <1>7, <2>1 DEF NewHead
  <1> QED
    BY <1>2, <1>3, <1>4, <1>7

-----------------------------------------------------------------------------
(* What each step does to the connections *)

\* What the updates of the steps below make of a connection.
LEMMA SetToReceiver ==
    ASSUME NEW r \in Connection, NEW q \in Seq(Pieces), NEW t, t = [r EXCEPT !.toReceiver = q]
    PROVE  t \in Connection /\ t = [toReceiver |-> q, toSender |-> r.toSender, alive |-> r.alive,
             active |-> r.active, sync |-> r.sync, partial |-> r.partial,
             counter |-> r.counter, pending |-> r.pending]
  <1>1. t = [toReceiver |-> q, toSender |-> r.toSender, alive |-> r.alive,
             active |-> r.active, sync |-> r.sync, partial |-> r.partial,
             counter |-> r.counter, pending |-> r.pending]
    BY DEF Connection
  <1> QED
    BY <1>1, Fields, Rebuilt

\* Replacing the answers under way gives a connection that differs in nothing else.
LEMMA SetToSender ==
    ASSUME NEW r \in Connection, NEW a \in Seq(Answer), NEW t, t = [r EXCEPT !.toSender = a]
    PROVE  t \in Connection /\ t = [toReceiver |-> r.toReceiver, toSender |-> a, alive |-> r.alive,
             active |-> r.active, sync |-> r.sync, partial |-> r.partial,
             counter |-> r.counter, pending |-> r.pending]
  <1>1. t = [toReceiver |-> r.toReceiver, toSender |-> a, alive |-> r.alive,
             active |-> r.active, sync |-> r.sync, partial |-> r.partial,
             counter |-> r.counter, pending |-> r.pending]
    BY DEF Connection
  <1> QED
    BY <1>1, Fields, Rebuilt

\* Replacing the block the thread waits to push gives a connection that differs in nothing else.
LEMMA SetPending ==
    ASSUME NEW r \in Connection, NEW n \in 0 .. MaxBlocks, NEW t, t = [r EXCEPT !.pending = n]
    PROVE  t \in Connection /\ t = [toReceiver |-> r.toReceiver, toSender |-> r.toSender,
             alive |-> r.alive, active |-> r.active, sync |-> r.sync, partial |-> r.partial,
             counter |-> r.counter, pending |-> n]
  <1>1. t = [toReceiver |-> r.toReceiver, toSender |-> r.toSender,
             alive |-> r.alive, active |-> r.active, sync |-> r.sync, partial |-> r.partial,
             counter |-> r.counter, pending |-> n]
    BY DEF Connection
  <1> QED
    BY <1>1, Fields, Rebuilt

Cut(r, q, a, t) ==
    \/ t = [r EXCEPT !.alive = FALSE, !.toReceiver = q, !.toSender = a]
    \/ t = [r EXCEPT !.active = FALSE, !.alive = FALSE, !.toReceiver = q] /\ a = r.toSender
    \/ t = [r EXCEPT !.active = FALSE] /\ ~r.alive /\ q = r.toReceiver /\ a = r.toSender

\* Closing a connection cuts what is under way and leaves the state of its thread.
LEMMA SetClosed ==
    ASSUME NEW r \in Connection, NEW q \in Seq(Pieces), NEW a \in Seq(Answer), NEW t,
           Cut(r, q, a, t)
    PROVE  t \in Connection /\ \E v \in BOOLEAN : t = [toReceiver |-> q, toSender |-> a,
             alive |-> FALSE, active |-> v, sync |-> r.sync, partial |-> r.partial,
             counter |-> r.counter, pending |-> r.pending]
  <1>0. /\ r.active \in BOOLEAN /\ FALSE \in BOOLEAN /\ r.sync \in BOOLEAN
        /\ r.partial \in 0 .. MaxBlocks /\ r.counter \in 0 .. CounterMod - 1
        /\ r.pending \in 0 .. MaxBlocks
    BY Fields
  <1>1. CASE t = [r EXCEPT !.alive = FALSE, !.toReceiver = q, !.toSender = a]
    <2>1. t = [toReceiver |-> q, toSender |-> a, alive |-> FALSE, active |-> r.active,
               sync |-> r.sync, partial |-> r.partial, counter |-> r.counter,
               pending |-> r.pending]
      BY <1>1 DEF Connection
    <2>2. t \in Connection
      BY <1>0, <2>1, Rebuilt
    <2> QED
      BY <1>0, <2>1, <2>2
  <1>2. CASE t = [r EXCEPT !.active = FALSE, !.alive = FALSE, !.toReceiver = q] /\ a = r.toSender
    <2>1. t = [toReceiver |-> q, toSender |-> a, alive |-> FALSE, active |-> FALSE,
               sync |-> r.sync, partial |-> r.partial, counter |-> r.counter,
               pending |-> r.pending]
      BY <1>2 DEF Connection
    <2>2. t \in Connection
      BY <1>0, <2>1, Rebuilt
    <2> QED
      BY <1>0, <2>1, <2>2
  <1>3. CASE t = [r EXCEPT !.active = FALSE] /\ ~r.alive /\ q = r.toReceiver /\ a = r.toSender
    <2>0. r.alive = FALSE
      BY <1>3, Fields
    <2>1. t = [toReceiver |-> q, toSender |-> a, alive |-> FALSE, active |-> FALSE,
               sync |-> r.sync, partial |-> r.partial, counter |-> r.counter,
               pending |-> r.pending]
      BY <1>3, <2>0 DEF Connection
    <2>2. t \in Connection
      BY <1>0, <2>1, Rebuilt
    <2> QED
      BY <1>0, <2>1, <2>2
  <1> QED
    BY <1>1, <1>2, <1>3 DEF Cut

\* The state of connection c becomes t and the others stay as they are.
Becomes(c, t) ==
    /\ t \in Connection
    /\ conns' \in Seq(Connection) /\ Len(conns') = Len(conns) /\ Conns' = Conns
    /\ conns'[c] = t
    /\ \A d \in Conns : d # c => conns'[d] = conns[d]

\* An update of one connection leaves the others as they are.
LEMMA OneBecomes ==
    ASSUME TypeOK, NEW c \in Conns, NEW t \in Connection, conns' = [conns EXCEPT ![c] = t]
    PROVE  Becomes(c, t)
  <1>1. conns \in Seq(Connection)
    BY DEF TypeOK
  <1> QED
    BY <1>1, OneChanged DEF Becomes

\* The two ends of the wire and the receiver's thread, where a step leaves them alone.
SameThread(r, t) ==
    /\ t.active = r.active /\ t.sync = r.sync /\ t.partial = r.partial
    /\ t.counter = r.counter /\ t.pending = r.pending

\* The end of the handshake drops the answers of the connection and touches nothing else of it.
LEMMA HandshakeDoneStep ==
    ASSUME TypeOK, HandshakeDone
    PROVE  /\ conn \in Conns /\ Becomes(conn, conns'[conn])
           /\ SameThread(conns[conn], conns'[conn])
           /\ conns'[conn].alive = conns[conn].alive
           /\ conns'[conn].toReceiver = conns[conn].toReceiver
           /\ conns'[conn].toSender = <<>>
  <1> DEFINE r == conns[conn]
             t == [r EXCEPT !.toSender = <<>>]
  <1>1. conn \in Conns /\ r \in Connection /\ <<>> \in Seq(Answer)
    BY DEF TypeOK, HandshakeDone, Conns
  <1>2. conns' = [conns EXCEPT ![conn] = t]
    BY DEF HandshakeDone
  <1>3. t = [r EXCEPT !.toSender = <<>>]
    OBVIOUS
  <1> HIDE DEF r, t
  <1>4. t \in Connection /\ t = [toReceiver |-> r.toReceiver, toSender |-> <<>>,
             alive |-> r.alive, active |-> r.active, sync |-> r.sync, partial |-> r.partial,
             counter |-> r.counter, pending |-> r.pending]
    BY <1>1, <1>3, SetToSender
  <1>5. Becomes(conn, t)
    BY <1>1, <1>2, <1>4, OneBecomes
  <1>6. conns'[conn] = t
    BY <1>5 DEF Becomes
  <1> QED
    BY <1>1, <1>4, <1>5, <1>6 DEF SameThread, r

\* Writing adds one piece behind those under way to the receiver.
LEMMA WritePieceStep ==
    ASSUME TypeOK, WritePiece, conns[conn].alive
    PROVE  /\ conn \in Conns /\ Becomes(conn, conns'[conn])
           /\ SameThread(conns[conn], conns'[conn])
           /\ conns'[conn].alive
           /\ conns'[conn].toSender = conns[conn].toSender
           /\ Piece \in Pieces
           /\ conns'[conn].toReceiver = Append(conns[conn].toReceiver, Piece)
  <1> DEFINE r == conns[conn]
             q == Append(r.toReceiver, Piece)
             t == [r EXCEPT !.toReceiver = q]
  <1>1. conn \in Conns /\ r \in Connection
    BY DEF TypeOK, WritePiece, Conns
  <1>2. Piece \in Pieces
    BY DEF TypeOK, Piece, Pieces
  <1>3. conns' = [conns EXCEPT ![conn] = t]
    BY DEF WritePiece
  <1>4. t = [r EXCEPT !.toReceiver = q]
    OBVIOUS
  <1> HIDE DEF r, t
  <1>5. q \in Seq(Pieces)
    BY <1>1, <1>2, Fields
  <1> HIDE DEF q
  <1>6. t \in Connection /\ t = [toReceiver |-> q, toSender |-> r.toSender,
             alive |-> r.alive, active |-> r.active, sync |-> r.sync, partial |-> r.partial,
             counter |-> r.counter, pending |-> r.pending]
    BY <1>1, <1>4, <1>5, SetToReceiver
  <1>7. Becomes(conn, t)
    BY <1>1, <1>3, <1>6, OneBecomes
  <1>8. conns'[conn] = t
    BY <1>7 DEF Becomes
  <1> QED
    BY <1>1, <1>2, <1>6, <1>7, <1>8 DEF SameThread, q, r

\* Reading a response takes the first k answers from the connection.
LEMMA ResponseStep ==
    ASSUME TypeOK, NEW k \in 1 .. Len(conns[conn].toSender), Response(k)
    PROVE  /\ conn \in Conns /\ Becomes(conn, conns'[conn])
           /\ SameThread(conns[conn], conns'[conn])
           /\ conns'[conn].alive = conns[conn].alive
           /\ conns'[conn].toReceiver = conns[conn].toReceiver
           /\ Len(conns'[conn].toSender) = Len(conns[conn].toSender) - k
           /\ Head(conns[conn].toSender) = conns[conn].toSender[1]
  <1> DEFINE r == conns[conn]
             a == SubSeq(r.toSender, k + 1, Len(r.toSender))
             t == [r EXCEPT !.toSender = a]
  <1>1. conn \in Conns /\ r \in Connection
    BY DEF TypeOK, Response, Conns
  <1>2. conns' = [conns EXCEPT ![conn] = t]
    BY DEF Response
  <1>3. t = [r EXCEPT !.toSender = a] /\ k \in 1 .. Len(r.toSender)
    OBVIOUS
  <1> HIDE DEF r, t
  <1>4. r.toSender \in Seq(Answer) /\ Head(r.toSender) = r.toSender[1]
    BY <1>1, Fields
  <1>5. a \in Seq(Answer) /\ Len(a) = Len(r.toSender) - k
    BY <1>3, <1>4, Ends
  <1> HIDE DEF a
  <1>6. t \in Connection /\ t = [toReceiver |-> r.toReceiver, toSender |-> a,
             alive |-> r.alive, active |-> r.active, sync |-> r.sync, partial |-> r.partial,
             counter |-> r.counter, pending |-> r.pending]
    BY <1>1, <1>3, <1>5, SetToSender
  <1>7. Becomes(conn, t)
    BY <1>1, <1>2, <1>6, OneBecomes
  <1>8. conns'[conn] = t
    BY <1>7 DEF Becomes
  <1> QED
    BY <1>1, <1>4, <1>5, <1>6, <1>7, <1>8 DEF SameThread, r

\* The receiver takes the first piece under way.
LEMMA ReceiveStep ==
    ASSUME TypeOK, NEW c \in Conns, Receive(c)
    PROVE  \E r \in Connection, m \in Pieces :
             /\ SameThread(conns[c], r) /\ r.alive = conns[c].alive
             /\ r.toSender = conns[c].toSender
             /\ conns[c].toReceiver # <<>>
             /\ m = conns[c].toReceiver[1]
             /\ Len(r.toReceiver) = Len(conns[c].toReceiver) - 1
             /\ \A i \in 1 .. Len(r.toReceiver) : r.toReceiver[i] = conns[c].toReceiver[i + 1]
             /\ conns'[c] \in Taken(r, m)
             /\ r.sync => r.partial = 0
             /\ Becomes(c, conns'[c])
  <1> DEFINE o == conns[c]
             q == Tail(o.toReceiver)
             m == Head(o.toReceiver)
             r == [o EXCEPT !.toReceiver = q]
  <1>1. o \in Connection /\ (o.sync => o.partial = 0) /\ o.toReceiver # <<>>
    BY DEF TypeOK, Receive, Conns
  <1>2. PICK t \in Taken(r, m) : conns' = [conns EXCEPT ![c] = t]
    BY DEF Receive
  <1>3. r = [o EXCEPT !.toReceiver = q]
    OBVIOUS
  <1> HIDE DEF o, r
  <1>4. /\ q \in Seq(Pieces) /\ m \in Pieces /\ m = o.toReceiver[1]
        /\ Len(q) = Len(o.toReceiver) - 1
        /\ \A i \in 1 .. Len(q) : q[i] = o.toReceiver[i + 1]
    BY <1>1, Fields, HeadTailProperties
  <1> HIDE DEF q, m
  <1>5. r \in Connection /\ r = [toReceiver |-> q, toSender |-> o.toSender,
             alive |-> o.alive, active |-> o.active, sync |-> o.sync, partial |-> o.partial,
             counter |-> o.counter, pending |-> o.pending]
    BY <1>1, <1>3, <1>4, SetToReceiver
  <1>6. t \in Connection
    BY <1>1, <1>4, <1>5, TakenCases
  <1>7. Becomes(c, t)
    BY <1>2, <1>6, OneBecomes
  <1>8. conns'[c] = t
    BY <1>7 DEF Becomes
  <1> QED
    BY <1>1, <1>2, <1>4, <1>5, <1>7, <1>8 DEF SameThread, o

\* Pushing a block leaves the connection without a pending one and otherwise as it was.
LEMMA PushBlockStep ==
    ASSUME TypeOK, NEW c \in Conns, PushBlock(c)
    PROVE  /\ Becomes(c, conns'[c])
           /\ conns'[c].toReceiver = conns[c].toReceiver
           /\ conns'[c].toSender = conns[c].toSender
           /\ conns'[c].alive = conns[c].alive /\ conns'[c].active = conns[c].active
           /\ conns'[c].sync = conns[c].sync /\ conns'[c].partial = conns[c].partial
           /\ conns'[c].counter = conns[c].counter /\ conns'[c].pending = 0
           /\ conns[c].pending \in Blocks
           /\ c \in 1 .. MaxConns
           /\ <<conns[c].pending, c>> \in Blocks \X (1 .. MaxConns)
           /\ delivered' \in Seq(Blocks \X (1 .. MaxConns))
           /\ Len(delivered') = Len(delivered) + 1
           /\ \A i \in 1 .. Len(delivered) : delivered'[i] = delivered[i]
           /\ delivered'[Len(delivered) + 1] = <<conns[c].pending, c>>
  <1> DEFINE r == conns[c]
             t == [r EXCEPT !.pending = 0]
  <1>1. r \in Connection /\ r.pending # 0 /\ 0 \in 0 .. MaxBlocks
    BY Constants DEF TypeOK, PushBlock, Conns
  <1>2. conns' = [conns EXCEPT ![c] = t]
    BY DEF PushBlock
  <1>3. t = [r EXCEPT !.pending = 0]
    OBVIOUS
  <1>4. c \in 1 .. MaxConns /\ delivered \in Seq(Blocks \X (1 .. MaxConns))
    BY Constants DEF TypeOK, Conns
  <1>5. delivered' = Append(delivered, <<r.pending, c>>)
    BY DEF PushBlock
  <1> HIDE DEF r, t
  <1>6. r.pending \in Blocks
    BY <1>1, Fields, Constants DEF Blocks
  <1>7. t \in Connection /\ t = [toReceiver |-> r.toReceiver, toSender |-> r.toSender,
             alive |-> r.alive, active |-> r.active, sync |-> r.sync, partial |-> r.partial,
             counter |-> r.counter, pending |-> 0]
    BY <1>1, <1>3, SetPending
  <1>8. Becomes(c, t)
    BY <1>2, <1>7, OneBecomes
  <1>9. conns'[c] = t
    BY <1>8 DEF Becomes
  <1>10. <<r.pending, c>> \in Blocks \X (1 .. MaxConns)
    BY <1>4, <1>6
  <1>11. /\ delivered' \in Seq(Blocks \X (1 .. MaxConns))
         /\ Len(delivered') = Len(delivered) + 1
         /\ \A i \in 1 .. Len(delivered) : delivered'[i] = delivered[i]
         /\ delivered'[Len(delivered) + 1] = <<r.pending, c>>
    BY <1>4, <1>5, <1>10, AppendProperties
  <1>12. /\ conns'[c].toReceiver = r.toReceiver /\ conns'[c].toSender = r.toSender
         /\ conns'[c].alive = r.alive /\ conns'[c].active = r.active
         /\ conns'[c].sync = r.sync /\ conns'[c].partial = r.partial
         /\ conns'[c].counter = r.counter /\ conns'[c].pending = 0
    BY <1>7, <1>9
  <1>13. Becomes(c, conns'[c])
    BY <1>8, <1>9
  <1> QED
    BY <1>4, <1>6, <1>10, <1>11, <1>12, <1>13 DEF r

\* EnforceClose, ConnectionEnds and Break: a connection loses the end of what is under way.
LEMMA CloseStep ==
    ASSUME TypeOK, NEW c \in Conns,
           \/ EnforceClose(c)
           \/ ConnectionEnds(c)
           \/ \E i \in 0 .. Len(conns[c].toReceiver), j \in 0 .. Len(conns[c].toSender) :
                 Break(c, i, j)
    PROVE  /\ Becomes(c, conns'[c])
           /\ ~conns'[c].alive
           /\ Len(conns'[c].toReceiver) <= Len(conns[c].toReceiver)
           /\ \A i \in 1 .. Len(conns'[c].toReceiver) :
                 conns'[c].toReceiver[i] = conns[c].toReceiver[i]
           /\ Len(conns'[c].toSender) <= Len(conns[c].toSender)
           /\ \A i \in 1 .. Len(conns'[c].toSender) : conns'[c].toSender[i] = conns[c].toSender[i]
           /\ conns'[c].sync = conns[c].sync /\ conns'[c].partial = conns[c].partial
           /\ conns'[c].counter = conns[c].counter /\ conns'[c].pending = conns[c].pending
           /\ UNCHANGED <<svars, delivered, confirmed>>
  <1> DEFINE r == conns[c]
             Shorter(q, a) ==
                /\ Len(q) <= Len(r.toReceiver) /\ \A i \in 1 .. Len(q) : q[i] = r.toReceiver[i]
                /\ Len(a) <= Len(r.toSender) /\ \A i \in 1 .. Len(a) : a[i] = r.toSender[i]
             Goal == \E q \in Seq(Pieces), a \in Seq(Answer) : \E t :
                        /\ Cut(r, q, a, t) /\ Shorter(q, a)
                        /\ conns' = [conns EXCEPT ![c] = t]
  <1>1. r \in Connection
    BY DEF TypeOK, Conns
  <1>2. /\ r.toReceiver \in Seq(Pieces) /\ r.toSender \in Seq(Answer)
        /\ <<>> \in Seq(Pieces) /\ Len(<<>>) = 0
        /\ Len(r.toReceiver) \in Nat /\ Len(r.toSender) \in Nat
    BY <1>1, Fields
  <1>3. ASSUME EnforceClose(c) PROVE Goal
    <2>1. conns' = [conns EXCEPT ![c] =
                      [r EXCEPT !.active = FALSE, !.alive = FALSE, !.toReceiver = <<>>]]
      BY <1>3 DEF EnforceClose
    <2> HIDE DEF r
    <2>2. Shorter(<<>>, r.toSender)
      BY <1>2
    <2> QED
      BY <1>2, <2>1, <2>2 DEF Cut
  <1>4. ASSUME ConnectionEnds(c) PROVE Goal
    <2>1. conns' = [conns EXCEPT ![c] = [r EXCEPT !.active = FALSE]] /\ ~r.alive
      BY <1>4 DEF ConnectionEnds
    <2> HIDE DEF r
    <2>2. Shorter(r.toReceiver, r.toSender)
      BY <1>2
    <2> QED
      BY <1>2, <2>1, <2>2 DEF Cut
  <1>5. ASSUME NEW i \in 0 .. Len(r.toReceiver), NEW j \in 0 .. Len(r.toSender), Break(c, i, j)
        PROVE  Goal
    <2> DEFINE q1 == SubSeq(r.toReceiver, 1, i)
               a1 == SubSeq(r.toSender, 1, j)
    <2>1. conns' = [conns EXCEPT ![c] =
                      [r EXCEPT !.alive = FALSE, !.toReceiver = q1, !.toSender = a1]]
      BY <1>5 DEF Break
    <2>2. i \in 0 .. Len(r.toReceiver) /\ j \in 0 .. Len(r.toSender)
      OBVIOUS
    <2> HIDE DEF r
    <2>3. /\ q1 \in Seq(Pieces) /\ Len(q1) <= Len(r.toReceiver)
          /\ \A x \in 1 .. Len(q1) : q1[x] = r.toReceiver[x]
      BY <1>2, <2>2, Ends
    <2>4. /\ a1 \in Seq(Answer) /\ Len(a1) <= Len(r.toSender)
          /\ \A x \in 1 .. Len(a1) : a1[x] = r.toSender[x]
      BY <1>2, <2>2, Ends
    <2> HIDE DEF q1, a1
    <2> QED
      BY <2>1, <2>3, <2>4 DEF Cut
  <1>6. Goal
    BY <1>3, <1>4, <1>5
  <1> HIDE DEF r
  <1>6a. PICK q \in Seq(Pieces), a \in Seq(Answer) : \E t :
            Cut(r, q, a, t) /\ Shorter(q, a) /\ conns' = [conns EXCEPT ![c] = t]
    BY <1>6
  <1>7. PICK t : Cut(r, q, a, t) /\ Shorter(q, a) /\ conns' = [conns EXCEPT ![c] = t]
    BY <1>6a
  <1>8. t \in Connection /\ \E v \in BOOLEAN : t = [toReceiver |-> q, toSender |-> a,
             alive |-> FALSE, active |-> v, sync |-> r.sync, partial |-> r.partial,
             counter |-> r.counter, pending |-> r.pending]
    <2>1. Cut(r, q, a, t)
      BY <1>7
    <2> QED
      BY <1>1, <2>1, SetClosed
  <1>9. Becomes(c, t)
    BY <1>7, <1>8, OneBecomes
  <1>10. conns'[c] = t
    BY <1>9 DEF Becomes
  <1>11. UNCHANGED <<svars, delivered, confirmed>>
    BY DEF EnforceClose, ConnectionEnds, Break
  <1> QED
    BY <1>7, <1>8, <1>9, <1>10, <1>11 DEF r

-----------------------------------------------------------------------------
(* Types *)

\* A step on connection c that keeps the sender and the history keeps the types.
LEMMA TypeOfReceiver ==
    ASSUME TypeOK, NEW c \in Conns, Becomes(c, conns'[c]),
           conns'[c].sync => conns'[c].partial = 0,
           UNCHANGED <<svars, confirmed>>, delivered' \in Seq(Blocks \X (1 .. MaxConns))
    PROVE  TypeOK'
  <1>1. \A d \in Conns' : conns'[d].sync => conns'[d].partial = 0
    BY DEF TypeOK, Becomes
  <1>2. conns' \in Seq(Connection) /\ Len(conns') = Len(conns)
    BY DEF Becomes
  <1> QED
    BY <1>1, <1>2 DEF TypeOK, svars

\* Every step keeps the type invariant.
LEMMA TypeStep ==
    ASSUME TypeOK, [Next]_vars
    PROVE  TypeOK'
  <1>0. \A n \in 0 .. MaxBlocks : n # 0 => n \in Blocks
    BY Constants DEF Blocks
  <1>1. CASE NextBlock
    <2>1. block' \in 0 .. MaxBlocks /\ block' # 0 /\ part' = 0
      BY <1>1, Constants DEF NextBlock, TypeOK
    <2> QED
      BY <1>1, <2>1 DEF NextBlock, TypeOK, Conns
  <1>2. CASE SocketConnect
    <2>1. NewConn \in Connection /\ NewConn.partial = 0
      <3>1. <<"hello", 0>> \in Pieces
        BY Constants DEF Pieces
      <3>2. /\ <<<<"hello", 0>>>> \in Seq(Pieces) /\ <<>> \in Seq(Answer)
            /\ 0 \in 0 .. MaxBlocks /\ 0 \in 0 .. CounterMod - 1
        BY <3>1, Constants
      <3> QED
        BY <3>2, Rebuilt DEF NewConn
    <2> HIDE DEF NewConn
    <2>2. /\ conns' \in Seq(Connection) /\ Len(conns') = Len(conns) + 1
          /\ \A i \in 1 .. Len(conns) : conns'[i] = conns[i]
          /\ conns'[Len(conns) + 1] = NewConn
      BY <1>2, <2>1, AppendProperties DEF SocketConnect, TypeOK
    <2>3. \A c \in Conns' : conns'[c].sync => conns'[c].partial = 0
      <3>0. Conns = 1 .. Len(conns) /\ Conns' = 1 .. Len(conns) + 1 /\ Len(conns) \in Nat
        BY <2>2 DEF TypeOK, Conns
      <3>1. \A c \in Conns' : c \in Conns \/ c = Len(conns) + 1
        BY <3>0
      <3>2. \A c \in Conns : conns'[c].sync => conns'[c].partial = 0
        BY <2>2, <3>0 DEF TypeOK
      <3> QED
        BY <2>1, <2>2, <3>1, <3>2
    <2>4. Len(conns') <= MaxConns /\ conn' \in 0 .. Len(conns') /\ conn' # 0
      BY <1>2, <2>2, Constants DEF SocketConnect, TypeOK
    <2> QED
      BY <1>2, <2>2, <2>3, <2>4 DEF SocketConnect, TypeOK
  <1>3. CASE HandshakeDone
    <2>1. Becomes(conn, conns'[conn]) /\ conn \in Conns
      BY <1>3, HandshakeDoneStep
    <2>2. \A d \in Conns' : conns'[d].sync => conns'[d].partial = 0
      BY <1>3, <2>1, HandshakeDoneStep DEF TypeOK, Becomes, SameThread
    <2>3. conns' \in Seq(Connection) /\ Len(conns') = Len(conns)
      BY <2>1 DEF Becomes
    <2> QED
      BY <1>3, <2>2, <2>3 DEF HandshakeDone, TypeOK
  <1>4. CASE HandshakeFail
    BY <1>4 DEF HandshakeFail, TypeOK, Conns
  <1>5. CASE WritePiece
    <2>1. part' \in 0 .. 2 /\ (spc' = "write" => part' < 2) /\ spc' \in {"write", "await"}
      BY <1>5 DEF WritePiece, Written, TypeOK
    <2>2. CASE conns[conn].alive
      <3>1. Becomes(conn, conns'[conn]) /\ conn \in Conns
        BY <1>5, <2>2, WritePieceStep
      <3>2. \A d \in Conns' : conns'[d].sync => conns'[d].partial = 0
        BY <1>5, <2>2, <3>1, WritePieceStep DEF TypeOK, Becomes, SameThread
      <3>3. conns' \in Seq(Connection) /\ Len(conns') = Len(conns)
        BY <3>1 DEF Becomes
      <3> QED
        BY <1>5, <2>1, <3>2, <3>3 DEF WritePiece, TypeOK
    <2>3. CASE ~conns[conn].alive
      BY <1>5, <2>1, <2>3 DEF WritePiece, TypeOK, Conns
    <2> QED
      BY <2>2, <2>3
  <1>6. CASE WriteTimeout
    BY <1>6 DEF WriteTimeout, Written, TypeOK, Conns
  <1>7. CASE WriteFail
    BY <1>7 DEF WriteFail, TypeOK, Conns
  <1>8. ASSUME conn # 0, NEW k \in 1 .. Len(conns[conn].toSender), Response(k)
        PROVE  TypeOK'
    <2>1. Becomes(conn, conns'[conn]) /\ conn \in Conns
      BY <1>8, ResponseStep
    <2>2. \A d \in Conns' : conns'[d].sync => conns'[d].partial = 0
      BY <1>8, <2>1, ResponseStep DEF TypeOK, Becomes, SameThread
    <2>3. conns' \in Seq(Connection) /\ Len(conns') = Len(conns)
      BY <2>1 DEF Becomes
    <2>4. block \in Blocks
      BY <1>0, <1>8 DEF Response, TypeOK
    <2>5. confirmed' \subseteq Blocks
      BY <1>8, <2>4 DEF Response, TypeOK
    <2> QED
      BY <1>8, <2>2, <2>3, <2>5 DEF Response, TypeOK
  <1>9. CASE NoResponse
    BY <1>9 DEF NoResponse, TypeOK, Conns
  <1>10. ASSUME NEW c \in Conns, Receive(c) PROVE TypeOK'
    <2>1. Becomes(c, conns'[c]) /\ (conns'[c].sync => conns'[c].partial = 0)
      BY <1>10, ReceiveStep, TakenCases
    <2> QED
      BY <1>10, <2>1, TypeOfReceiver DEF Receive, TypeOK
  <1>11. ASSUME NEW c \in Conns, PushBlock(c) PROVE TypeOK'
    <2>1. /\ Becomes(c, conns'[c]) /\ (conns'[c].sync => conns'[c].partial = 0)
          /\ delivered' \in Seq(Blocks \X (1 .. MaxConns))
      BY <1>11, PushBlockStep DEF TypeOK
    <2> QED
      BY <1>11, <2>1, TypeOfReceiver DEF PushBlock
  <1>12. ASSUME NEW c \in Conns,
                \/ EnforceClose(c)
                \/ ConnectionEnds(c)
                \/ \E i \in 0 .. Len(conns[c].toReceiver), j \in 0 .. Len(conns[c].toSender) :
                      Break(c, i, j)
         PROVE  TypeOK'
    <2>1. /\ Becomes(c, conns'[c]) /\ (conns'[c].sync => conns'[c].partial = 0)
          /\ UNCHANGED <<svars, delivered, confirmed>>
      BY <1>12, CloseStep DEF TypeOK
    <2> QED
      BY <2>1, TypeOfReceiver DEF TypeOK
  <1>13. CASE UNCHANGED vars
    BY <1>13 DEF vars, svars, TypeOK, Conns
  <1> QED
    BY <1>1, <1>2, <1>3, <1>4, <1>5, <1>6, <1>7, <1>8, <1>9, <1>10, <1>11, <1>12, <1>13
       DEF Next, Sender, Receiver, Network

\* TypeOK holds of every state of the sender, the network and the receiver's threads: a
\* sender that writes has a connection, and a thread that looks for the start of a block
\* (syncBeginBlock) holds no part of one.
THEOREM MirrorTypes == Spec => []TypeOK
  <1>1. Init => TypeOK
    BY Constants DEF Init, TypeOK, Conns
  <1>2. TypeOK /\ [Next]_vars => TypeOK'
    BY TypeStep
  <1> QED
    BY <1>1, <1>2, PTL DEF Spec

-----------------------------------------------------------------------------
(* A connection delivers each block once and in order *)

\* The pieces of a connection are pieces.
LEMMA PieceTypes ==
    ASSUME NEW r \in Connection
    PROVE  /\ DOMAIN r.toReceiver = 1 .. Len(r.toReceiver)
           /\ Len(r.toReceiver) \in Nat
           /\ \A i \in 1 .. Len(r.toReceiver) : r.toReceiver[i][2] \in 0 .. MaxBlocks
  <1>1. r.toReceiver \in Seq(Pieces)
    BY Fields
  <1> QED
    BY <1>1 DEF Pieces

\* Nothing comes after block n on connection r but later blocks.
NotBefore(r, n) ==
    \A i \in DOMAIN r.toReceiver : r.toReceiver[i][1] # "hello" => n <= r.toReceiver[i][2]

\* What remains of an ordered sequence of pieces is ordered.
LEMMA LaterPieces ==
    ASSUME NEW r \in Connection, NEW t \in Connection, NEW k \in Nat,
           Len(t.toReceiver) + k <= Len(r.toReceiver),
           \A i \in 1 .. Len(t.toReceiver) : t.toReceiver[i] = r.toReceiver[i + k],
           InSequence(r)
    PROVE  /\ InSequence(t)
           /\ \A n \in Nat : NotBefore(r, n) => NotBefore(t, n)
  <1>1. /\ DOMAIN t.toReceiver = 1 .. Len(t.toReceiver) /\ Len(t.toReceiver) \in Nat
        /\ DOMAIN r.toReceiver = 1 .. Len(r.toReceiver) /\ Len(r.toReceiver) \in Nat
    BY PieceTypes
  <1>2. \A i \in 1 .. Len(t.toReceiver) :
           i + k \in 1 .. Len(r.toReceiver) /\ t.toReceiver[i] = r.toReceiver[i + k]
    BY <1>1
  <1>3. \A i, j \in 1 .. Len(t.toReceiver) : i < j => i + k < j + k
    BY <1>1
  <1>4. \A i, j \in DOMAIN t.toReceiver : i < j => t.toReceiver[i][2] <= t.toReceiver[j][2]
    <2> SUFFICES ASSUME NEW i \in DOMAIN t.toReceiver, NEW j \in DOMAIN t.toReceiver, i < j
                 PROVE  t.toReceiver[i][2] <= t.toReceiver[j][2]
      OBVIOUS
    <2>1. i + k \in DOMAIN r.toReceiver /\ j + k \in DOMAIN r.toReceiver /\ i + k < j + k
      BY <1>1, <1>2, <1>3
    <2> QED
      BY <1>1, <1>2, <2>1 DEF InSequence
  <1>5. \A i \in DOMAIN t.toReceiver : t.toReceiver[i][2] <= block
    BY <1>1, <1>2 DEF InSequence
  <1>6. \A n \in Nat : NotBefore(r, n) => NotBefore(t, n)
    BY <1>1, <1>2 DEF NotBefore
  <1> QED
    BY <1>4, <1>5, <1>6 DEF InSequence

\* The counter before the first block is 0.
LEMMA CounterZero == Counter(0) = 0
  BY Constants DEF Counter

\* A step of one connection keeps the order when it keeps it on that connection.
LEMMA OrderOfConnection ==
    ASSUME TypeOK, OrderInv, NEW c \in Conns, Becomes(c, conns'[c]),
           block' = block, delivered' = delivered,
           InSequence(conns'[c]),
           \E n \in 0 .. block : LastTaken(c, conns'[c], n)
    PROVE  OrderInv'
  <1>1. \A d \in Conns' : InSequence(conns[d])'
    BY DEF OrderInv, Becomes, InSequence
  <1>2. ASSUME NEW d \in Conns'
        PROVE  (\E n \in 0 .. block : LastTaken(d, conns[d], n))'
    <2>1. PICK n \in 0 .. block : LastTaken(d, conns'[d], n)
      BY <1>2 DEF OrderInv, Becomes
    <2>2. LastTaken(d, conns[d], n)'
      BY <2>1 DEF LastTaken
    <2> QED
      BY <2>2
  <1>3. (\A d \in DOMAIN delivered : delivered[d][2] \in Conns)'
    BY DEF OrderInv, Becomes
  <1>4. OncePerConnection'
    BY DEF OrderInv, OncePerConnection
  <1> QED
    BY <1>1, <1>2, <1>3, <1>4 DEF OrderInv

\* A connection that has lost some pieces and nothing else keeps the order.
LEMMA OrderOfRest ==
    ASSUME TypeOK, OrderInv, NEW c \in Conns, Becomes(c, conns'[c]),
           block' = block, delivered' = delivered,
           NEW k \in Nat,
           Len(conns'[c].toReceiver) + k <= Len(conns[c].toReceiver),
           \A i \in 1 .. Len(conns'[c].toReceiver) :
              conns'[c].toReceiver[i] = conns[c].toReceiver[i + k],
           conns'[c].counter = conns[c].counter, conns'[c].pending = conns[c].pending,
           conns'[c].partial \in {0, conns[c].partial}
    PROVE  OrderInv'
  <1>1. conns[c] \in Connection /\ conns'[c] \in Connection
    BY DEF TypeOK, Conns, Becomes
  <1>2. InSequence(conns[c])
    BY DEF OrderInv
  <1>3. PICK n \in 0 .. block : LastTaken(c, conns[c], n)
    BY DEF OrderInv
  <1>4. n \in Nat
    BY DEF TypeOK
  <1>5. InSequence(conns'[c]) /\ NotBefore(conns'[c], n)
    BY <1>1, <1>2, <1>3, <1>4, LaterPieces DEF LastTaken, NotBefore
  <1>6. LastTaken(c, conns'[c], n)
    BY <1>3, <1>5 DEF LastTaken, NotBefore
  <1> QED
    BY <1>5, <1>6, OrderOfConnection

\* The sender writes pieces in the order of their blocks.
LEMMA OrderWrite ==
    ASSUME TypeOK, OrderInv, WritePiece
    PROVE  OrderInv'
  <1>1. CASE conns[conn].alive
    <2> DEFINE r == conns[conn]
               t == conns'[conn]
    <2>1. /\ conn \in Conns /\ Becomes(conn, t)
          /\ SameThread(r, t) /\ Piece \in Pieces
          /\ t.toReceiver = Append(r.toReceiver, Piece)
      BY <1>1, WritePieceStep
    <2>2. block' = block /\ delivered' = delivered /\ block \in Nat /\ Piece[2] = block
          /\ block # 0
      BY DEF WritePiece, TypeOK, Piece
    <2>3. r \in Connection /\ t \in Connection /\ InSequence(r)
      BY <2>1 DEF TypeOK, Conns, Becomes, OrderInv
    <2>4. PICK n \in 0 .. block : LastTaken(conn, r, n)
      BY <2>1 DEF OrderInv
    <2> HIDE DEF r, t
    <2>5. /\ DOMAIN r.toReceiver = 1 .. Len(r.toReceiver) /\ Len(r.toReceiver) \in Nat
          /\ DOMAIN t.toReceiver = 1 .. Len(r.toReceiver) + 1
          /\ Len(t.toReceiver) = Len(r.toReceiver) + 1
          /\ \A i \in 1 .. Len(r.toReceiver) : t.toReceiver[i] = r.toReceiver[i]
          /\ t.toReceiver[Len(r.toReceiver) + 1] = Piece
      BY <2>1, <2>3, Fields, AppendProperties, PieceTypes
    <2>6. InSequence(t)
      <3>1. \A i \in DOMAIN t.toReceiver : i \in DOMAIN r.toReceiver \/ i = Len(r.toReceiver) + 1
        BY <2>5
      <3>2. \A i \in DOMAIN t.toReceiver : t.toReceiver[i][2] <= block
        BY <2>2, <2>3, <2>5, <3>1 DEF InSequence
      <3>3. \A i, j \in DOMAIN t.toReceiver :
               i < j => t.toReceiver[i][2] <= t.toReceiver[j][2]
        <4> SUFFICES ASSUME NEW i \in DOMAIN t.toReceiver, NEW j \in DOMAIN t.toReceiver, i < j
                     PROVE  t.toReceiver[i][2] <= t.toReceiver[j][2]
          OBVIOUS
        <4>1. CASE j = Len(r.toReceiver) + 1
          BY <2>2, <2>5, <3>2, <4>1
        <4>2. CASE j \in DOMAIN r.toReceiver
          <5>1. i \in DOMAIN r.toReceiver
            BY <2>5, <4>2
          <5>2. r.toReceiver[i][2] <= r.toReceiver[j][2]
            BY <2>3, <4>2, <5>1 DEF InSequence
          <5>3. t.toReceiver[i] = r.toReceiver[i] /\ t.toReceiver[j] = r.toReceiver[j]
            BY <2>5, <4>2, <5>1
          <5> QED
            BY <5>2, <5>3
        <4> QED
          BY <3>1, <4>1, <4>2
      <3> QED
        BY <3>2, <3>3 DEF InSequence
    <2>7. LastTaken(conn, t, n)
      BY <2>1, <2>2, <2>4, <2>5 DEF LastTaken, SameThread
    <2> QED
      BY <2>1, <2>2, <2>6, <2>7, OrderOfConnection DEF t
  <1>2. CASE ~conns[conn].alive
    <2>1. UNCHANGED <<conns, block, delivered>>
      BY <1>2 DEF WritePiece
    <2> QED
      BY <2>1 DEF OrderInv, InSequence, LastTaken, OncePerConnection, Conns
  <1> QED
    BY <1>1, <1>2

\* What the thread of a connection completes is above what that connection has delivered.
LEMMA OrderReceive ==
    ASSUME TypeOK, OrderInv, NEW c \in Conns, Receive(c)
    PROVE  OrderInv'
  <1> DEFINE o == conns[c]
             t == conns'[c]
  <1>1. PICK r \in Connection, m \in Pieces :
             /\ SameThread(o, r) /\ r.alive = o.alive
             /\ r.toSender = o.toSender
             /\ o.toReceiver # <<>>
             /\ m = o.toReceiver[1]
             /\ Len(r.toReceiver) = Len(o.toReceiver) - 1
             /\ \A i \in 1 .. Len(r.toReceiver) : r.toReceiver[i] = o.toReceiver[i + 1]
             /\ t \in Taken(r, m)
             /\ r.sync => r.partial = 0
             /\ Becomes(c, t)
    BY ReceiveStep
  <1>2. /\ o \in Connection /\ t \in Connection /\ InSequence(o) /\ block \in Nat
        /\ UNCHANGED <<block, delivered>> /\ o.pending = 0
    BY <1>1 DEF TypeOK, Conns, Becomes, OrderInv, Receive, svars
  <1>3. PICK n \in 0 .. block : LastTaken(c, o, n)
    BY DEF OrderInv
  <1> HIDE DEF o, t
  <1>4. /\ DOMAIN o.toReceiver = 1 .. Len(o.toReceiver) /\ Len(o.toReceiver) \in Nat
        /\ DOMAIN r.toReceiver = 1 .. Len(r.toReceiver) /\ Len(r.toReceiver) \in Nat
        /\ 1 \in DOMAIN o.toReceiver
        /\ m[2] \in Nat /\ n \in Nat
    <2>1. /\ DOMAIN o.toReceiver = 1 .. Len(o.toReceiver) /\ Len(o.toReceiver) \in Nat
          /\ DOMAIN r.toReceiver = 1 .. Len(r.toReceiver) /\ Len(r.toReceiver) \in Nat
      BY <1>1, <1>2, PieceTypes
    <2>2. Len(o.toReceiver) # 0
      BY <1>1, <1>2, Fields
    <2>3. m[2] \in Nat
      BY DEF Pieces
    <2> QED
      BY <1>2, <2>1, <2>2, <2>3
  <1>5. InSequence(r) /\ NotBefore(r, n) /\ LastTaken(c, r, n) /\ r.pending = 0
    <2>1. InSequence(r) /\ NotBefore(r, n)
      <3>1. Len(r.toReceiver) + 1 <= Len(o.toReceiver) /\ 1 \in Nat
        BY <1>1, <1>4
      <3>2. NotBefore(o, n)
        BY <1>3 DEF LastTaken, NotBefore
      <3> QED
        BY <1>1, <1>2, <1>4, <3>1, <3>2, LaterPieces
    <2> QED
      BY <1>1, <1>2, <1>3, <2>1 DEF LastTaken, NotBefore, SameThread
  <1>6. /\ m[2] <= block
        /\ m[1] # "hello" => n <= m[2]
        /\ \A i \in DOMAIN r.toReceiver : m[2] <= r.toReceiver[i][2]
    <2>1. \A i \in DOMAIN r.toReceiver : i + 1 \in DOMAIN o.toReceiver /\ 1 < i + 1
      BY <1>1, <1>4
    <2>2. \A i \in DOMAIN r.toReceiver : m[2] <= r.toReceiver[i][2]
      BY <1>1, <1>2, <1>4, <2>1 DEF InSequence
    <2> QED
      BY <1>1, <1>2, <1>3, <1>4, <2>2 DEF InSequence, LastTaken
  <1>7. InSequence(t) /\ \E x \in 0 .. block : LastTaken(c, t, x)
    <2>1. CASE TookHello(r, m, t) \/ t = r
      <3>1. InSequence(t) /\ LastTaken(c, t, n)
        BY <1>5, <2>1 DEF TookHello, InSequence, LastTaken
      <3> QED
        BY <3>1
    <2>2. CASE TookHead(r, m, t)
      <3>1. InSequence(t) /\ LastTaken(c, t, n)
        BY <1>5, <1>6, <2>2 DEF TookHead, NewHead, InSequence, LastTaken
      <3> QED
        BY <3>1
    <2>3. CASE TookBlock(r, m, t)
      <3>1. InSequence(t) /\ t.partial = 0 /\ t.toReceiver = r.toReceiver
        BY <1>5, <2>3 DEF TookBlock, InSequence
      <3>2. CASE r.counter = Counter(m[2])
        <4>1. LastTaken(c, t, n)
          BY <1>5, <2>3, <3>1, <3>2 DEF TookBlock, LastTaken
        <4> QED
          BY <3>1, <4>1
      <3>3. CASE r.counter # Counter(m[2])
        <4>1. t.counter = Counter(m[2]) /\ t.pending = m[2] /\ m[1] = "tail"
          BY <2>3, <3>3 DEF TookBlock
        <4>2. r.counter = Counter(n) /\ n <= m[2]
          BY <1>5, <1>6, <4>1 DEF LastTaken
        <4>3. n < m[2] /\ m[2] \in 0 .. block
          BY <1>2, <1>4, <1>6, <3>3, <4>2
        <4>4. \A d \in DOMAIN delivered : delivered[d][2] = c => delivered[d][1] < m[2]
          <5>1. \A d \in DOMAIN delivered : delivered[d][1] \in Nat
            BY Constants DEF TypeOK, Blocks
          <5> QED
            BY <1>4, <1>5, <4>3, <5>1 DEF LastTaken
        <4>5. \A d \in DOMAIN delivered : delivered[d][2] = c => delivered[d][1] <= m[2]
          <5>1. \A d \in DOMAIN delivered : delivered[d][1] \in Nat
            BY Constants DEF TypeOK, Blocks
          <5> QED
            BY <1>4, <4>4, <5>1
        <4>6. LastTaken(c, t, m[2])
          BY <1>6, <3>1, <4>1, <4>4, <4>5 DEF LastTaken
        <4> QED
          BY <3>1, <4>3, <4>6
      <3> QED
        BY <3>2, <3>3
    <2>4. CASE FoundFault(r, m, t)
      <3>1. PICK k \in 0 .. Len(r.toReceiver) :
              t.toReceiver = SubSeq(r.toReceiver, k + 1, Len(r.toReceiver))
        BY <2>4 DEF FoundFault
      <3>2. /\ k \in Nat /\ Len(t.toReceiver) + k <= Len(r.toReceiver)
            /\ \A i \in 1 .. Len(t.toReceiver) : t.toReceiver[i] = r.toReceiver[i + k]
        <4>1. /\ Len(t.toReceiver) = Len(r.toReceiver) - k
              /\ \A i \in 1 .. Len(r.toReceiver) - k : t.toReceiver[i] = r.toReceiver[k + i]
          <5>1. r.toReceiver \in Seq(Pieces)
            BY Fields
          <5> DEFINE q == r.toReceiver
          <5>2. q \in Seq(Pieces) /\ k \in 0 .. Len(q)
            BY <5>1
          <5> HIDE DEF q
          <5>3. /\ Len(SubSeq(q, k + 1, Len(q))) = Len(q) - k
                /\ \A i \in 1 .. Len(q) - k : SubSeq(q, k + 1, Len(q))[i] = q[k + i]
            BY <5>2, Ends
          <5> QED
            BY <3>1, <5>3 DEF q
        <4>2. \A i \in 1 .. Len(t.toReceiver) : k + i = i + k
          BY <1>4, <4>1
        <4>3. k \in Nat /\ Len(t.toReceiver) + k <= Len(r.toReceiver)
          BY <1>4, <4>1
        <4> QED
          BY <4>1, <4>2, <4>3
      <3>3. InSequence(t) /\ NotBefore(t, n)
        BY <1>2, <1>4, <1>5, <3>2, LaterPieces
      <3>4. LastTaken(c, t, n)
        BY <1>5, <2>4, <3>3 DEF FoundFault, LastTaken, NotBefore
      <3> QED
        BY <3>3, <3>4
    <2> QED
      BY <1>1, <2>1, <2>2, <2>3, <2>4, TakenCases
  <1> QED
    BY <1>1, <1>2, <1>7, OrderOfConnection DEF t

\* A pushed block is above those its connection has delivered.
LEMMA OrderPush ==
    ASSUME TypeOK, OrderInv, NEW c \in Conns, PushBlock(c)
    PROVE  OrderInv'
  <1> DEFINE r == conns[c]
             t == conns'[c]
             L == Len(delivered)
  <1>1. /\ Becomes(c, t)
        /\ t.toReceiver = r.toReceiver /\ t.partial = r.partial
        /\ t.counter = r.counter /\ t.pending = 0
        /\ delivered' \in Seq(Blocks \X (1 .. MaxConns))
        /\ Len(delivered') = L + 1
        /\ \A i \in 1 .. L : delivered'[i] = delivered[i]
        /\ delivered'[L + 1] = <<r.pending, c>>
    BY PushBlockStep
  <1>2. /\ block' = block /\ r.pending # 0 /\ L \in Nat
        /\ DOMAIN delivered = 1 .. L /\ DOMAIN delivered' = 1 .. L + 1
        /\ \A d \in 1 .. L : delivered[d][1] \in Nat
        /\ \A d \in 1 .. L + 1 : d \in 1 .. L \/ d = L + 1
    <2>1. block' = block /\ r.pending # 0
      BY DEF PushBlock, svars
    <2>2. delivered \in Seq(Blocks \X (1 .. MaxConns))
      BY DEF TypeOK
    <2>3. \A d \in 1 .. L : delivered[d][1] \in Nat
      BY <2>2, Constants DEF Blocks
    <2>4. L \in Nat /\ DOMAIN delivered = 1 .. L /\ DOMAIN delivered' = 1 .. L + 1
      BY <1>1, <2>2
    <2> QED
      BY <2>1, <2>3, <2>4
  <1>3. PICK n \in 0 .. block : LastTaken(c, r, n)
    BY DEF OrderInv
  <1>4. r.pending = n /\ \A d \in 1 .. L : delivered[d][2] = c => delivered[d][1] < n
    BY <1>2, <1>3 DEF LastTaken
  <1>5. n \in Nat
    BY DEF TypeOK
  <1>6. ASSUME NEW d \in 1 .. L + 1, delivered'[d][2] = c PROVE delivered'[d][1] <= n
    <2>1. CASE d \in 1 .. L
      <3>1. delivered[d][1] < n /\ delivered[d][1] \in Nat /\ delivered'[d] = delivered[d]
        BY <1>1, <1>2, <1>4, <1>6, <2>1
      <3> QED
        BY <1>5, <3>1
    <2>2. CASE d = L + 1
      BY <1>1, <1>4, <1>5, <2>2
    <2> QED
      BY <1>2, <2>1, <2>2
  <1>7. LastTaken(c, conns[c], n)'
    BY <1>1, <1>2, <1>3, <1>6 DEF LastTaken
  <1>8. ASSUME NEW d \in Conns, d # c
        PROVE  (\E x \in 0 .. block : LastTaken(d, conns[d], x))'
    <2>1. PICK x \in 0 .. block : LastTaken(d, conns[d], x)
      BY DEF OrderInv
    <2>2. conns'[d] = conns[d]
      BY <1>1, <1>8 DEF Becomes
    <2>3. \A e \in 1 .. L + 1 : delivered'[e][2] = d => e \in 1 .. L /\ delivered'[e] = delivered[e]
      BY <1>1, <1>2, <1>8
    <2>4. LastTaken(d, conns[d], x)'
      BY <1>2, <2>1, <2>2, <2>3 DEF LastTaken
    <2> QED
      BY <1>2, <2>4
  <1>9. \A d \in Conns' : (\E x \in 0 .. block : LastTaken(d, conns[d], x))'
    BY <1>1, <1>2, <1>7, <1>8 DEF Becomes
  <1>10. ASSUME NEW d \in Conns' PROVE InSequence(conns[d])'
    <2>1. d \in Conns /\ conns'[d].toReceiver = conns[d].toReceiver
      BY <1>1, <1>10 DEF Becomes
    <2>2. InSequence(conns[d])
      BY <2>1 DEF OrderInv
    <2> QED
      BY <1>2, <2>1, <2>2 DEF InSequence
  <1>11. (\A d \in DOMAIN delivered : delivered[d][2] \in Conns)'
    <2>1. \A d \in 1 .. L : delivered'[d][2] \in Conns
      BY <1>1, <1>2 DEF OrderInv
    <2>2. delivered'[L + 1][2] \in Conns
      BY <1>1
    <2>3. \A d \in 1 .. L + 1 : delivered'[d][2] \in Conns
      BY <1>2, <2>1, <2>2
    <2>4. Conns' = Conns
      BY <1>1 DEF Becomes
    <2> QED
      BY <1>2, <2>3, <2>4
  <1>12. OncePerConnection'
    <2> SUFFICES ASSUME NEW i \in 1 .. L + 1, NEW j \in 1 .. L + 1, i < j,
                        delivered'[i][2] = delivered'[j][2]
                 PROVE  delivered'[i][1] < delivered'[j][1]
      BY <1>2 DEF OncePerConnection
    <2>1. i \in 1 .. L
      BY <1>2
    <2>2. CASE j \in 1 .. L
      BY <1>1, <1>2, <2>1, <2>2 DEF OrderInv, OncePerConnection
    <2>3. CASE j = L + 1
      BY <1>1, <1>4, <2>1, <2>3
    <2> QED
      BY <1>2, <2>2, <2>3
  <1> QED
    BY <1>9, <1>10, <1>11, <1>12 DEF OrderInv

\* A new connection has delivered nothing.
LEMMA OrderConnect ==
    ASSUME TypeOK, OrderInv, SocketConnect
    PROVE  OrderInv'
  <1> DEFINE L == Len(conns)
  <1>1. NewConn.toReceiver = <<<<"hello", 0>>>> /\ NewConn.counter = 0
        /\ NewConn.partial = 0 /\ NewConn.pending = 0
    BY DEF NewConn
  <1> HIDE DEF NewConn
  <1>2. /\ L \in Nat /\ Conns = 1 .. L /\ Conns' = 1 .. L + 1
        /\ \A d \in 1 .. L : conns'[d] = conns[d]
        /\ conns'[L + 1] = NewConn
        /\ UNCHANGED <<block, delivered>> /\ block \in Nat
        /\ \A d \in 1 .. L + 1 : d \in 1 .. L \/ d = L + 1
    BY DEF SocketConnect, TypeOK, Conns
  <1>3. \A d \in Conns' : InSequence(conns[d])'
    BY <1>1, <1>2 DEF OrderInv, InSequence
  <1>4. \A d \in DOMAIN delivered : delivered[d][2] # L + 1
    BY <1>2 DEF OrderInv
  <1>5. LastTaken(L + 1, NewConn, 0)
    BY <1>1, <1>4, CounterZero DEF LastTaken
  <1>6. ASSUME NEW d \in Conns' PROVE (\E x \in 0 .. block : LastTaken(d, conns[d], x))'
    <2>1. PICK x \in 0 .. block : LastTaken(d, conns'[d], x)
      BY <1>2, <1>5, <1>6 DEF OrderInv
    <2>2. LastTaken(d, conns[d], x)'
      BY <1>2, <2>1 DEF LastTaken
    <2> QED
      BY <1>2, <2>2
  <1>7. (\A d \in DOMAIN delivered : delivered[d][2] \in Conns)'
    BY <1>2 DEF OrderInv
  <1>8. OncePerConnection'
    BY <1>2 DEF OrderInv, OncePerConnection
  <1> QED
    BY <1>3, <1>6, <1>7, <1>8 DEF OrderInv

\* A step that changes no connection, nothing delivered, and block at most upwards.
LEMMA OrderSender ==
    ASSUME TypeOK, OrderInv, UNCHANGED <<conns, delivered>>, block' \in {block, block + 1}
    PROVE  OrderInv'
  <1>1. block \in Nat /\ block' \in Nat /\ block <= block' /\ Conns' = Conns
    BY DEF TypeOK, Conns
  <1>2. ASSUME NEW c \in Conns PROVE InSequence(conns[c])'
    <2>1. conns[c] \in Connection
      BY DEF TypeOK, Conns
    <2>2. \A i \in DOMAIN conns[c].toReceiver : conns[c].toReceiver[i][2] \in Nat
      BY <2>1, PieceTypes
    <2> QED
      BY <1>1, <2>2 DEF OrderInv, InSequence
  <1>3. ASSUME NEW c \in Conns PROVE (\E x \in 0 .. block : LastTaken(c, conns[c], x))'
    <2>1. PICK x \in 0 .. block : LastTaken(c, conns[c], x)
      BY DEF OrderInv
    <2>2. LastTaken(c, conns[c], x)' /\ x \in 0 .. block'
      BY <1>1, <2>1 DEF LastTaken
    <2> QED
      BY <2>2
  <1>4. (\A d \in DOMAIN delivered : delivered[d][2] \in Conns)'
    BY <1>1 DEF OrderInv
  <1>5. OncePerConnection'
    BY DEF OrderInv, OncePerConnection
  <1> QED
    BY <1>1, <1>2, <1>3, <1>4, <1>5 DEF OrderInv

\* Every step keeps the order on each connection.
LEMMA OrderStep ==
    ASSUME TypeOK, OrderInv, [Next]_vars
    PROVE  OrderInv'
  <1>0. ASSUME NEW c \in Conns PROVE Len(conns[c].toReceiver) \in Nat
    BY PieceTypes DEF TypeOK, Conns
  <1>1. CASE NextBlock \/ HandshakeFail \/ WriteTimeout \/ WriteFail \/ NoResponse
    BY <1>1, OrderSender DEF NextBlock, HandshakeFail, WriteTimeout, WriteFail, NoResponse
  <1>2. CASE SocketConnect
    BY <1>2, OrderConnect
  <1>3. CASE HandshakeDone
    <2>1. /\ conn \in Conns /\ Becomes(conn, conns'[conn])
          /\ SameThread(conns[conn], conns'[conn])
          /\ conns'[conn].toReceiver = conns[conn].toReceiver
          /\ UNCHANGED <<block, delivered>>
      BY <1>3, HandshakeDoneStep DEF HandshakeDone
    <2>2. /\ Len(conns'[conn].toReceiver) + 0 <= Len(conns[conn].toReceiver)
          /\ \A i \in 1 .. Len(conns'[conn].toReceiver) :
                conns'[conn].toReceiver[i] = conns[conn].toReceiver[i + 0]
      BY <1>0, <2>1
    <2>3. /\ conns'[conn].counter = conns[conn].counter
          /\ conns'[conn].pending = conns[conn].pending
          /\ conns'[conn].partial \in {0, conns[conn].partial}
          /\ 0 \in Nat
      BY <2>1 DEF SameThread
    <2> QED
      BY <2>1, <2>2, <2>3, OrderOfRest
  <1>4. CASE WritePiece
    BY <1>4, OrderWrite
  <1>5. ASSUME NEW k \in 1 .. Len(conns[conn].toSender), Response(k) PROVE OrderInv'
    <2>1. /\ conn \in Conns /\ Becomes(conn, conns'[conn])
          /\ SameThread(conns[conn], conns'[conn])
          /\ conns'[conn].toReceiver = conns[conn].toReceiver
          /\ UNCHANGED <<block, delivered>>
      BY <1>5, ResponseStep DEF Response
    <2>2. /\ Len(conns'[conn].toReceiver) + 0 <= Len(conns[conn].toReceiver)
          /\ \A i \in 1 .. Len(conns'[conn].toReceiver) :
                conns'[conn].toReceiver[i] = conns[conn].toReceiver[i + 0]
      BY <1>0, <2>1
    <2>3. /\ conns'[conn].counter = conns[conn].counter
          /\ conns'[conn].pending = conns[conn].pending
          /\ conns'[conn].partial \in {0, conns[conn].partial}
          /\ 0 \in Nat
      BY <2>1 DEF SameThread
    <2> QED
      BY <2>1, <2>2, <2>3, OrderOfRest
  <1>6. ASSUME NEW c \in Conns, Receive(c) PROVE OrderInv'
    BY <1>6, OrderReceive
  <1>7. ASSUME NEW c \in Conns, PushBlock(c) PROVE OrderInv'
    BY <1>7, OrderPush
  <1>8. ASSUME NEW c \in Conns,
               \/ EnforceClose(c)
               \/ ConnectionEnds(c)
               \/ \E i \in 0 .. Len(conns[c].toReceiver), j \in 0 .. Len(conns[c].toSender) :
                     Break(c, i, j)
         PROVE OrderInv'
    <2>1. /\ Becomes(c, conns'[c])
          /\ Len(conns'[c].toReceiver) <= Len(conns[c].toReceiver)
          /\ \A i \in 1 .. Len(conns'[c].toReceiver) :
                 conns'[c].toReceiver[i] = conns[c].toReceiver[i]
          /\ conns'[c].partial = conns[c].partial
          /\ conns'[c].counter = conns[c].counter /\ conns'[c].pending = conns[c].pending
          /\ UNCHANGED <<block, delivered>>
      BY <1>8, CloseStep DEF svars
    <2>2. conns'[c] \in Connection
      BY <2>1 DEF Becomes
    <2>3. Len(conns'[c].toReceiver) + 0 <= Len(conns[c].toReceiver)
      BY <2>1, <2>2, PieceTypes
    <2>4. \A i \in 1 .. Len(conns'[c].toReceiver) :
             conns'[c].toReceiver[i] = conns[c].toReceiver[i + 0]
      BY <2>1
    <2> QED
      BY <2>1, <2>3, <2>4, OrderOfRest
  <1>9. CASE UNCHANGED vars
    BY <1>9, OrderSender DEF vars, svars
  <1> QED
    BY <1>1, <1>2, <1>3, <1>4, <1>5, <1>6, <1>7, <1>8, <1>9
       DEF Next, Sender, Receiver, Network

\* A connection pushes no block twice and none before an earlier one, however the sender
\* repeats blocks, whatever is lost, and for every width of block_counter.
THEOREM MirrorOrder == Spec => []OncePerConnection
  <1>1. Init => TypeOK /\ OrderInv
    BY Constants DEF Init, TypeOK, OrderInv, OncePerConnection, Conns
  <1>2. TypeOK /\ OrderInv /\ [Next]_vars => (TypeOK /\ OrderInv)'
    BY TypeStep, OrderStep
  <1>3. OrderInv => OncePerConnection
    BY DEF OrderInv
  <1> QED
    BY <1>1, <1>2, <1>3, PTL DEF Spec

-----------------------------------------------------------------------------
(* No block is lost, with prompt answers and a counter that does not wrap *)

\* What the receiver has it keeps, if each thread hands on what it has in hand.
LEMMA HasKept ==
    ASSUME NEW n \in Blocks, Has(n),
           \A i \in DOMAIN delivered : i \in DOMAIN delivered' /\ delivered'[i] = delivered[i],
           \A c \in Conns : \/ c \in Conns' /\ conns'[c].pending = conns[c].pending
                            \/ conns[c].pending = 0
                            \/ \E i \in DOMAIN delivered' : delivered'[i][1] = conns[c].pending
    PROVE  Has(n)'
  <1>1. n # 0
    BY Constants DEF Blocks
  <1>2. CASE \E i \in DOMAIN delivered : delivered[i][1] = n
    BY <1>2 DEF Has
  <1>3. ASSUME NEW c \in Conns, conns[c].pending = n PROVE Has(n)'
    BY <1>1, <1>3 DEF Has
  <1> QED
    BY <1>2, <1>3 DEF Has

\* A block that the receiver has stays with it.
LEMMA HasStep ==
    ASSUME TypeOK, [Next]_vars, NEW n \in Blocks, Has(n)
    PROVE  Has(n)'
  <1>1. CASE UNCHANGED <<conns, delivered>>
    BY <1>1 DEF Has, Conns
  <1>2. CASE SocketConnect
    <2>1. /\ delivered' = delivered
          /\ \A c \in Conns : c \in Conns' /\ conns'[c] = conns[c]
      BY <1>2 DEF SocketConnect, TypeOK, Conns
    <2> QED
      BY <2>1, HasKept
  <1>3. ASSUME NEW c \in Conns, Becomes(c, conns'[c]), delivered' = delivered,
               conns'[c].pending = conns[c].pending \/ conns[c].pending = 0
        PROVE  Has(n)'
    BY <1>3, HasKept DEF Becomes
  <1>4. CASE HandshakeDone
    BY <1>3, <1>4, HandshakeDoneStep DEF SameThread, HandshakeDone
  <1>5. CASE WritePiece
    <2>1. CASE conns[conn].alive
      BY <1>3, <1>5, <2>1, WritePieceStep DEF SameThread, WritePiece
    <2>2. CASE ~conns[conn].alive
      BY <1>1, <1>5, <2>2 DEF WritePiece
    <2> QED
      BY <2>1, <2>2
  <1>6. ASSUME NEW k \in 1 .. Len(conns[conn].toSender), Response(k) PROVE Has(n)'
    BY <1>3, <1>6, ResponseStep DEF SameThread, Response
  <1>7. ASSUME NEW c \in Conns, Receive(c) PROVE Has(n)'
    BY <1>3, <1>7, ReceiveStep DEF Receive
  <1>8. ASSUME NEW c \in Conns, PushBlock(c) PROVE Has(n)'
    <2>1. /\ Becomes(c, conns'[c])
          /\ DOMAIN delivered = 1 .. Len(delivered) /\ Len(delivered) \in Nat
          /\ DOMAIN delivered' = 1 .. Len(delivered) + 1
          /\ \A i \in 1 .. Len(delivered) : delivered'[i] = delivered[i]
          /\ delivered'[Len(delivered) + 1] = <<conns[c].pending, c>>
      <3>1. /\ delivered \in Seq(Blocks \X (1 .. MaxConns))
            /\ delivered' \in Seq(Blocks \X (1 .. MaxConns))
            /\ Len(delivered') = Len(delivered) + 1
        BY <1>8, PushBlockStep DEF TypeOK
      <3>2. /\ Becomes(c, conns'[c])
            /\ \A i \in 1 .. Len(delivered) : delivered'[i] = delivered[i]
            /\ delivered'[Len(delivered) + 1] = <<conns[c].pending, c>>
        BY <1>8, PushBlockStep
      <3> QED
        BY <3>1, <3>2
    <2>2. Len(delivered) + 1 \in DOMAIN delivered'
          /\ delivered'[Len(delivered) + 1][1] = conns[c].pending
      BY <2>1
    <2>3. \A i \in DOMAIN delivered : i \in DOMAIN delivered' /\ delivered'[i] = delivered[i]
      BY <2>1
    <2> QED
      BY <2>1, <2>2, <2>3, HasKept DEF Becomes
  <1>9. ASSUME NEW c \in Conns,
               \/ EnforceClose(c)
               \/ ConnectionEnds(c)
               \/ \E i \in 0 .. Len(conns[c].toReceiver), j \in 0 .. Len(conns[c].toSender) :
                     Break(c, i, j)
        PROVE  Has(n)'
    BY <1>3, <1>9, CloseStep
  <1>10. CASE NextBlock \/ HandshakeFail \/ WriteTimeout \/ WriteFail \/ NoResponse
    BY <1>1, <1>10 DEF NextBlock, HandshakeFail, WriteTimeout, WriteFail, NoResponse
  <1> QED
    BY <1>1, <1>2, <1>4, <1>5, <1>6, <1>7, <1>8, <1>9, <1>10
       DEF Next, Sender, Receiver, Network, vars

\* The counter of a block is its number when the blocks do not wrap it.
LEMMA CounterExact ==
    ASSUME MaxBlocks < CounterMod, NEW n \in 0 .. MaxBlocks
    PROVE  Counter(n) = n
  BY Constants DEF Counter

\* The parts of PromptInv.
CounterHeld == \A c \in Conns : conns[c].counter # 0 => Has(conns[c].counter)
AliveActive == \A c \in Conns : conns[c].alive => conns[c].active
Own == conn # 0 => /\ conns[conn].alive => InStep(conns[conn])
                   /\ Answers(conns[conn])

\* The parts of PromptInv.
LEMMA PromptParts ==
    PromptInv <=> /\ NoLoss
                  /\ spc = "connect" => conn = 0
                  /\ AliveActive /\ CounterHeld /\ Own
  BY DEF PromptInv, AliveActive, CounterHeld, Own

\* The parts of PromptInv in the next state.
LEMMA PromptNext ==
    PromptInv' <=> /\ NoLoss'
                   /\ spc' = "connect" => conn' = 0
                   /\ AliveActive' /\ CounterHeld' /\ Own'
  BY DEF PromptInv, AliveActive, CounterHeld, Own

\* A step on another connection than the sender's leaves the sender in step.
LEMMA OwnKept ==
    ASSUME TypeOK, Own, [Next]_vars, UNCHANGED svars,
           conn # 0 => conns'[conn] = conns[conn]
    PROVE  Own'
  <1>1. spc = "await" /\ Has(block) => Has(block)'
    <2>1. \A n \in Blocks : Has(n) => Has(n)'
      BY HasStep
    <2>2. spc = "await" => block \in Blocks
      BY Constants DEF TypeOK, Blocks
    <2> QED
      BY <2>1, <2>2 DEF Has, svars
  <1> QED
    BY <1>1 DEF Own, InStep, Answers, Piece1, Piece2, Nothing, svars

\* Taking a piece keeps what is known of the sender's connection.
LEMMA OwnReceive ==
    ASSUME TypeOK, PromptInv, [Next]_vars, conn \in Conns, Receive(conn), MaxBlocks < CounterMod
    PROVE  Own'
  <1> DEFINE o == conns[conn]
             t == conns'[conn]
  <1>1. PICK r \in Connection, m \in Pieces :
             /\ SameThread(o, r) /\ r.alive = o.alive
             /\ r.toSender = o.toSender
             /\ o.toReceiver # <<>>
             /\ m = o.toReceiver[1]
             /\ Len(r.toReceiver) = Len(o.toReceiver) - 1
             /\ \A i \in 1 .. Len(r.toReceiver) : r.toReceiver[i] = o.toReceiver[i + 1]
             /\ t \in Taken(r, m)
             /\ r.sync => r.partial = 0
             /\ Becomes(conn, t)
    BY ReceiveStep
  <1>2. /\ UNCHANGED svars /\ conn # 0 /\ o.pending = 0
        /\ o \in Connection /\ t \in Connection /\ block \in 0 .. MaxBlocks
        /\ block # 0 \/ spc = "next"
        /\ o.alive => InStep(o)
        /\ Answers(o)
        /\ o.counter # 0 => Has(o.counter)
    BY <1>1, PromptParts DEF Receive, Becomes, TypeOK, Conns, svars, Own, CounterHeld
  <1>3. spc = "await" => block \in Blocks
    BY <1>2, Constants DEF Blocks
  <1>4. spc = "await" /\ Has(block) => Has(block)'
    <2>1. \A n \in Blocks : Has(n) => Has(n)'
      BY HasStep
    <2> QED
      BY <1>2, <1>3, <2>1 DEF Has, svars
  <1>5. t.pending = block => Has(block)'
    <2>1. conn \in Conns'
      BY <1>1 DEF Becomes
    <2> QED
      BY <1>2, <2>1 DEF Has, svars
  <1> HIDE DEF o, t
  <1>6. /\ t.alive = o.alive
        /\ \/ TookHello(r, m, t)
           \/ TookHead(r, m, t)
           \/ ~NewHead(r, m) /\ m[1] # "hello" /\ r.sync /\ t = r
           \/ TookBlock(r, m, t)
           \/ FoundFault(r, m, t)
    BY <1>1, TakenCases
  <1>7. CASE ~o.alive
    <2>1. t.toSender = o.toSender
      BY <1>1, <1>6, <1>7 DEF TookHello, TookHead, TookBlock, FoundFault, Answered
    <2>2. Answers(conns[conn])'
      BY <1>2, <1>4, <1>6, <1>7, <2>1 DEF Answers, svars, t
    <2> QED
      BY <1>2, <1>6, <1>7, <2>2 DEF Own, svars, t
  <1>8. CASE o.alive
    <2>0. /\ o.toReceiver \in Seq(Pieces) /\ Len(o.toReceiver) # 0
          /\ r.toReceiver \in Seq(Pieces)
          /\ Len(o.toReceiver) = 1 => r.toReceiver = <<>>
          /\ Len(o.toReceiver) = 2 => /\ Len(r.toReceiver) = 1
                                      /\ r.toReceiver[1] = o.toReceiver[2]
      <3>1. o.toReceiver \in Seq(Pieces) /\ r.toReceiver \in Seq(Pieces)
        BY <1>1, <1>2, Fields
      <3> QED
        BY <1>1, <3>1
    <2>1. CASE spc = "handshake"
      <3>1. m[1] = "hello" /\ r.toReceiver = <<>> /\ r.toSender = <<>> /\ o.sync
        BY <1>1, <1>2, <1>8, <2>0, <2>1 DEF InStep, Nothing, Answers
      <3>2. TookHello(r, m, t)
        BY <1>6, <3>1 DEF TookHead, NewHead, TookBlock, FoundFault
      <3>3. t.toSender = <<"ok">>
        BY <1>1, <1>8, <3>1, <3>2 DEF TookHello, Answered
      <3>4. InStep(t) /\ Answers(t)
        BY <1>1, <1>2, <2>1, <3>1, <3>2, <3>3 DEF TookHello, InStep, Nothing, Answers, SameThread
      <3> QED
        BY <1>2, <2>1, <3>4 DEF Own, InStep, Answers, Piece1, Piece2, Nothing, svars, t
    <2>2. CASE spc = "write" /\ part = 1
      <3>1. m = <<"head", block>> /\ r.partial = 0 /\ r.toReceiver = <<>> /\ o.toSender = <<>>
        BY <1>1, <1>2, <1>8, <2>0, <2>2 DEF InStep, Nothing, Answers, Piece1, SameThread
      <3>2. TookHead(r, m, t)
        BY <1>6, <3>1 DEF TookHello, NewHead, TookBlock, FoundFault
      <3>3. InStep(t) /\ Answers(t)
        BY <1>1, <2>2, <3>1, <3>2 DEF TookHead, InStep, Nothing, Answers
      <3> QED
        BY <1>2, <2>2, <3>3 DEF Own, InStep, Answers, Piece1, Piece2, Nothing, svars, t
    <2>3. CASE spc = "await"
      <3>0. o.toSender = <<>>
        BY <1>1, <1>2, <1>8, <2>3 DEF Answers
      <3>1. CASE Piece2(o) /\ o.partial = 0
        <4>1. m = <<"head", block>> /\ r.partial = 0 /\ Piece1(r, "tail")
          BY <1>1, <2>0, <3>1 DEF Piece1, Piece2, SameThread
        <4>2. TookHead(r, m, t)
          BY <1>6, <4>1 DEF TookHello, NewHead, TookBlock, FoundFault
        <4> QED
          <5>1. /\ Len(t.toReceiver) = 1 /\ t.toReceiver[1] = <<"tail", block>>
                /\ t.partial = block /\ t.toSender = <<>>
            BY <1>1, <3>0, <4>1, <4>2 DEF TookHead, Piece1
          <5> QED
            BY <1>2, <2>3, <5>1 DEF Own, InStep, Answers, Piece1, svars, t
      <3>2. CASE Piece1(o, "tail") /\ o.partial = block
        <4>1. /\ m = <<"tail", block>> /\ r.partial = block /\ r.toReceiver = <<>> /\ ~r.sync
              /\ r.toSender = <<>>
          BY <1>1, <1>2, <2>0, <2>3, <3>0, <3>2 DEF Piece1, SameThread
        <4>2. CASE TookBlock(r, m, t)
          <5>1. Has(block)'
            <6>1. Counter(block) = block
              BY <1>2, CounterExact
            <6>2. CASE r.counter = Counter(block)
              BY <1>1, <1>2, <1>4, <2>3, <6>1, <6>2 DEF SameThread
            <6>3. CASE r.counter # Counter(block)
              BY <1>5, <4>1, <4>2, <6>3 DEF TookBlock
            <6> QED
              BY <6>2, <6>3
          <5>2. t.toSender = <<"block_ok">> /\ t.partial = 0 /\ t.toReceiver = <<>>
            BY <1>1, <1>8, <4>1, <4>2 DEF TookBlock, Answered
          <5> QED
            BY <1>2, <2>3, <5>1, <5>2 DEF Own, InStep, Answers, Nothing, svars, t
        <4>3. CASE FoundFault(r, m, t)
          <5>1. t.toReceiver = <<>>
            <6>1. PICK k \in 0 .. Len(r.toReceiver) :
                     t.toReceiver = SubSeq(r.toReceiver, k + 1, Len(r.toReceiver))
              BY <4>3 DEF FoundFault
            <6>2. Len(t.toReceiver) = 0 /\ t.toReceiver \in Seq(Pieces)
              BY <2>0, <4>1, <6>1, Ends
            <6> QED
              BY <6>2
          <5>2. t.toSender = <<"error">> /\ t.partial = 0
            BY <1>1, <1>8, <4>1, <4>3 DEF FoundFault, Answered
          <5> QED
            BY <1>2, <2>3, <5>1, <5>2 DEF Own, InStep, Answers, Nothing, svars, t
        <4> QED
          BY <1>6, <4>1, <4>2, <4>3 DEF TookHello, TookHead, NewHead
      <3>3. CASE Piece1(o, "tail") /\ o.sync
        <4>1. /\ m = <<"tail", block>> /\ r.partial = 0 /\ r.toReceiver = <<>> /\ r.sync
              /\ r.toSender = <<>>
          BY <1>1, <2>0, <3>0, <3>3 DEF Piece1, SameThread
        <4>2. t = r
          BY <1>6, <4>1 DEF TookHello, TookHead, NewHead, TookBlock, FoundFault
        <4> QED
          BY <1>2, <2>3, <4>1, <4>2 DEF Own, InStep, Answers, Nothing, svars, t
      <3> QED
        BY <1>1, <1>2, <1>8, <2>3, <3>1, <3>2, <3>3 DEF InStep, Nothing
    <2> QED
      <3>1. spc # "connect" /\ spc \in {"next", "connect", "handshake", "write", "await"}
            /\ part \in 0 .. 2 /\ (spc = "write" => part < 2)
        BY <1>2, PromptParts DEF TypeOK
      <3>2. ~(spc = "next" \/ (spc = "write" /\ part = 0))
        BY <1>1, <1>2, <1>8 DEF InStep, Nothing
      <3> QED
        BY <2>1, <2>2, <2>3, <3>1, <3>2
  <1> QED
    BY <1>2, <1>7, <1>8, Fields

\* An empty connection has no pieces.
LEMMA NoPieces ==
    ASSUME NEW r \in Connection
    PROVE  /\ Nothing(r) => Len(r.toReceiver) = 0
           /\ r.toReceiver \in Seq(Pieces) /\ r.toSender \in Seq(Answer)
  BY Fields DEF Nothing

\* Writing a piece keeps what is known of the sender's connection.
LEMMA OwnWrite ==
    ASSUME TypeOK, PromptInv, WritePiece
    PROVE  Own'
  <1> DEFINE o == conns[conn]
             t == conns'[conn]
  <1>1. /\ conn # 0 /\ conn' = conn /\ block' = block /\ o \in Connection /\ spc = "write"
        /\ part \in 0 .. 2 /\ part < 2
        /\ o.alive => InStep(o)
        /\ Answers(o)
    BY PromptParts DEF WritePiece, TypeOK, Own, Conns
  <1>2. o.toSender = <<>>
    BY <1>1 DEF Answers
  <1>3. \/ part = 0 /\ part' = 1 /\ spc' = "write"
        \/ part = 1 /\ part' = 2 /\ spc' = "await"
    BY <1>1 DEF WritePiece, Written
  <1>4. CASE ~o.alive
    <2>1. t = o
      BY <1>4 DEF WritePiece
    <2> HIDE DEF o
    <2>2. t.toSender = <<>> /\ ~t.alive /\ Len(t.toSender) = 0
      BY <1>2, <1>4, <2>1
    <2> QED
      BY <1>1, <1>3, <2>2 DEF Own, Answers
  <1>5. CASE o.alive
    <2>1. /\ SameThread(o, t) /\ t.alive
          /\ t.toSender = o.toSender
          /\ t.toReceiver = Append(o.toReceiver, Piece)
      BY <1>5, WritePieceStep
    <2> HIDE DEF o, t
    <2>2. /\ t.toSender = <<>> /\ Len(t.toSender) = 0
          /\ t.partial = o.partial /\ t.sync = o.sync
      BY <1>2, <2>1 DEF SameThread
    <2>3. Answers(conns[conn])'
      BY <1>1, <1>3, <2>2 DEF Answers, t
    <2>4. CASE part = 0
      <3>1. Nothing(o) /\ o.partial = 0 /\ Piece = <<"head", block>>
        BY <1>1, <1>5, <2>4 DEF InStep, Piece
      <3>2. Len(t.toReceiver) = 1 /\ t.toReceiver[1] = <<"head", block>>
        BY <2>1, <3>1 DEF Nothing
      <3> QED
        BY <1>1, <1>3, <2>2, <2>3, <2>4, <3>1, <3>2 DEF Own, InStep, Piece1, t
    <2>5. CASE part = 1
      <3>1. Piece = <<"tail", block>>
        BY <2>5 DEF Piece
      <3>2. CASE Piece1(o, "head") /\ o.partial = 0
        <4>1. o.toReceiver \in Seq(Pieces) /\ Len(o.toReceiver) = 1
              /\ o.toReceiver[1] = <<"head", block>>
          BY <1>1, <3>2, Fields DEF Piece1
        <4>2. /\ Len(t.toReceiver) = 2 /\ t.toReceiver[1] = <<"head", block>>
              /\ t.toReceiver[2] = <<"tail", block>>
          BY <2>1, <3>1, <4>1
        <4> QED
          BY <1>1, <1>3, <2>2, <2>3, <2>5, <3>2, <4>2 DEF Own, InStep, Piece2, t
      <3>3. CASE Nothing(o) /\ (o.partial = block \/ o.sync)
        <4>1. Len(t.toReceiver) = 1 /\ t.toReceiver[1] = <<"tail", block>>
          BY <2>1, <3>1, <3>3 DEF Nothing
        <4> QED
          BY <1>1, <1>3, <2>2, <2>3, <2>5, <3>3, <4>1 DEF Own, InStep, Piece1, t
      <3> QED
        BY <1>1, <1>5, <2>5, <3>2, <3>3 DEF InStep
    <2> QED
      BY <1>3, <2>4, <2>5
  <1> QED
    BY <1>4, <1>5

\* The end of the handshake keeps what is known of the sender's connection.
LEMMA OwnHandshake ==
    ASSUME TypeOK, PromptInv, HandshakeDone, Prompt = TRUE
    PROVE  Own'
  <1> DEFINE o == conns[conn]
             t == conns'[conn]
  <1>1. /\ conn # 0 /\ conn' = conn /\ spc = "handshake" /\ spc' = "write"
        /\ part' = part /\ part \in 0 .. 2 /\ part < 2
        /\ o \in Connection /\ (o.sync => o.partial = 0)
        /\ o.alive => InStep(o)
        /\ Answers(o)
        /\ o.toSender # <<>> \/ ~o.alive \/ o.toReceiver = <<>>
    BY PromptParts DEF HandshakeDone, TypeOK, Own, Conns, Quiet
  <1>2. /\ SameThread(o, t) /\ t.alive = o.alive
        /\ t.toReceiver = o.toReceiver /\ t.toSender = <<>>
    BY HandshakeDoneStep
  <1> HIDE DEF o, t
  <1>3. Answers(conns[conn])'
    BY <1>1, <1>2 DEF Answers, t
  <1>4. o.alive => Nothing(t) /\ t.sync /\ t.partial = 0
    BY <1>1, <1>2 DEF InStep, Answers, SameThread, Nothing
  <1> QED
    BY <1>1, <1>2, <1>3, <1>4 DEF Own, InStep, Nothing, t

\* Reading a response keeps what is known of the sender's connection.
LEMMA OwnResponse ==
    ASSUME TypeOK, PromptInv, conn # 0, NEW k \in 1 .. Len(conns[conn].toSender), Response(k)
    PROVE  Own'
  <1> DEFINE o == conns[conn]
             t == conns'[conn]
  <1>1. /\ conn' = conn /\ spc = "await" /\ spc' \in {"next", "write"} /\ part' = 0
        /\ o \in Connection /\ k \in 1 .. Len(o.toSender)
        /\ o.alive => InStep(o)
        /\ Answers(o)
    BY PromptParts DEF Response, TypeOK, Own, Conns
  <1>2. /\ SameThread(o, t) /\ t.alive = o.alive /\ t \in Connection
        /\ t.toReceiver = o.toReceiver
        /\ Len(t.toSender) = Len(o.toSender) - k
    BY ResponseStep DEF Becomes
  <1> HIDE DEF o, t
  <1>3. t.toSender \in Seq(Answer) /\ o.toSender \in Seq(Answer)
    BY <1>1, <1>2, Fields
  <1>4. Len(o.toSender) <= 1 /\ (o.alive /\ o.toReceiver # <<>> => o.toSender = <<>>)
    BY <1>1 DEF Answers
  <1>5. Len(t.toSender) = 0 /\ o.toSender # <<>>
    BY <1>1, <1>2, <1>3, <1>4
  <1>6. t.toSender = <<>>
    BY <1>3, <1>5
  <1>7. o.alive => Nothing(o) /\ o.partial = 0
    BY <1>1, <1>4, <1>5, NoPieces DEF InStep, Nothing, Piece1, Piece2
  <1>8. Answers(conns[conn])'
    BY <1>1, <1>6 DEF Answers, t
  <1> QED
    BY <1>1, <1>2, <1>7, <1>8 DEF Own, InStep, Nothing, SameThread, t

\* Giving up on a response keeps what is known of the sender's connection.
LEMMA OwnNoResponse ==
    ASSUME TypeOK, PromptInv, NoResponse, Prompt = TRUE
    PROVE  Own'
  <1> DEFINE o == conns[conn]
             t == conns'[conn]
  <1>1. /\ conn # 0 /\ conn' = conn /\ t = o /\ spc = "await" /\ spc' = "write" /\ part' = 0
        /\ o \in Connection /\ o.toSender = <<>>
        /\ o.alive => InStep(o)
        /\ ~o.alive \/ o.toReceiver = <<>>
    BY PromptParts DEF NoResponse, TypeOK, Own, Conns, Quiet
  <1> HIDE DEF o, t
  <1>2. o.alive => Nothing(o) /\ o.partial = 0
    BY <1>1, NoPieces DEF InStep, Nothing, Piece1, Piece2
  <1> QED
    BY <1>1, <1>2 DEF Own, InStep, Answers, Nothing, t

\* The sender's new connection starts in step.
LEMMA OwnConnect ==
    ASSUME TypeOK, SocketConnect
    PROVE  Own'
  <1>1. conn' = Len(conns) + 1 /\ conns'[Len(conns) + 1] = NewConn /\ spc' = "handshake"
    BY DEF SocketConnect, TypeOK
  <1>2. /\ Len(NewConn.toReceiver) = 1 /\ NewConn.toReceiver[1][1] = "hello"
        /\ NewConn.toSender = <<>> /\ NewConn.sync /\ NewConn.pending = 0
    BY DEF NewConn
  <1> HIDE DEF NewConn
  <1> QED
    BY <1>1, <1>2 DEF Own, InStep, Answers

\* A connection of the sender that goes down, or whose thread pushes a block.
LEMMA OwnClose ==
    ASSUME TypeOK, PromptInv, [Next]_vars, UNCHANGED svars, conn \in Conns,
           conns'[conn] \in Connection, ~conns'[conn].alive,
           Len(conns'[conn].toSender) <= Len(conns[conn].toSender),
           \A i \in 1 .. Len(conns'[conn].toSender) :
              conns'[conn].toSender[i] = conns[conn].toSender[i]
    PROVE  Own'
  <1> DEFINE o == conns[conn]
             t == conns'[conn]
  <1>1. o \in Connection /\ Answers(o) /\ conn # 0
    BY PromptParts DEF TypeOK, Conns, Own
  <1>2. spc = "await" /\ Has(block) => Has(block)'
    <2>1. \A n \in Blocks : Has(n) => Has(n)'
      BY HasStep
    <2>2. spc = "await" => block \in Blocks
      BY Constants DEF TypeOK, Blocks
    <2> QED
      BY <2>1, <2>2 DEF Has, svars
  <1>3. /\ ~t.alive /\ t \in Connection
        /\ Len(t.toSender) <= Len(o.toSender)
        /\ \A i \in 1 .. Len(t.toSender) : t.toSender[i] = o.toSender[i]
    OBVIOUS
  <1> HIDE DEF o, t
  <1>4. /\ t.toSender \in Seq(Answer) /\ o.toSender \in Seq(Answer)
        /\ DOMAIN t.toSender = 1 .. Len(t.toSender) /\ DOMAIN o.toSender = 1 .. Len(o.toSender)
        /\ Len(t.toSender) \in Nat /\ Len(o.toSender) \in Nat
        /\ o.toSender = <<>> => t.toSender = <<>>
        /\ t.toSender # <<>> => /\ o.toSender # <<>>
                                /\ t.toSender[1] = o.toSender[1]
    <2>1. t.toSender \in Seq(Answer) /\ o.toSender \in Seq(Answer)
      BY <1>1, <1>3, Fields
    <2>2. /\ o.toSender = <<>> <=> Len(o.toSender) = 0
          /\ t.toSender = <<>> <=> Len(t.toSender) = 0
          /\ Len(t.toSender) \in Nat /\ Len(o.toSender) \in Nat
      BY <2>1
    <2>3. Len(t.toSender) # 0 => 1 \in 1 .. Len(t.toSender)
      BY <2>2
    <2> QED
      BY <1>3, <2>1, <2>2, <2>3
  <1>5. spc = "await" => Len(t.toSender) <= 1
    BY <1>1, <1>3, <1>4 DEF Answers
  <1>6. spc = "handshake" => \A i \in DOMAIN t.toSender : t.toSender[i] # "block_ok"
    BY <1>1, <1>3, <1>4 DEF Answers
  <1>7. Answers(conns[conn])'
    BY <1>1, <1>2, <1>3, <1>4, <1>5, <1>6 DEF Answers, svars, t
  <1> QED
    BY <1>1, <1>3, <1>7 DEF Own, svars, t

\* Pushing the pending block keeps what is known of the sender's connection.
LEMMA OwnPush ==
    ASSUME TypeOK, PromptInv, [Next]_vars, conn \in Conns, PushBlock(conn)
    PROVE  Own'
  <1> DEFINE o == conns[conn]
             t == conns'[conn]
  <1>1. /\ t.toReceiver = o.toReceiver /\ t.toSender = o.toSender
        /\ t.alive = o.alive /\ t.sync = o.sync /\ t.partial = o.partial /\ t.pending = 0
    BY PushBlockStep
  <1>2. /\ Answers(o) /\ (o.alive => InStep(o)) /\ conn # 0 /\ UNCHANGED svars
    BY PromptParts DEF TypeOK, Conns, Own, PushBlock
  <1>3. spc = "await" /\ Has(block) => Has(block)'
    <2>1. \A n \in Blocks : Has(n) => Has(n)'
      BY HasStep
    <2>2. spc = "await" => block \in Blocks
      BY Constants DEF TypeOK, Blocks
    <2> QED
      BY <1>2, <2>1, <2>2 DEF Has, svars
  <1> HIDE DEF o, t
  <1>4. Answers(conns[conn])'
    BY <1>1, <1>2, <1>3 DEF Answers, svars, t
  <1>5. o.alive => InStep(conns[conn])'
    BY <1>1, <1>2 DEF InStep, Nothing, Piece1, Piece2, svars, t
  <1> QED
    BY <1>1, <1>2, <1>4, <1>5 DEF Own, svars, t

\* The connections other than c are as they were, and the invariants of one connection that
\* do not speak of the sender hold of c: then they hold of all.
LEMMA ThreadsKept ==
    ASSUME TypeOK, AliveActive, CounterHeld, [Next]_vars,
           NEW c \in Conns, Becomes(c, conns'[c]),
           conns'[c].alive => conns'[c].active,
           conns'[c].counter = conns[c].counter \/ conns'[c].pending = conns'[c].counter,
           MaxBlocks < CounterMod, OrderInv
    PROVE  AliveActive' /\ CounterHeld'
  <1>1. AliveActive'
    BY DEF AliveActive, Becomes
  <1>2. ASSUME NEW d \in Conns', conns'[d].counter # 0
        PROVE  Has(conns[d].counter)'
    <2>1. CASE conns'[d].counter = conns[d].counter
      <3>1. d \in Conns /\ Has(conns[d].counter)
        BY <1>2, <2>1 DEF CounterHeld, Becomes
      <3>2. conns[d].counter \in Blocks
        <4>1. PICK n \in 0 .. block : LastTaken(d, conns[d], n)
          BY <3>1 DEF OrderInv
        <4>2. n \in 0 .. MaxBlocks
          BY Constants DEF TypeOK
        <4>3. conns[d].counter = n
          BY <4>1, <4>2, CounterExact DEF LastTaken
        <4> QED
          BY <1>2, <2>1, <4>2, <4>3, Constants DEF Blocks
      <3>3. \A n \in Blocks : Has(n) => Has(n)'
        BY HasStep
      <3> QED
        BY <2>1, <3>1, <3>2, <3>3 DEF Has
    <2>2. CASE conns'[d].counter # conns[d].counter
      <3>1. d = c
        BY <1>2, <2>2 DEF Becomes
      <3> QED
        BY <1>2, <2>2, <3>1 DEF Has
    <2> QED
      BY <2>1, <2>2
  <1> QED
    BY <1>1, <1>2 DEF CounterHeld

\* A block leaves the sender only when the receiver has it.
LEMMA NoLossStep ==
    ASSUME TypeOK, NoLoss, Own, [Next]_vars
    PROVE  NoLoss'
  <1>0. \A n \in Blocks : Has(n) => Has(n)'
    BY HasStep
  <1>1. CASE confirmed' = confirmed
    BY <1>0, <1>1 DEF NoLoss, TypeOK
  <1>2. ASSUME conn # 0, NEW k \in 1 .. Len(conns[conn].toSender), Response(k)
        PROVE  NoLoss'
    <2>1. CASE Head(conns[conn].toSender) = "block_ok"
      <3>1. conns[conn].toSender # <<>> /\ conns[conn].toSender[1] = "block_ok"
        <4>1. conns[conn] \in Connection
          BY <1>2 DEF TypeOK
        <4>2. conns[conn].toSender \in Seq(Answer)
          BY <4>1, Fields
        <4> QED
          BY <2>1, <4>2
      <3>2. Has(block) /\ block \in Blocks
        BY <1>2, <3>1, Constants DEF Own, Answers, Response, TypeOK, Blocks
      <3>3. confirmed' = confirmed \cup {block}
        BY <1>2, <2>1 DEF Response
      <3> QED
        BY <1>0, <3>2, <3>3 DEF NoLoss, TypeOK
    <2>2. CASE Head(conns[conn].toSender) # "block_ok"
      BY <1>1, <1>2, <2>2 DEF Response
    <2> QED
      BY <2>1, <2>2
  <1> QED
    BY <1>1, <1>2
       DEF Next, Sender, Receiver, Network, vars, NextBlock, SocketConnect, HandshakeDone,
           HandshakeFail, WritePiece, WriteTimeout, WriteFail, NoResponse, Receive, PushBlock,
           EnforceClose, ConnectionEnds, Break

\* Every step keeps PromptInv when connections end promptly.
LEMMA PromptStep ==
    ASSUME Prompt = TRUE, MaxBlocks < CounterMod, TypeOK, OrderInv, PromptInv, [Next]_vars
    PROVE  PromptInv'
  <1>0. NoLoss /\ (spc = "connect" => conn = 0) /\ AliveActive /\ CounterHeld /\ Own
    BY PromptParts
  <1>1. NoLoss'
    BY <1>0, NoLossStep
  <1>2. CASE UNCHANGED <<conns, delivered>>
    <2>1. AliveActive' /\ CounterHeld'
      BY <1>0, <1>2 DEF AliveActive, CounterHeld, Has, Conns
    <2>2. (spc = "connect" => conn = 0)' /\ Own'
      <3>1. CASE UNCHANGED vars
        <4>1. Own'
          BY <1>0, <3>1, OwnKept DEF vars, svars
        <4> QED
          BY <1>0, <3>1, <4>1 DEF vars, svars
      <3>2. CASE NextBlock
        BY <1>0, <1>2, <3>2 DEF NextBlock, Own, InStep, Answers, Nothing
      <3>3. CASE HandshakeFail \/ WriteFail
        BY <3>3 DEF HandshakeFail, WriteFail, Own
      <3>4. CASE WritePiece
        BY <3>4, OwnWrite DEF WritePiece, Written
      <3>5. CASE NoResponse
        BY <3>5, OwnNoResponse DEF NoResponse
      <3>6. CASE HandshakeDone
        BY <3>6, OwnHandshake DEF HandshakeDone
      <3>7. ASSUME conn # 0, NEW k \in 1 .. Len(conns[conn].toSender), Response(k)
            PROVE  (spc = "connect" => conn = 0)' /\ Own'
        BY <3>7, OwnResponse DEF Response
      <3>8. CASE SocketConnect
        BY <3>8, OwnConnect DEF SocketConnect
      <3>9. CASE WriteTimeout
        BY <3>9 DEF WriteTimeout
      <3>10. CASE UNCHANGED svars
        <4>1. Own'
          BY <1>0, <1>2, <3>10, OwnKept
        <4> QED
          BY <1>0, <3>10, <4>1 DEF svars
      <3> QED
        BY <3>1, <3>2, <3>3, <3>4, <3>5, <3>6, <3>7, <3>8, <3>9, <3>10
           DEF Next, Sender, Receiver, Network, Receive, PushBlock, EnforceClose,
               ConnectionEnds, Break
    <2> QED
      BY <1>1, <2>1, <2>2, PromptNext
  <1>3. CASE SocketConnect
    <2>1. Own' /\ spc' # "connect"
      BY <1>3, OwnConnect DEF SocketConnect
    <2>2. NewConn.alive = TRUE /\ NewConn.active = TRUE /\ NewConn.counter = 0
      BY DEF NewConn
    <2> HIDE DEF NewConn
    <2>3. /\ \A c \in Conns : c \in Conns' /\ conns'[c] = conns[c]
          /\ \A c \in Conns' : c \in Conns \/ conns'[c] = NewConn
          /\ delivered' = delivered
      BY <1>3 DEF SocketConnect, TypeOK, Conns
    <2>4. AliveActive'
      BY <1>0, <2>2, <2>3 DEF AliveActive
    <2>5. CounterHeld'
      BY <1>0, <2>2, <2>3 DEF CounterHeld, Has
    <2> QED
      BY <1>1, <2>1, <2>4, <2>5, PromptNext
  <1>4. ASSUME NEW c \in Conns, Becomes(c, conns'[c]),
               conns'[c].alive => conns[c].alive,
               conns'[c].active = conns[c].active \/ ~conns'[c].alive,
               conns'[c].counter = conns[c].counter \/ conns'[c].pending = conns'[c].counter
        PROVE  AliveActive' /\ CounterHeld'
    <2>1. conns'[c].alive => conns'[c].active
      BY <1>0, <1>4 DEF AliveActive
    <2> QED
      BY <1>0, <1>4, <2>1, ThreadsKept
  <1>5. CASE HandshakeDone
    <2>1. AliveActive' /\ CounterHeld'
      BY <1>4, <1>5, HandshakeDoneStep DEF SameThread
    <2>2. Own' /\ spc' # "connect"
      BY <1>5, OwnHandshake DEF HandshakeDone
    <2> QED
      BY <1>1, <2>1, <2>2, PromptNext
  <1>6. CASE WritePiece /\ conns[conn].alive
    <2>1. AliveActive' /\ CounterHeld'
      BY <1>4, <1>6, WritePieceStep DEF SameThread
    <2>2. Own' /\ spc' # "connect"
      BY <1>6, OwnWrite DEF WritePiece, Written
    <2> QED
      BY <1>1, <2>1, <2>2, PromptNext
  <1>7. ASSUME conn # 0, NEW k \in 1 .. Len(conns[conn].toSender), Response(k)
        PROVE  PromptInv'
    <2>1. AliveActive' /\ CounterHeld'
      BY <1>4, <1>7, ResponseStep DEF SameThread
    <2>2. Own' /\ spc' # "connect"
      BY <1>7, OwnResponse DEF Response
    <2> QED
      BY <1>1, <2>1, <2>2, PromptNext
  <1>8. ASSUME NEW c \in Conns, Becomes(c, conns'[c]), UNCHANGED svars, AliveActive', CounterHeld',
               c = conn => Own'
        PROVE  PromptInv'
    <2>1. CASE c # conn
      <3>1. conn # 0 => conn \in Conns
        BY DEF TypeOK, Conns
      <3>2. Own'
        BY <1>0, <1>8, <2>1, <3>1, OwnKept DEF Becomes
      <3> QED
        BY <1>0, <1>1, <1>8, <3>2, PromptNext DEF svars
    <2>2. CASE c = conn
      BY <1>0, <1>1, <1>8, <2>2, PromptNext DEF svars
    <2> QED
      BY <2>1, <2>2
  <1>9. ASSUME NEW c \in Conns, Receive(c) PROVE PromptInv'
    <2>1. PICK r \in Connection, m \in Pieces :
             /\ SameThread(conns[c], r) /\ r.alive = conns[c].alive
             /\ conns'[c] \in Taken(r, m)
             /\ r.sync => r.partial = 0
             /\ Becomes(c, conns'[c])
      BY <1>9, ReceiveStep
    <2>2. /\ conns'[c].alive = r.alive /\ conns'[c].active = r.active
          /\ conns'[c].counter = r.counter \/ conns'[c].pending = conns'[c].counter
      <3>1. m[2] \in 0 .. MaxBlocks
        BY DEF Pieces
      <3>2. Counter(m[2]) = m[2]
        BY <3>1, CounterExact
      <3> DEFINE t == conns'[c]
      <3>3. /\ t.alive = r.alive /\ t.active = r.active
            /\ \/ TookHello(r, m, t)
               \/ TookHead(r, m, t)
               \/ t = r
               \/ TookBlock(r, m, t)
               \/ FoundFault(r, m, t)
        BY <2>1, TakenCases
      <3> HIDE DEF t
      <3>4. t.counter = r.counter \/ t.pending = t.counter
        BY <3>2, <3>3 DEF TookHello, TookHead, TookBlock, FoundFault
      <3> QED
        BY <3>3, <3>4 DEF t
    <2>3. AliveActive' /\ CounterHeld'
      BY <1>4, <2>1, <2>2 DEF SameThread
    <2>4. c = conn => Own'
      BY <1>9, OwnReceive
    <2> QED
      BY <1>8, <1>9, <2>1, <2>3, <2>4 DEF Receive
  <1>10. ASSUME NEW c \in Conns, PushBlock(c) PROVE PromptInv'
    <2>1. AliveActive' /\ CounterHeld' /\ Becomes(c, conns'[c])
      BY <1>4, <1>10, PushBlockStep
    <2>2. c = conn => Own'
      BY <1>10, OwnPush
    <2> QED
      BY <1>8, <1>10, <2>1, <2>2 DEF PushBlock
  <1>11. ASSUME NEW c \in Conns,
                \/ EnforceClose(c)
                \/ ConnectionEnds(c)
                \/ \E i \in 0 .. Len(conns[c].toReceiver), j \in 0 .. Len(conns[c].toSender) :
                      Break(c, i, j)
         PROVE  PromptInv'
    <2>1. AliveActive' /\ CounterHeld' /\ Becomes(c, conns'[c]) /\ UNCHANGED svars
      BY <1>4, <1>11, CloseStep
    <2>2. c = conn => Own'
      BY <1>11, <2>1, CloseStep, OwnClose DEF Becomes
    <2> QED
      BY <1>8, <2>1, <2>2
  <1>12. CASE NextBlock \/ HandshakeFail \/ WriteTimeout \/ WriteFail \/ NoResponse
    BY <1>2, <1>12 DEF NextBlock, HandshakeFail, WriteTimeout, WriteFail, NoResponse
  <1>13. CASE WritePiece /\ ~conns[conn].alive
    BY <1>2, <1>13 DEF WritePiece
  <1>14. CASE UNCHANGED vars
    BY <1>2, <1>14 DEF vars
  <1> QED
    BY <1>3, <1>5, <1>6, <1>7, <1>9, <1>10, <1>11, <1>12, <1>13, <1>14
       DEF Next, Sender, Receiver, Network

\* The receiver has every block that the sender takes for confirmed, wherever connections
\* break, when no timeout ends while an answer is under way and block_counter does not come
\* round to a number still in use.
THEOREM MirrorNoLoss ==
    ASSUME Prompt = TRUE, MaxBlocks < CounterMod
    PROVE  Spec => []NoLoss
  <1>1. Init => TypeOK /\ OrderInv /\ PromptInv
    BY Constants DEF Init, TypeOK, OrderInv, OncePerConnection, PromptInv, NoLoss, Conns
  <1>2. TypeOK /\ OrderInv /\ PromptInv /\ [Next]_vars => (TypeOK /\ OrderInv /\ PromptInv)'
    BY TypeStep, OrderStep, PromptStep
  <1>3. PromptInv => NoLoss
    BY DEF PromptInv
  <1> QED
    BY <1>1, <1>2, <1>3, PTL DEF Spec
=============================================================================
