------------------------- MODULE OrderedPipe_proofs -------------------------
(***************************************************************************)
(* What every implementation of OrderedPipe guarantees.  OutThread is one  *)
(* (StageImplementsPipe), so the theorem holds of the packets              *)
(* that leave an output thread (src/pcap_queue.cpp:10525).                 *)
(***************************************************************************)
EXTENDS OrderedPipe, TLAPS

TypeInv ==
    /\ queue \in Seq(Packets)
    /\ out \in Seq(Packets)

IInv == TypeInv /\ InOrder

\* A packet that is younger than all of a sequence may be put at its end.
LEMMA GrowingAppend ==
    ASSUME NEW S, NEW s \in Seq(S), NEW p \in S,
           Growing(s), \A i \in DOMAIN s : s[i] < p
    PROVE  Growing(Append(s, p))
  <1> SUFFICES ASSUME NEW i \in DOMAIN Append(s, p), NEW j \in DOMAIN Append(s, p),
                      i < j
               PROVE  Append(s, p)[i] < Append(s, p)[j]
    BY DEF Growing
  <1>1. i \in 1..Len(s) + 1 /\ j \in 1..Len(s) + 1
    OBVIOUS
  <1>2. i \in DOMAIN s /\ Append(s, p)[i] = s[i]
    BY <1>1
  <1>3. CASE j = Len(s) + 1
    BY <1>2, <1>3
  <1>4. CASE j # Len(s) + 1
    <2>1. j \in DOMAIN s /\ Append(s, p)[j] = s[j]
      BY <1>1, <1>4
    <2> QED
      BY <1>2, <2>1 DEF Growing
  <1> QED
    BY <1>3, <1>4

\* Without its first packet a growing sequence grows, and all of the rest is
\* younger than the first.
LEMMA GrowingTail ==
    ASSUME NEW S, NEW s \in Seq(S), s # <<>>, Growing(s)
    PROVE  /\ Growing(Tail(s))
           /\ \A j \in DOMAIN Tail(s) : Head(s) < Tail(s)[j]
           /\ \A j \in DOMAIN Tail(s) : j + 1 \in DOMAIN s /\ Tail(s)[j] = s[j + 1]
  <1>1. /\ \A j \in DOMAIN Tail(s) : j + 1 \in DOMAIN s /\ Tail(s)[j] = s[j + 1]
        /\ DOMAIN Tail(s) \subseteq Nat \ {0}
    OBVIOUS
  <1>2. 1 \in DOMAIN s /\ Head(s) = s[1]
    OBVIOUS
  <1>3. ASSUME NEW j \in DOMAIN Tail(s) PROVE Head(s) < Tail(s)[j]
    <2>1. 1 < j + 1 /\ j + 1 \in DOMAIN s
      BY <1>1
    <2> QED
      BY <2>1, <1>1, <1>2 DEF Growing
  <1>4. ASSUME NEW i \in DOMAIN Tail(s), NEW j \in DOMAIN Tail(s), i < j
        PROVE  Tail(s)[i] < Tail(s)[j]
    <2>1. i + 1 < j + 1
      BY <1>1, <1>4
    <2> QED
      BY <2>1, <1>1 DEF Growing
  <1> QED
    BY <1>1, <1>3, <1>4 DEF Growing

\* Every step of the pipe keeps the inductive invariant.
LEMMA PipeStep ==
    ASSUME IInv, [Next]_vars
    PROVE  IInv'
  <1> USE DEF IInv, TypeInv, InOrder
  <1>1. ASSUME NEW p \in Packets, Accept(p) PROVE IInv'
    <2>1. queue' \in Seq(Packets) /\ out' = out
      BY <1>1 DEF Accept
    <2>2. Growing(queue')
      BY <1>1, GrowingAppend DEF Accept
    <2>3. ASSUME NEW i \in DOMAIN out, NEW j \in DOMAIN queue'
          PROVE  out[i] < queue'[j]
      <3>1. (j \in DOMAIN queue /\ queue'[j] = queue[j]) \/ queue'[j] = p
        BY <1>1 DEF Accept
      <3> QED
        BY <1>1, <3>1 DEF Accept
    <2> QED
      BY <2>1, <2>2, <2>3 DEF Growing
  <1>2. ASSUME Deliver PROVE IInv'
    <2>1. /\ queue \in Seq(Packets) /\ queue # <<>>
          /\ Head(queue) \in Packets
          /\ queue' = Tail(queue) /\ out' = Append(out, Head(queue))
          /\ 1 \in DOMAIN queue /\ Head(queue) = queue[1]
      BY <1>2 DEF Deliver
    <2>2. \A i \in DOMAIN out : out[i] < Head(queue)
      BY <2>1
    <2>3. Growing(out')
      BY <2>1, <2>2, GrowingAppend
    <2>4. /\ Growing(queue')
          /\ \A j \in DOMAIN queue' : Head(queue) < queue'[j]
          /\ \A j \in DOMAIN queue' : j + 1 \in DOMAIN queue /\ queue'[j] = queue[j + 1]
      BY <2>1, GrowingTail
    <2>5. ASSUME NEW i \in DOMAIN out', NEW j \in DOMAIN queue'
          PROVE  out'[i] < queue'[j]
      <3>1. (i \in DOMAIN out /\ out'[i] = out[i]) \/ out'[i] = Head(queue)
        BY <2>1
      <3> QED
        BY <3>1, <2>4
    <2> QED
      BY <2>1, <2>3, <2>4, <2>5
  <1>3. ASSUME Discard PROVE IInv'
    <2>1. queue' \in Seq(Packets) /\ out' = out
      BY <1>3 DEF Discard
    <2>2. /\ Growing(queue')
          /\ \A j \in DOMAIN queue' : j + 1 \in DOMAIN queue /\ queue'[j] = queue[j + 1]
      BY <1>3, GrowingTail DEF Discard
    <2> QED
      BY <2>1, <2>2 DEF Growing
  <1>4. ASSUME Close PROVE IInv'
    BY <1>4 DEF Close, Growing
  <1>5. ASSUME UNCHANGED vars PROVE IInv'
    BY <1>5 DEF vars, Growing
  <1> QED
    BY <1>1, <1>2, <1>3, <1>4, <1>5 DEF Next

\* However packets are accepted, discarded and handed on, they leave the pipe
\* in the order of their arrival and at most once.
THEOREM PipeInOrder == Spec => []InOrder
  <1>1. Init => IInv
    BY DEF Init, IInv, TypeInv, InOrder, Growing
  <1>2. IInv /\ [Next]_vars => IInv'
    BY PipeStep
  <1>3. IInv => InOrder
    BY DEF IInv
  <1> QED
    BY <1>1, <1>2, <1>3, PTL DEF Spec
=============================================================================
