------------------------------- MODULE IpFrag -------------------------------
(***************************************************************************)
(* Reassembly of fragmented IP packets, cIpFrag of src/ip_frag.h, as the   *)
(* output thread `defrag' uses it.  Fragments are captured from the wire:  *)
(* they come in any order, any number of times, or not at all, and a       *)
(* datagram may be sent again.  The fragments of a datagram are found by   *)
(* its source address and identification; what is not completed in time is *)
(* dropped by cleanup.                                                     *)
(***************************************************************************)
EXTENDS Naturals, Sequences, FiniteSets, FiniteSetsExt

CONSTANTS
    Datagrams,  \* the fragmented datagrams on the wire
    Layout,     \* for each of them the offsets of its fragments, and at last its length
    KeyOf,      \* for each of them <<source address, identification>>
    Interval,   \* seconds between two cleanups, 2 in the code
    Limit       \* cleanup_limit in seconds, 2 in the code

ASSUME LayoutAssumption ==
    /\ \A d \in Datagrams :
          /\ Layout[d] \in Seq(Nat) /\ Len(Layout[d]) >= 3 /\ Layout[d][1] = 0
          /\ \A i, j \in DOMAIN Layout[d] : i < j => Layout[d][i] < Layout[d][j]
    /\ Interval \in Nat
    /\ Limit \in Nat

VARIABLES
    fdata,         \* for each key its sFrags
    sinceCleanup,  \* seconds since ipfrag_lastcleanup, counted up to Interval + 1
    packet         \* the fragments of the packet that the last step completed

vars == <<fdata, sinceCleanup, packet>>

Keys == {KeyOf[d] : d \in Datagrams}

\* The fragments of d, by number: the offset in the header, the length of the payload, and
\* the last one, which does not announce more.
Fragments(d) == 1 .. Len(Layout[d]) - 1
Offset(d, i) == Layout[d][i]
Length(d, i) == Layout[d][i + 1] - Layout[d][i]
IsLast(d, i) == i = Len(Layout[d]) - 1

\* sFrag: fragment i of d, with the seconds since its ts, counted up to Limit + 1, in place
\* of the ts.  sFrags: a map from offsets to sFrag, and has_last.
Frag(d, i, age) == [d |-> d, i |-> i, age |-> age]
Frags(at, hasLast) == [at |-> at, hasLast |-> hasLast]
NoFrags == Frags(<<>>, FALSE)
Held(k) == DOMAIN fdata[k].at

Init ==
    /\ fdata = [k \in Keys |-> NoFrags]
    /\ sinceCleanup = 0
    /\ packet = <<>>

-----------------------------------------------------------------------------
(* defrag and add *)

\* The queued fragments in the order of their offsets.
InOrder(at) == [n \in 1 .. Cardinality(DOMAIN at) |->
                    at[CHOOSE o \in DOMAIN at : Cardinality({x \in DOMAIN at : x < o}) = n - 1]]

\* There is a fragment at offset 0 and each one starts where the one before it ends.
Contiguous(at) ==
    /\ 0 \in DOMAIN at
    /\ \A o \in DOMAIN at \ {0} : \E x \in DOMAIN at :
          /\ x + Length(at[x].d, at[x].i) = o
          /\ \A y \in DOMAIN at : y <= x \/ y >= o

\* Mutants of Complete: the last fragment need not be there, and the last fragment must
\* come last.
CompleteWithoutLast(frags, d, i) == Contiguous(frags.at)
CompleteLastLast(frags, d, i) == IsLast(d, i) /\ Contiguous(frags.at)

\* After fragment i of d was added: has_last is set and no fragment is missing.
Complete(frags, d, i) == frags.hasLast /\ Contiguous(frags.at)

\* A fragment is captured.  has_last is set in any case; a fragment whose offset is
\* queued already is discarded, the others are queued, and when that completes the packet
\* dequeue makes it of all that is queued.
Defrag(d, i) ==
    LET k == KeyOf[d]
        o == Offset(d, i)
        hasLast == fdata[k].hasLast \/ IsLast(d, i)
        added == Frags([x \in Held(k) \cup {o} |->
                            IF x = o THEN Frag(d, i, 0) ELSE fdata[k].at[x]], hasLast)
    IN /\ IF o \in Held(k)
          THEN /\ fdata' = [fdata EXCEPT ![k] = Frags(fdata[k].at, hasLast)]
               /\ packet' = <<>>
          ELSE IF Complete(added, d, i)
          THEN /\ fdata' = [fdata EXCEPT ![k] = NoFrags]
               /\ packet' = InOrder(added.at)
          ELSE /\ fdata' = [fdata EXCEPT ![k] = added]
               /\ packet' = <<>>
       /\ UNCHANGED sinceCleanup

-----------------------------------------------------------------------------
(* Time and cleanup *)

\* A fragment a second later.
Aged(f) == Frag(f.d, f.i, IF f.age > Limit THEN f.age ELSE f.age + 1)

\* The timestamps of the captured packets go on by a second.
Tick ==
    /\ sinceCleanup' = IF sinceCleanup > Interval THEN sinceCleanup ELSE sinceCleanup + 1
    /\ fdata' = [k \in Keys |->
                    Frags([o \in Held(k) |-> Aged(fdata[k].at[o])], fdata[k].hasLast)]
    /\ packet' = <<>>

\* Mutant of Expired: only what has its last fragment is dropped.
ExpiredWithLast(k) ==
    Held(k) # {} /\ fdata[k].hasLast /\ fdata[k].at[Min(Held(k))].age > Limit

\* The fragment with the lowest offset is too old.
Expired(k) == Held(k) # {} /\ fdata[k].at[Min(Held(k))].age > Limit

\* processDefrag_cleanup, after a batch of packets.
Cleanup ==
    /\ sinceCleanup > Interval
    /\ fdata' = [k \in Keys |-> IF Expired(k) THEN NoFrags ELSE fdata[k]]
    /\ sinceCleanup' = 0
    /\ packet' = <<>>

-----------------------------------------------------------------------------
Next ==
    \/ \E d \in Datagrams : \E i \in Fragments(d) : Defrag(d, i)
    \/ Tick
    \/ Cleanup

Spec == Init /\ [][Next]_vars

\* Fairness: time passes and the thread goes on to process batches.
FairSpec == Spec /\ WF_vars(Tick) /\ WF_vars(Cleanup)

-----------------------------------------------------------------------------
(* Properties *)

\* A reassembled packet is one whole datagram, its fragments in order and none missing,
\* whatever was captured twice, late or out of order.  It holds as long as no two
\* datagrams on the wire have the same source and identification.
WholeDatagrams ==
    packet # <<>> => \E d \in Datagrams :
        /\ DOMAIN packet = Fragments(d)
        /\ \A i \in Fragments(d) : packet[i].d = d /\ packet[i].i = i

\* A datagram all of whose fragments are queued does not stay in the queue: the fragment
\* that completes it, which may be any of them, makes the packet.
NoneCompleteHeld ==
    \A d \in Datagrams : \E i \in Fragments(d) :
        Offset(d, i) \notin Held(KeyOf[d]) \/ fdata[KeyOf[d]].at[Offset(d, i)].d # d

\* No copy of a fragment is kept for ever: what is queued under a key is made a packet or
\* dropped, even if fragments and duplicates of them keep coming.
Released == \A k \in Keys : []<>(Held(k) = {})
=============================================================================
