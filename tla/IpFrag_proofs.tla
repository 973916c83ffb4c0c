---------------------------- MODULE IpFrag_proofs ----------------------------
(***************************************************************************)
(* Proofs about IpFrag for any number of datagrams, cut into any number of *)
(* fragments.                                                              *)
(***************************************************************************)
EXTENDS IpFrag, FiniteSetTheorems, TLAPS

\* No two datagrams on the wire have the same source and identification.
DistinctKeys == \A d, e \in Datagrams : KeyOf[d] = KeyOf[e] => d = e

\* The number of fragments of d.
Count(d) == Len(Layout[d]) - 1

-----------------------------------------------------------------------------
(* The inductive invariant *)

\* Only fragments of d are queued in f, each at its offset, and has_last is set if and
\* only if the last one is among them.
Mine(f, d) ==
    /\ \A o \in DOMAIN f.at : \E i \in Fragments(d) :
          o = Offset(d, i) /\ f.at[o].d = d /\ f.at[o].i = i
    /\ f.hasLast <=> Offset(d, Count(d)) \in DOMAIN f.at

\* All the fragments of d are queued in f.
Whole(f, d) == \A i \in Fragments(d) : Offset(d, i) \in DOMAIN f.at

QueueInv ==
    \A d \in Datagrams : Mine(fdata[KeyOf[d]], d) /\ ~Whole(fdata[KeyOf[d]], d)

IInv ==
    /\ DOMAIN fdata = Keys
    /\ QueueInv
    /\ WholeDatagrams

-----------------------------------------------------------------------------
(* The fragments of a datagram *)

\* Fragments have numbers from 1 to their count, their offsets ascend from 0, and each
\* has a length that is not zero and reaches to the next one.
LEMMA LayoutFacts ==
    ASSUME NEW d \in Datagrams
    PROVE  /\ Count(d) \in Nat /\ Count(d) >= 2
           /\ Fragments(d) = 1 .. Count(d)
           /\ Offset(d, 1) = 0
           /\ \A i \in Fragments(d) : Offset(d, i) \in Nat
           /\ \A i, j \in Fragments(d) : i < j => Offset(d, i) < Offset(d, j)
           /\ \A i \in Fragments(d) : Length(d, i) \in Nat \ {0}
           /\ \A i \in 1 .. Count(d) - 1 :
                 Offset(d, i) + Length(d, i) = Offset(d, i + 1)
           /\ \A i, j \in Fragments(d) :
                 Offset(d, i) + Length(d, i) = Offset(d, j) => j = i + 1
<1>1. PICK s : s = Layout[d]
  OBVIOUS
<1>2. s \in Seq(Nat) /\ Len(s) >= 3 /\ s[1] = 0
  BY <1>1, LayoutAssumption
<1>3. \A i, j \in DOMAIN s : i < j => s[i] < s[j]
  BY <1>1, LayoutAssumption
<1>4. Len(s) \in Nat /\ DOMAIN s = 1 .. Len(s) /\ \A i \in 1 .. Len(s) : s[i] \in Nat
  BY <1>2
<1>5. Count(d) = Len(s) - 1 /\ Fragments(d) = 1 .. Count(d) /\ Count(d) \in Nat /\ Count(d) >= 2
  BY <1>1, <1>2, <1>4 DEF Count, Fragments
<1>6. \A i \in 1 .. Len(s) - 1 : Offset(d, i) = s[i] /\ Length(d, i) = s[i + 1] - s[i]
  BY <1>1 DEF Offset, Length
<1>7. \A i \in 1 .. Len(s) - 1 : s[i] \in Nat /\ s[i + 1] \in Nat /\ s[i] < s[i + 1]
  BY <1>3, <1>4
<1>8. \A i \in Fragments(d) : Offset(d, i) \in Nat /\ Length(d, i) \in Nat \ {0}
  BY <1>4, <1>5, <1>6, <1>7
<1>9. ASSUME NEW i \in Fragments(d), NEW j \in Fragments(d), i < j
      PROVE  Offset(d, i) < Offset(d, j)
  <2>1. i \in 1 .. Len(s) - 1 /\ j \in 1 .. Len(s) - 1
    BY <1>5
  <2>2. i \in DOMAIN s /\ j \in DOMAIN s
    BY <1>4, <2>1
  <2> QED BY <1>3, <1>6, <1>9, <2>1, <2>2
<1>10. \A i \in 1 .. Count(d) - 1 : Offset(d, i) + Length(d, i) = Offset(d, i + 1)
  BY <1>4, <1>5, <1>6, <1>7
<1>11. Offset(d, 1) = 0
  BY <1>2, <1>4, <1>6
<1>12. ASSUME NEW i \in Fragments(d), NEW j \in Fragments(d),
              Offset(d, i) + Length(d, i) = Offset(d, j)
       PROVE  j = i + 1
  <2>1. i \in 1 .. Len(s) - 1 /\ j \in 1 .. Len(s) - 1
    BY <1>5
  <2>2. s[i + 1] = s[j]
    BY <1>6, <1>7, <1>12, <2>1
  <2>3. i + 1 \in DOMAIN s /\ j \in DOMAIN s
    BY <1>4, <2>1
  <2>4. ~ (i + 1 < j) /\ ~ (j < i + 1)
    BY <1>3, <1>4, <2>2, <2>3
  <2> QED BY <1>4, <2>1, <2>4
<1> QED BY <1>5, <1>8, <1>9, <1>10, <1>11, <1>12

\* A queued offset belongs to one fragment.
LEMMA OneFragment ==
    ASSUME NEW d \in Datagrams, NEW i \in Fragments(d), NEW j \in Fragments(d),
           Offset(d, i) = Offset(d, j)
    PROVE  i = j
<1>1. ~ (i < j) /\ ~ (j < i)
  BY LayoutFacts
<1>2. i \in Nat /\ j \in Nat
  BY LayoutFacts
<1> QED BY <1>1, <1>2

\* What is queued under an offset of d.
LEMMA QueuedAt ==
    ASSUME NEW d \in Datagrams, NEW f, Mine(f, d), NEW i \in Fragments(d),
           Offset(d, i) \in DOMAIN f.at
    PROVE  f.at[Offset(d, i)].d = d /\ f.at[Offset(d, i)].i = i
BY OneFragment DEF Mine

-----------------------------------------------------------------------------
(* Complete, and what dequeue makes of it *)

\* The order of the numbers, as a set of pairs.
Below == {p \in Nat \X Nat : p[1] < p[2]}

\* The order of the numbers has no infinite descent.
LEMMA BelowWellFounded == IsWellFoundedOn(Below, Nat)
<1>1. Below = OpToRel(<, Nat)
  BY DEF Below, OpToRel
<1> QED BY <1>1, NatLessThanWellFounded

\* Of the fragments that are missing there is one with the highest number.
LEMMA GreatestMissing ==
    ASSUME NEW d \in Datagrams, NEW M, M \subseteq Fragments(d), M # {}
    PROVE  \E i \in M : \A j \in M : j <= i
<1>1. PICK N : N = Count(d)
  OBVIOUS
<1>2. N \in Nat /\ Fragments(d) = 1 .. N
  BY <1>1, LayoutFacts
<1>3. PICK T : T = {N - i : i \in M}
  OBVIOUS
<1>4. T \subseteq Nat /\ T # {}
  BY <1>2, <1>3
<1>5. PICK x \in T : \A y \in T : ~ (<<y, x>> \in Below)
  BY <1>4, BelowWellFounded, WFMin
<1>6. PICK i \in M : x = N - i
  BY <1>3
<1>7. ASSUME NEW j \in M
      PROVE  j <= i
  <2>1. N - j \in T
    BY <1>3
  <2>2. ~ (N - j < N - i)
    BY <1>4, <1>5, <1>6, <2>1 DEF Below
  <2> QED BY <1>2, <2>2
<1> QED BY <1>7

\* The check after a fragment was added finds out whether all of them are there: if one
\* were missing, the fragment after the last missing one would start where none ends.
LEMMA CompleteIsWhole ==
    ASSUME NEW d \in Datagrams, NEW f, Mine(f, d)
    PROVE  f.hasLast /\ Contiguous(f.at) <=> Whole(f, d)
<1>1. Count(d) \in Nat /\ Count(d) >= 2 /\ Fragments(d) = 1 .. Count(d)
  BY LayoutFacts
<1>2. ASSUME f.hasLast, Contiguous(f.at)
      PROVE  Whole(f, d)
  <2> SUFFICES ASSUME ~Whole(f, d) PROVE FALSE
    OBVIOUS
  <2>1. PICK M : M = {i \in Fragments(d) : Offset(d, i) \notin DOMAIN f.at}
    OBVIOUS
  <2>2. M \subseteq Fragments(d) /\ M # {}
    BY <2>1 DEF Whole
  <2>3. PICK m \in M : \A j \in M : j <= m
    BY <2>2, GreatestMissing
  <2>4. m \in Fragments(d) /\ Offset(d, m) \notin DOMAIN f.at
    BY <2>1, <2>3
  <2>5. Offset(d, Count(d)) \in DOMAIN f.at
    BY <1>2 DEF Mine
  <2>6. m # Count(d)
    BY <2>4, <2>5
  <2>7. m + 1 \in Fragments(d) /\ m \in 1 .. Count(d) - 1 /\ ~ (m + 1 <= m)
    BY <1>1, <2>4, <2>6
  <2>8. Offset(d, m + 1) \in DOMAIN f.at
    BY <2>1, <2>3, <2>7
  <2>9. Offset(d, m + 1) # 0
    <3>1. Offset(d, m) \in Nat /\ Offset(d, m + 1) \in Nat
      BY <2>4, <2>7, LayoutFacts
    <3>2. m < m + 1
      BY <1>1, <2>4
    <3>3. Offset(d, m) < Offset(d, m + 1)
      BY <2>4, <2>7, <3>2, LayoutFacts
    <3> QED BY <3>1, <3>3
  <2>10. PICK x \in DOMAIN f.at : x + Length(f.at[x].d, f.at[x].i) = Offset(d, m + 1)
    BY <1>2, <2>8, <2>9 DEF Contiguous
  <2>11. PICK i \in Fragments(d) : x = Offset(d, i) /\ f.at[x].d = d /\ f.at[x].i = i
    BY <2>10 DEF Mine
  <2>12. Offset(d, i) + Length(d, i) = Offset(d, m + 1)
    BY <2>10, <2>11
  <2>13. m + 1 = i + 1
    BY <2>7, <2>12, LayoutFacts
  <2>14. i = m
    BY <1>1, <2>4, <2>11, <2>13
  <2> QED BY <2>4, <2>10, <2>11, <2>14
<1>3. ASSUME Whole(f, d)
      PROVE  f.hasLast /\ Contiguous(f.at)
  <2>1. 1 \in Fragments(d) /\ Count(d) \in Fragments(d)
    BY <1>1
  <2>2. f.hasLast
    BY <1>3, <2>1 DEF Whole, Mine
  <2>3. 0 \in DOMAIN f.at
    <3>1. Offset(d, 1) = 0
      BY LayoutFacts
    <3> QED BY <1>3, <2>1, <3>1 DEF Whole
  <2>4. ASSUME NEW o \in DOMAIN f.at \ {0}
        PROVE  \E x \in DOMAIN f.at : /\ x + Length(f.at[x].d, f.at[x].i) = o
                                      /\ \A y \in DOMAIN f.at : y <= x \/ y >= o
    <3>1. PICK i \in Fragments(d) : o = Offset(d, i)
      BY <2>4 DEF Mine
    <3>2. i # 1
      BY <2>4, <3>1, LayoutFacts
    <3>3. i - 1 \in Fragments(d) /\ i - 1 \in 1 .. Count(d) - 1 /\ (i - 1) + 1 = i
      BY <1>1, <3>1, <3>2
    <3>4. PICK x : x = Offset(d, i - 1)
      OBVIOUS
    <3>5. x \in DOMAIN f.at
      BY <1>3, <3>3, <3>4 DEF Whole
    <3>6. f.at[x].d = d /\ f.at[x].i = i - 1
      BY <3>3, <3>4, <3>5, QueuedAt
    <3>7. x + Length(d, i - 1) = o
      BY <3>1, <3>3, <3>4, LayoutFacts
    <3>8. ASSUME NEW y \in DOMAIN f.at
          PROVE  y <= x \/ y >= o
      <4>1. PICK j \in Fragments(d) : y = Offset(d, j)
        BY <3>8 DEF Mine
      <4>2. j <= i - 1 \/ i <= j
        BY <1>1, <3>1, <4>1
      <4>3. x \in Nat /\ y \in Nat /\ o \in Nat
        BY <3>1, <3>3, <3>4, <4>1, LayoutFacts
      <4>4. CASE j <= i - 1
        <5>1. j = i - 1 \/ j < i - 1
          BY <1>1, <3>1, <4>1, <4>4
        <5>2. y = x \/ y < x
          BY <3>3, <3>4, <4>1, <5>1, LayoutFacts
        <5> QED BY <4>3, <5>2
      <4>5. CASE i <= j
        <5>1. j = i \/ i < j
          BY <1>1, <3>1, <4>1, <4>5
        <5>2. y = o \/ o < y
          BY <3>1, <4>1, <5>1, LayoutFacts
        <5> QED BY <4>3, <5>2
      <4> QED BY <4>2, <4>4, <4>5
    <3> QED BY <3>5, <3>6, <3>7, <3>8
  <2> QED BY <2>2, <2>3, <2>4 DEF Contiguous
<1> QED BY <1>2, <1>3

\* When all of them are queued, n - 1 of them lie below the offset of fragment n.
LEMMA RankOfFragment ==
    ASSUME NEW d \in Datagrams, NEW f, Mine(f, d), Whole(f, d), NEW n \in Fragments(d)
    PROVE  Cardinality({x \in DOMAIN f.at : x < Offset(d, n)}) = n - 1
<1>1. Count(d) \in Nat /\ Fragments(d) = 1 .. Count(d)
  BY LayoutFacts
<1>2. PICK L : L = {x \in DOMAIN f.at : x < Offset(d, n)}
  OBVIOUS
<1>3. PICK g : g = [i \in 1 .. n - 1 |-> Offset(d, i)]
  OBVIOUS
<1>4. ASSUME NEW i \in 1 .. n - 1
      PROVE  g[i] \in L /\ i \in Fragments(d) /\ g[i] = Offset(d, i)
  <2>1. i \in Fragments(d) /\ i < n
    BY <1>1
  <2>2. Offset(d, i) \in DOMAIN f.at
    BY <2>1 DEF Whole
  <2>3. Offset(d, i) < Offset(d, n)
    BY <2>1, LayoutFacts
  <2> QED BY <1>2, <1>3, <2>1, <2>2, <2>3
<1>5. ASSUME NEW x \in L
      PROVE  \E i \in 1 .. n - 1 : g[i] = x
  <2>1. PICK i \in Fragments(d) : x = Offset(d, i)
    BY <1>2, <1>5 DEF Mine
  <2>2. Offset(d, i) \in Nat /\ Offset(d, n) \in Nat /\ Offset(d, i) < Offset(d, n)
    BY <1>2, <2>1, LayoutFacts
  <2>3. i # n /\ ~ (n < i)
    <3>1. n < i => Offset(d, n) < Offset(d, i)
      BY <2>1, LayoutFacts
    <3> QED BY <2>2, <3>1
  <2>4. i \in 1 .. n - 1
    BY <1>1, <2>1, <2>3
  <2> QED BY <1>3, <2>1, <2>4
<1>6. \A i, j \in 1 .. n - 1 : g[i] = g[j] => i = j
  BY <1>4, OneFragment
<1>7. g \in Bijection(1 .. n - 1, L)
  <2>1. g \in [1 .. n - 1 -> L]
    BY <1>3, <1>4
  <2>2. g \in Injection(1 .. n - 1, L)
    BY <1>6, <2>1 DEF Injection, IsInjective
  <2>3. g \in Surjection(1 .. n - 1, L)
    BY <1>5, <2>1 DEF Surjection
  <2> QED BY <2>2, <2>3 DEF Bijection
<1>8. IsFiniteSet(1 .. n - 1) /\ Cardinality(1 .. n - 1) = n - 1
  <2>1. n - 1 \in Int /\ (IF 1 > n - 1 THEN 0 ELSE (n - 1) - 1 + 1) = n - 1
    BY <1>1
  <2>2. IsFiniteSet(1 .. n - 1)
        /\ Cardinality(1 .. n - 1) = IF 1 > n - 1 THEN 0 ELSE (n - 1) - 1 + 1
    BY <2>1, FS_Interval
  <2> QED BY <2>1, <2>2
<1>9. ExistsBijection(1 .. n - 1, L)
  BY <1>7 DEF ExistsBijection
<1>10. Cardinality(L) = n - 1
  BY <1>8, <1>9, FS_Bijection
<1> QED BY <1>2, <1>10

\* There are as many offsets as fragments.
LEMMA CountOfFragments ==
    ASSUME NEW d \in Datagrams, NEW f, Mine(f, d), Whole(f, d)
    PROVE  Cardinality(DOMAIN f.at) = Count(d)
<1>1. Count(d) \in Nat /\ Count(d) >= 2 /\ Fragments(d) = 1 .. Count(d)
  BY LayoutFacts
<1>2. PICK N : N = Count(d)
  OBVIOUS
<1>3. N \in Nat /\ N >= 2 /\ Fragments(d) = 1 .. N
  BY <1>1, <1>2
<1>4. PICK L : L = {x \in DOMAIN f.at : x < Offset(d, N)}
  OBVIOUS
<1>5. Cardinality(L) = N - 1
  BY <1>3, <1>4, RankOfFragment
<1>6. DOMAIN f.at = L \cup {Offset(d, N)} /\ Offset(d, N) \notin L
  <2>1. Offset(d, N) \in DOMAIN f.at /\ Offset(d, N) \in Nat
    BY <1>3, LayoutFacts DEF Whole
  <2>2. ASSUME NEW x \in DOMAIN f.at
        PROVE  x = Offset(d, N) \/ x < Offset(d, N)
    <3>1. PICK i \in Fragments(d) : x = Offset(d, i)
      BY <2>2 DEF Mine
    <3>2. i = N \/ i < N
      BY <1>3, <3>1
    <3> QED BY <1>3, <3>1, <3>2, LayoutFacts
  <2> QED BY <1>4, <2>1, <2>2
<1>7. IsFiniteSet(L)
  <2>1. ASSUME NEW x \in DOMAIN f.at
        PROVE  x \in Nat
    BY LayoutFacts DEF Mine
  <2>2. L \in SUBSET Nat /\ Offset(d, N) \in Nat /\ \A x \in L : x <= Offset(d, N)
    BY <1>3, <1>4, <2>1, LayoutFacts
  <2> QED BY <2>2, FS_BoundedSetOfNaturals
<1>8. Cardinality(L \cup {Offset(d, N)}) = Cardinality(L) + 1
  BY <1>6, <1>7, FS_AddElement
<1> QED BY <1>2, <1>3, <1>5, <1>6, <1>8

\* dequeue puts the fragments of a whole datagram one after the other.
LEMMA DequeuedWhole ==
    ASSUME NEW d \in Datagrams, NEW f, Mine(f, d), Whole(f, d)
    PROVE  /\ DOMAIN InOrder(f.at) = Fragments(d)
           /\ \A i \in Fragments(d) : InOrder(f.at)[i].d = d /\ InOrder(f.at)[i].i = i
<1>1. Count(d) \in Nat /\ Fragments(d) = 1 .. Count(d)
  BY LayoutFacts
<1>2. Cardinality(DOMAIN f.at) = Count(d)
  BY CountOfFragments
<1>3. DOMAIN InOrder(f.at) = Fragments(d)
  BY <1>1, <1>2 DEF InOrder
<1>4. ASSUME NEW n \in Fragments(d)
      PROVE  InOrder(f.at)[n].d = d /\ InOrder(f.at)[n].i = n
  <2>1. PICK c : c = CHOOSE o \in DOMAIN f.at : Cardinality({x \in DOMAIN f.at : x < o}) = n - 1
    OBVIOUS
  <2>2. Offset(d, n) \in DOMAIN f.at
    BY <1>4 DEF Whole
  <2>3. Cardinality({x \in DOMAIN f.at : x < Offset(d, n)}) = n - 1
    BY <1>4, RankOfFragment
  <2>4. c \in DOMAIN f.at /\ Cardinality({x \in DOMAIN f.at : x < c}) = n - 1
    BY <2>1, <2>2, <2>3
  <2>5. PICK m \in Fragments(d) : c = Offset(d, m)
    BY <2>4 DEF Mine
  <2>6. Cardinality({x \in DOMAIN f.at : x < Offset(d, m)}) = m - 1
    BY <2>5, RankOfFragment
  <2>7. m - 1 = n - 1
    BY <2>4, <2>5, <2>6
  <2>8. m = n
    BY <1>1, <2>5, <2>7
  <2>9. f.at[c].d = d /\ f.at[c].i = n
    BY <2>2, <2>5, <2>8, QueuedAt
  <2>10. InOrder(f.at)[n] = f.at[c]
    BY <1>1, <1>2, <2>1 DEF InOrder
  <2> QED BY <2>9, <2>10
<1> QED BY <1>3, <1>4

-----------------------------------------------------------------------------
(* The steps *)

\* A queue without fragments.
LEMMA EmptyQueue ==
    ASSUME NEW d \in Datagrams
    PROVE  Mine(NoFrags, d) /\ ~Whole(NoFrags, d)
<1>1. DOMAIN NoFrags.at = {} /\ NoFrags.hasLast = FALSE
  BY DEF NoFrags, Frags
<1>2. 1 \in Fragments(d)
  BY LayoutFacts
<1> QED BY <1>1, <1>2 DEF Mine, Whole

\* A queue with the same fragments and the same has_last.
LEMMA SameQueue ==
    ASSUME NEW d \in Datagrams, NEW f, NEW g,
           DOMAIN g.at = DOMAIN f.at, g.hasLast <=> f.hasLast,
           \A o \in DOMAIN f.at : g.at[o].d = f.at[o].d /\ g.at[o].i = f.at[o].i
    PROVE  (Mine(f, d) => Mine(g, d)) /\ (Whole(g, d) => Whole(f, d))
BY DEF Mine, Whole

\* A step changes the queue of one datagram at most, and makes no packet or a whole one.
LEMMA QueueStep ==
    ASSUME DistinctKeys, IInv, NEW d \in Datagrams, NEW g,
           fdata' = [fdata EXCEPT ![KeyOf[d]] = g],
           Mine(g, d), ~Whole(g, d), WholeDatagrams'
    PROVE  IInv'
<1>1. DOMAIN fdata' = Keys
  BY DEF IInv
<1>2. ASSUME NEW e \in Datagrams
      PROVE  Mine(fdata[KeyOf[e]], e)' /\ ~Whole(fdata[KeyOf[e]], e)'
  <2>1. KeyOf[e] \in Keys
    BY DEF Keys
  <2>2. CASE e = d
    <3>1. fdata'[KeyOf[e]] = g
      BY <2>1, <2>2 DEF IInv
    <3> QED BY <2>2, <3>1 DEF Mine, Whole
  <2>3. CASE e # d
    <3>1. fdata'[KeyOf[e]] = fdata[KeyOf[e]]
      BY <2>1, <2>3 DEF IInv, DistinctKeys
    <3>2. Mine(fdata[KeyOf[e]], e) /\ ~Whole(fdata[KeyOf[e]], e)
      BY DEF IInv, QueueInv
    <3> QED BY <3>1, <3>2 DEF Mine, Whole
  <2> QED BY <2>2, <2>3
<1> QED BY <1>1, <1>2 DEF IInv, QueueInv

\* A fragment of d that is added to its queue.
LEMMA AddFragment ==
    ASSUME NEW d \in Datagrams, NEW i \in Fragments(d), NEW f, Mine(f, d),
           NEW g, DOMAIN g.at = DOMAIN f.at \cup {Offset(d, i)},
           g.hasLast <=> f.hasLast \/ IsLast(d, i),
           g.at[Offset(d, i)].d = d, g.at[Offset(d, i)].i = i,
           \A o \in DOMAIN f.at : o # Offset(d, i) => g.at[o] = f.at[o]
    PROVE  Mine(g, d)
<1>1. ASSUME NEW o \in DOMAIN g.at
      PROVE  \E j \in Fragments(d) : o = Offset(d, j) /\ g.at[o].d = d /\ g.at[o].i = j
  <2>1. CASE o = Offset(d, i)
    BY <2>1
  <2>2. CASE o # Offset(d, i)
    <3>1. o \in DOMAIN f.at /\ g.at[o] = f.at[o]
      BY <1>1, <2>2
    <3> QED BY <3>1 DEF Mine
  <2> QED BY <2>1, <2>2
<1>2. Count(d) \in Fragments(d)
  BY LayoutFacts
<1>3. IsLast(d, i) <=> Offset(d, Count(d)) = Offset(d, i)
  BY <1>2, OneFragment DEF IsLast, Count
<1>4. g.hasLast <=> Offset(d, Count(d)) \in DOMAIN g.at
  BY <1>3 DEF Mine
<1> QED BY <1>1, <1>4 DEF Mine

\* A fragment is captured.
LEMMA DefragStep ==
    ASSUME DistinctKeys, IInv, NEW d \in Datagrams, NEW i \in Fragments(d), Defrag(d, i)
    PROVE  IInv'
<1>1. PICK f : f = fdata[KeyOf[d]]
  OBVIOUS
<1>2. Mine(f, d) /\ ~Whole(f, d)
  BY <1>1 DEF IInv, QueueInv
<1>3. PICK o : o = Offset(d, i)
  OBVIOUS
<1>4. PICK g : g = Frags([x \in DOMAIN f.at \cup {o} |->
                            IF x = o THEN Frag(d, i, 0) ELSE f.at[x]],
                         f.hasLast \/ IsLast(d, i))
  OBVIOUS
<1>5. CASE o \in DOMAIN f.at
  <2>1. PICK h : h = Frags(f.at, f.hasLast \/ IsLast(d, i))
    OBVIOUS
  <2>2. fdata' = [fdata EXCEPT ![KeyOf[d]] = h] /\ packet' = <<>>
    BY <1>1, <1>3, <1>5, <2>1 DEF Defrag, Held
  <2>3. h.at = f.at /\ (h.hasLast <=> f.hasLast \/ IsLast(d, i))
    BY <2>1 DEF Frags
  <2>4. f.at[o].d = d /\ f.at[o].i = i
    BY <1>2, <1>3, <1>5, QueuedAt
  <2>5. Mine(h, d)
    BY <1>2, <1>3, <1>5, <2>3, <2>4, AddFragment
  <2>6. ~Whole(h, d)
    BY <1>2, <2>3 DEF Whole
  <2>7. WholeDatagrams'
    BY <2>2 DEF WholeDatagrams
  <2> QED BY <2>2, <2>5, <2>6, <2>7, QueueStep
<1>6. CASE o \notin DOMAIN f.at
  <2>1. /\ DOMAIN g.at = DOMAIN f.at \cup {o}
        /\ g.hasLast <=> f.hasLast \/ IsLast(d, i)
        /\ g.at[o].d = d /\ g.at[o].i = i
        /\ \A x \in DOMAIN f.at : x # o => g.at[x] = f.at[x]
    BY <1>4 DEF Frags, Frag
  <2>2. Mine(g, d)
    BY <1>2, <1>3, <2>1, AddFragment
  <2>3. CASE Whole(g, d)
    <3>1. Complete(g, d, i)
      BY <2>2, <2>3, CompleteIsWhole DEF Complete
    <3>2. fdata' = [fdata EXCEPT ![KeyOf[d]] = NoFrags] /\ packet' = InOrder(g.at)
      BY <1>1, <1>3, <1>4, <1>6, <3>1 DEF Defrag, Held
    <3>3. DOMAIN packet' = Fragments(d)
          /\ \A j \in Fragments(d) : packet'[j].d = d /\ packet'[j].i = j
      BY <2>2, <2>3, <3>2, DequeuedWhole
    <3>4. WholeDatagrams'
      BY <3>3 DEF WholeDatagrams, Fragments
    <3> QED BY <3>2, <3>4, EmptyQueue, QueueStep
  <2>4. CASE ~Whole(g, d)
    <3>1. ~Complete(g, d, i)
      BY <2>2, <2>4, CompleteIsWhole DEF Complete
    <3>2. fdata' = [fdata EXCEPT ![KeyOf[d]] = g] /\ packet' = <<>>
      BY <1>1, <1>3, <1>4, <1>6, <3>1 DEF Defrag, Held
    <3>3. WholeDatagrams'
      BY <3>2 DEF WholeDatagrams
    <3> QED BY <2>2, <2>4, <3>2, <3>3, QueueStep
  <2> QED BY <2>3, <2>4
<1> QED BY <1>5, <1>6

\* Time does not change what is queued.
LEMMA TickStep ==
    ASSUME IInv, Tick
    PROVE  IInv'
<1>1. DOMAIN fdata' = Keys
  BY DEF Tick
<1>2. ASSUME NEW d \in Datagrams
      PROVE  Mine(fdata[KeyOf[d]], d)' /\ ~Whole(fdata[KeyOf[d]], d)'
  <2>1. PICK f, g : f = fdata[KeyOf[d]] /\ g = fdata'[KeyOf[d]]
    OBVIOUS
  <2>2. Mine(f, d) /\ ~Whole(f, d)
    BY <2>1 DEF IInv, QueueInv
  <2>3. KeyOf[d] \in Keys
    BY DEF Keys
  <2>4. g = Frags([o \in DOMAIN f.at |-> Aged(f.at[o])], f.hasLast)
    BY <2>1, <2>3 DEF Tick, Held
  <2>5. DOMAIN g.at = DOMAIN f.at /\ (g.hasLast <=> f.hasLast)
        /\ \A o \in DOMAIN f.at : g.at[o].d = f.at[o].d /\ g.at[o].i = f.at[o].i
    BY <2>4 DEF Frags, Aged, Frag
  <2>6. Mine(g, d) /\ ~Whole(g, d)
    BY <2>2, <2>5, SameQueue
  <2> QED BY <2>1, <2>6 DEF Mine, Whole
<1>3. WholeDatagrams'
  BY DEF Tick, WholeDatagrams
<1> QED BY <1>1, <1>2, <1>3 DEF IInv, QueueInv

\* A queue is dropped or left alone.
LEMMA CleanupStep ==
    ASSUME IInv, Cleanup
    PROVE  IInv'
<1>1. DOMAIN fdata' = Keys
  BY DEF Cleanup
<1>2. ASSUME NEW d \in Datagrams
      PROVE  Mine(fdata[KeyOf[d]], d)' /\ ~Whole(fdata[KeyOf[d]], d)'
  <2>1. PICK f, g : f = fdata[KeyOf[d]] /\ g = fdata'[KeyOf[d]]
    OBVIOUS
  <2>2. Mine(f, d) /\ ~Whole(f, d)
    BY <2>1 DEF IInv, QueueInv
  <2>3. KeyOf[d] \in Keys
    BY DEF Keys
  <2>4. g = NoFrags \/ g = f
    BY <2>1, <2>3 DEF Cleanup
  <2>5. Mine(g, d) /\ ~Whole(g, d)
    BY <2>2, <2>4, EmptyQueue
  <2> QED BY <2>1, <2>5 DEF Mine, Whole
<1>3. WholeDatagrams'
  BY DEF Cleanup, WholeDatagrams
<1> QED BY <1>1, <1>2, <1>3 DEF IInv, QueueInv

-----------------------------------------------------------------------------
(* The theorems *)

\* The invariant holds initially and every step keeps it.
LEMMA Inductive ==
    ASSUME DistinctKeys
    PROVE  Spec => []IInv
<1>1. Init => IInv
  <2> SUFFICES ASSUME Init PROVE IInv
    OBVIOUS
  <2>1. DOMAIN fdata = Keys
    BY DEF Init
  <2>2. ASSUME NEW d \in Datagrams
        PROVE  fdata[KeyOf[d]] = NoFrags
    BY DEF Init, Keys
  <2>3. QueueInv
    BY <2>2, EmptyQueue DEF QueueInv
  <2>4. WholeDatagrams
    BY DEF Init, WholeDatagrams
  <2> QED BY <2>1, <2>3, <2>4 DEF IInv
<1>2. IInv /\ [Next]_vars => IInv'
  <2> SUFFICES ASSUME IInv, [Next]_vars PROVE IInv'
    OBVIOUS
  <2>1. CASE \E d \in Datagrams : \E i \in Fragments(d) : Defrag(d, i)
    BY <2>1, DefragStep
  <2>2. CASE Tick
    BY <2>2, TickStep
  <2>3. CASE Cleanup
    BY <2>3, CleanupStep
  <2>4. CASE UNCHANGED vars
    BY <2>4 DEF vars, IInv, QueueInv, Mine, Whole, WholeDatagrams
  <2> QED BY <2>1, <2>2, <2>3, <2>4 DEF Next
<1> QED BY <1>1, <1>2, PTL DEF Spec

\* Reassembly never makes a packet of less, or of other, than one whole datagram, its
\* fragments in order, whatever is captured twice, late, out of order or not at all, and
\* however many fragments there are, as long as the keys of the datagrams differ.
THEOREM PacketsAreWhole ==
    ASSUME DistinctKeys
    PROVE  Spec => []WholeDatagrams
<1>1. IInv => WholeDatagrams
  BY DEF IInv
<1> QED BY <1>1, Inductive, PTL

\* The fragment that completes a datagram is noticed, whichever it is: no complete
\* datagram stays in its queue until cleanup drops it.
THEOREM CompletionNoticed ==
    ASSUME DistinctKeys
    PROVE  Spec => []NoneCompleteHeld
<1>1. IInv => NoneCompleteHeld
  BY DEF IInv, QueueInv, Whole, NoneCompleteHeld, Held
<1> QED BY <1>1, Inductive, PTL

=============================================================================
