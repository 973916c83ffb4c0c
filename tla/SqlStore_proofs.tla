--------------------------- MODULE SqlStore_proofs ---------------------------
(* Proofs about SqlStore for every number of queries, files and faults. *)
EXTENDS SqlStore, FunctionTheorems, FiniteSetTheorems, SequenceTheorems, TLAPS

-----------------------------------------------------------------------------
(* Sequences of queries *)

\* The elements of s grow.
Incr(s) == \A i, j \in DOMAIN s : i < j => s[i] < s[j]

\* All elements of s are below all elements of t.
Below(s, t) == \A x \in ToSet(s), y \in ToSet(t) : x < y

\* How often q occurs in s.
Occ(s, q) == Cardinality({i \in DOMAIN s : s[i] = q})

\* s is h followed by t, and t is s followed by x.
Cut(s, h, t) == h = Head(s) /\ t = Tail(s)
Appended(s, x, t) == t = Append(s, x)

\* u is s followed by t.
Joined(s, t, u) == u = s \o t

\* The empty sequence.
LEMMA EmptyElements ==
    ToSet(<< >>) = {} /\ Incr(<< >>) /\ (\A S : << >> \in Seq(S))
  BY DEF ToSet, Incr

\* An element of a sequence is at one of its places.
LEMMA ElementIn ==
    ASSUME NEW S, NEW s \in Seq(S), NEW x \in ToSet(s)
    PROVE  x \in S /\ \E i \in DOMAIN s : s[i] = x
  BY DEF ToSet

\* The elements of a sequence of numbers are numbers.
LEMMA NatElements ==
    ASSUME NEW s \in Seq(Nat) PROVE \A x \in ToSet(s) : x \in Nat
  BY DEF ToSet

\* What Append does to elements and places.
LEMMA AppendElements ==
    ASSUME NEW s \in Seq(Nat), NEW x \in Nat, NEW t, Appended(s, x, t)
    PROVE  /\ t \in Seq(Nat) /\ ToSet(t) = ToSet(s) \cup {x} /\ Len(t) = Len(s) + 1
           /\ DOMAIN t = DOMAIN s \cup {Len(s) + 1}
           /\ \A i \in DOMAIN s : t[i] = s[i] /\ i # Len(s) + 1 /\ i < Len(s) + 1
           /\ t[Len(s) + 1] = x
  <1>1. /\ t \in Seq(Nat) /\ Len(t) = Len(s) + 1 /\ Len(s) \in Nat
        /\ DOMAIN s = 1 .. Len(s) /\ DOMAIN t = 1 .. Len(s) + 1
        /\ \A i \in 1 .. Len(s) : t[i] = s[i]
        /\ t[Len(s) + 1] = x
    BY DEF Appended
  <1>2. /\ DOMAIN t = DOMAIN s \cup {Len(s) + 1}
        /\ \A i \in DOMAIN s : t[i] = s[i] /\ i # Len(s) + 1 /\ i < Len(s) + 1
    BY <1>1
  <1>3. ToSet(t) = ToSet(s) \cup {x}
    BY <1>1, <1>2 DEF ToSet
  <1> QED
    BY <1>1, <1>2, <1>3

\* What Append does to the elements, one by one.
LEMMA AppendSet ==
    ASSUME NEW s \in Seq(Nat), NEW x \in Nat, NEW t, Appended(s, x, t)
    PROVE  t \in Seq(Nat) /\ \A y : y \in ToSet(t) <=> y \in ToSet(s) \/ y = x
  <1>1. t \in Seq(Nat)
    BY DEF Appended
  <1>2. \A y : y \in ToSet(t) <=> y \in ToSet(s) \/ y = x
    BY SMTT(20) DEF Appended, ToSet
  <1> QED
    BY <1>1, <1>2

\* Appending a larger element keeps a sequence increasing.
LEMMA AppendGrows ==
    ASSUME NEW s \in Seq(Nat), Incr(s), NEW x \in Nat, \A y \in ToSet(s) : y < x,
           NEW t, Appended(s, x, t)
    PROVE  Incr(t)
  <1>1. /\ DOMAIN t = DOMAIN s \cup {Len(s) + 1}
        /\ \A i \in DOMAIN s : t[i] = s[i] /\ i < Len(s) + 1
        /\ t[Len(s) + 1] = x /\ Len(s) \in Nat /\ DOMAIN s \subseteq Nat
    <2>1. Len(s) \in Nat /\ DOMAIN s \subseteq Nat
      OBVIOUS
    <2>2. /\ DOMAIN t = 1 .. Len(s) + 1 /\ DOMAIN s = 1 .. Len(s)
          /\ \A i \in 1 .. Len(s) : t[i] = s[i]
      BY <2>1 DEF Appended
    <2>3. t[Len(s) + 1] = x
      BY <2>1 DEF Appended
    <2> QED
      BY <2>1, <2>2, <2>3
  <1>2. \A i \in DOMAIN s : t[i] < x
    BY <1>1 DEF ToSet
  <1>3. ASSUME NEW i \in DOMAIN t, NEW j \in DOMAIN t, i < j PROVE t[i] < t[j]
    <2>1. CASE j = Len(s) + 1
      <3>1. i # Len(s) + 1
        BY <1>1, <1>3, <2>1
      <3> QED
        BY <1>1, <1>2, <2>1, <3>1
    <2>2. CASE j \in DOMAIN s
      <3>1. i # Len(s) + 1
        BY <1>1, <1>3, <2>2
      <3>2. i \in DOMAIN s
        BY <1>1, <3>1
      <3> QED
        BY <1>1, <1>3, <2>2, <3>2 DEF Incr
    <2> QED
      BY <1>1, <2>1, <2>2
  <1> QED
    BY <1>3 DEF Incr

\* What Tail does to elements and places.
LEMMA TailElements ==
    ASSUME NEW S, NEW s \in Seq(S), s # << >>, NEW h, h = Head(s), NEW t, t = Tail(s)
    PROVE  /\ h \in S /\ t \in Seq(S) /\ ToSet(s) = {h} \cup ToSet(t)
           /\ DOMAIN t = 1 .. Len(s) - 1 /\ Len(s) \in Nat \ {0} /\ DOMAIN s = 1 .. Len(s)
           /\ h = s[1]
           /\ \A i \in DOMAIN t : t[i] = s[i + 1] /\ i + 1 \in DOMAIN s
  <1>1. /\ h \in S /\ t \in Seq(S) /\ Len(s) \in Nat \ {0} /\ DOMAIN s = 1 .. Len(s)
        /\ DOMAIN t = 1 .. Len(s) - 1 /\ h = s[1]
        /\ \A i \in 1 .. Len(s) - 1 : t[i] = s[i + 1]
    OBVIOUS
  <1>2. \A i \in DOMAIN t : t[i] = s[i + 1] /\ i + 1 \in DOMAIN s
    BY <1>1
  <1>3. \A i \in DOMAIN s : i = 1 \/ (i - 1 \in DOMAIN t /\ s[i] = t[i - 1])
    BY <1>1
  <1>4. ASSUME NEW x \in ToSet(s) PROVE x \in {h} \cup ToSet(t)
    <2>1. PICK i \in DOMAIN s : s[i] = x
      BY ElementIn
    <2> QED
      BY <1>1, <1>3, <2>1 DEF ToSet
  <1>5. ASSUME NEW x \in {h} \cup ToSet(t) PROVE x \in ToSet(s)
    <2>1. 1 \in DOMAIN s
      BY <1>1
    <2> QED
      BY <1>1, <1>2, <2>1 DEF ToSet
  <1> QED
    BY <1>1, <1>2, <1>4, <1>5

\* What Tail does to the elements, one by one.
LEMMA TailSet ==
    ASSUME NEW s \in Seq(Nat), s # << >>, NEW h, NEW t, Cut(s, h, t)
    PROVE  \A y : y \in ToSet(s) <=> y = h \/ y \in ToSet(t)
  <1>1. /\ DOMAIN t = 1 .. Len(s) - 1 /\ Len(s) \in Nat \ {0} /\ DOMAIN s = 1 .. Len(s)
        /\ h = s[1] /\ \A i \in 1 .. Len(s) - 1 : t[i] = s[i + 1]
    BY DEF Cut
  <1>2. ASSUME NEW y \in ToSet(s) PROVE y = h \/ y \in ToSet(t)
    <2>1. PICK i \in DOMAIN s : s[i] = y
      BY DEF ToSet
    <2>2. i = 1 \/ (i - 1 \in DOMAIN t /\ t[i - 1] = y)
      BY <1>1, <2>1
    <2> QED
      BY <1>1, <2>1, <2>2 DEF ToSet
  <1>3. ASSUME NEW y \in ToSet(t) PROVE y \in ToSet(s)
    <2>1. PICK i \in DOMAIN t : t[i] = y
      BY DEF ToSet
    <2>2. i + 1 \in DOMAIN s /\ s[i + 1] = y
      BY <1>1, <2>1
    <2> QED
      BY <2>2 DEF ToSet
  <1>4. h \in ToSet(s)
    <2>1. 1 \in DOMAIN s
      BY <1>1
    <2> QED
      BY <1>1, <2>1 DEF ToSet
  <1> QED
    BY <1>2, <1>3, <1>4

\* The rest of an increasing sequence is increasing and above its head.
LEMMA TailGrows ==
    ASSUME NEW s \in Seq(Nat), Incr(s), s # << >>, NEW h, h = Head(s), NEW t, t = Tail(s)
    PROVE  Incr(t) /\ \A y \in ToSet(t) : h < y
  <1>1. /\ t \in Seq(Nat)
        /\ DOMAIN t = 1 .. Len(s) - 1 /\ Len(s) \in Nat \ {0} /\ DOMAIN s = 1 .. Len(s)
        /\ h = s[1]
        /\ \A i \in DOMAIN t : t[i] = s[i + 1] /\ i + 1 \in DOMAIN s
    BY TailElements
  <1>2. ASSUME NEW i \in DOMAIN t, NEW j \in DOMAIN t, i < j PROVE t[i] < t[j]
    <2>1. i + 1 < j + 1
      BY <1>1, <1>2
    <2> QED
      BY <1>1, <2>1 DEF Incr
  <1>3. ASSUME NEW y \in ToSet(t) PROVE h < y
    <2>1. PICK i \in DOMAIN t : t[i] = y
      BY DEF ToSet
    <2>2. 1 < i + 1 /\ 1 \in DOMAIN s
      BY <1>1
    <2> QED
      BY <1>1, <2>1, <2>2 DEF Incr
  <1> QED
    BY <1>2, <1>3 DEF Incr

\* What joining two sequences does to elements and places.
LEMMA ConcatElements ==
    ASSUME NEW s \in Seq(Nat), NEW t \in Seq(Nat), NEW u, Joined(s, t, u)
    PROVE  /\ u \in Seq(Nat) /\ ToSet(u) = ToSet(s) \cup ToSet(t)
           /\ \A i \in DOMAIN s : i \in DOMAIN u /\ u[i] = s[i]
           /\ \A j \in DOMAIN u : \/ j \in DOMAIN s
                                  \/ j - Len(s) \in DOMAIN t /\ u[j] = t[j - Len(s)] /\ j \in Nat
  <1>1. /\ u \in Seq(Nat) /\ Len(s) \in Nat /\ Len(t) \in Nat /\ Len(u) = Len(s) + Len(t)
        /\ DOMAIN s = 1 .. Len(s) /\ DOMAIN t = 1 .. Len(t) /\ DOMAIN u = 1 .. Len(u)
        /\ \A i \in 1 .. Len(u) : u[i] = IF i <= Len(s) THEN s[i] ELSE t[i - Len(s)]
    BY DEF Joined
  <1>2. \A i \in DOMAIN s : i \in DOMAIN u /\ u[i] = s[i]
    BY <1>1
  <1>3. \A j \in DOMAIN u : \/ j \in DOMAIN s
                            \/ j - Len(s) \in DOMAIN t /\ u[j] = t[j - Len(s)] /\ j \in Nat
    BY <1>1
  <1>4. ASSUME NEW i \in DOMAIN t PROVE i + Len(s) \in DOMAIN u /\ u[i + Len(s)] = t[i]
    <2>1. PICK n \in Nat, k \in Nat : n = Len(s) /\ k = Len(t)
      BY <1>1
    <2>2. PICK j \in Nat : j = i + n
      BY <1>1, <2>1
    <2>3. j \in 1 .. Len(u) /\ ~(j <= n) /\ j - n = i
      BY <1>1, <2>1, <2>2
    <2> QED
      BY <1>1, <2>1, <2>2, <2>3
  <1>5. ToSet(u) = ToSet(s) \cup ToSet(t)
    <2>1. ASSUME NEW x \in ToSet(u) PROVE x \in ToSet(s) \cup ToSet(t)
      <3>1. PICK j \in DOMAIN u : u[j] = x
        BY DEF ToSet
      <3> QED
        BY <1>2, <1>3, <3>1 DEF ToSet
    <2>2. ASSUME NEW x \in ToSet(s) PROVE x \in ToSet(u)
      <3>1. PICK j \in DOMAIN s : s[j] = x
        BY DEF ToSet
      <3> QED
        BY <1>2, <3>1 DEF ToSet
    <2>3. ASSUME NEW x \in ToSet(t) PROVE x \in ToSet(u)
      <3>1. PICK j \in DOMAIN t : t[j] = x
        BY DEF ToSet
      <3> QED
        BY <1>4, <3>1 DEF ToSet
    <2> QED
      BY <2>1, <2>2, <2>3
  <1> QED
    BY <1>1, <1>2, <1>3, <1>5

\* s is split after its n-th element.
Split(s, n, a, b) == a = SubSeq(s, 1, n) /\ b = SubSeq(s, n + 1, Len(s))

\* What splitting a sequence does to elements and places.
LEMMA SplitElements ==
    ASSUME NEW S, NEW s \in Seq(S), NEW n \in 0 .. Len(s), NEW a, NEW b, Split(s, n, a, b)
    PROVE  /\ a \in Seq(S) /\ b \in Seq(S) /\ ToSet(s) = ToSet(a) \cup ToSet(b)
           /\ DOMAIN a = 1 .. n /\ DOMAIN a \subseteq DOMAIN s
           /\ \A i \in DOMAIN a : a[i] = s[i]
           /\ \A i \in DOMAIN b : i + n \in DOMAIN s /\ b[i] = s[i + n] /\ i \in Nat /\ i > 0
  <1>1. Len(s) \in Nat /\ DOMAIN s = 1 .. Len(s) /\ \A i \in 1 .. Len(s) : s[i] \in S
    OBVIOUS
  <1>2. /\ a \in Seq(S) /\ DOMAIN a = 1 .. n /\ \A i \in 1 .. n : a[i] = s[i]
    BY <1>1 DEF Split
  <1>3. /\ b \in Seq(S) /\ DOMAIN b = 1 .. Len(s) - n
        /\ \A i \in 1 .. Len(s) - n : b[i] = s[i + n]
    BY <1>1 DEF Split
  <1>4. \A i \in DOMAIN b : i + n \in DOMAIN s /\ b[i] = s[i + n] /\ i \in Nat /\ i > 0
    BY <1>1, <1>3
  <1>5. \A i \in DOMAIN a : i \in DOMAIN s /\ a[i] = s[i]
    BY <1>1, <1>2
  <1>6. \A i \in DOMAIN s : i \in DOMAIN a \/ \E j \in DOMAIN b : b[j] = s[i]
    <2> SUFFICES ASSUME NEW i \in DOMAIN s, i \notin DOMAIN a PROVE \E j \in DOMAIN b : b[j] = s[i]
      OBVIOUS
    <2>1. i - n \in 1 .. Len(s) - n /\ (i - n) + n = i
      BY <1>1, <1>2
    <2> QED
      BY <1>3, <2>1
  <1>7. ToSet(s) = ToSet(a) \cup ToSet(b)
    <2>1. ASSUME NEW x \in ToSet(s) PROVE x \in ToSet(a) \cup ToSet(b)
      <3>1. PICK j \in DOMAIN s : s[j] = x
        BY DEF ToSet
      <3> QED
        BY <1>5, <1>6, <3>1 DEF ToSet
    <2>2. ASSUME NEW x \in ToSet(a) PROVE x \in ToSet(s)
      BY <1>5 DEF ToSet
    <2>3. ASSUME NEW x \in ToSet(b) PROVE x \in ToSet(s)
      <3>1. PICK j \in DOMAIN b : b[j] = x
        BY DEF ToSet
      <3> QED
        BY <1>4, <3>1 DEF ToSet
    <2> QED
      BY <2>1, <2>2, <2>3
  <1> QED
    BY <1>2, <1>3, <1>4, <1>5, <1>7

\* The first part of an increasing sequence is increasing and below the second.
LEMMA SplitGrows ==
    ASSUME NEW s \in Seq(Nat), Incr(s), NEW n \in 0 .. Len(s), NEW a, NEW b, Split(s, n, a, b)
    PROVE  Incr(a) /\ Below(a, b)
  <1>1. /\ a \in Seq(Nat) /\ b \in Seq(Nat)
        /\ DOMAIN a = 1 .. n /\ DOMAIN a \subseteq DOMAIN s
        /\ \A i \in DOMAIN a : a[i] = s[i]
        /\ \A i \in DOMAIN b : i + n \in DOMAIN s /\ b[i] = s[i + n] /\ i \in Nat /\ i > 0
    BY SplitElements
  <1>2. Incr(a)
    BY <1>1 DEF Incr
  <1>3. ASSUME NEW x \in ToSet(a), NEW y \in ToSet(b) PROVE x < y
    <2>1. PICK i \in DOMAIN a : a[i] = x
      BY DEF ToSet
    <2>2. PICK j \in DOMAIN b : b[j] = y
      BY DEF ToSet
    <2>3. i < j + n
      BY <1>1, <2>1, <2>2
    <2> QED
      BY <1>1, <2>1, <2>2, <2>3 DEF Incr
  <1> QED
    BY <1>2, <1>3 DEF Below

\* A query is stored a number of times.
LEMMA OccType ==
    ASSUME NEW s \in Seq(Nat), NEW q
    PROVE  Occ(s, q) \in Nat
  <1>1. Len(s) \in Nat /\ DOMAIN s = 1 .. Len(s)
    OBVIOUS
  <1>2. IsFiniteSet(1 .. Len(s))
    BY <1>1, FS_Interval
  <1>3. IsFiniteSet({i \in DOMAIN s : s[i] = q})
    BY <1>1, <1>2, FS_Subset
  <1> QED
    BY <1>3, FS_CardinalityType DEF Occ

\* An increasing sequence holds a query once.
LEMMA OccConcat ==
    ASSUME NEW s \in Seq(Nat), NEW t \in Seq(Nat), Incr(t), NEW q, NEW u, Joined(s, t, u)
    PROVE  /\ Occ(s, q) \in Nat /\ Occ(u, q) \in Nat
           /\ Occ(u, q) <= Occ(s, q) + 1
           /\ q \notin ToSet(t) => Occ(u, q) = Occ(s, q)
  <1> DEFINE I == {i \in DOMAIN s : s[i] = q}
             J == {i \in DOMAIN u : u[i] = q}
  <1>1. /\ u \in Seq(Nat)
        /\ \A i \in DOMAIN s : i \in DOMAIN u /\ u[i] = s[i]
        /\ \A j \in DOMAIN u : \/ j \in DOMAIN s
                               \/ j - Len(s) \in DOMAIN t /\ u[j] = t[j - Len(s)] /\ j \in Nat
    BY ConcatElements
  <1>2. /\ Len(s) \in Nat /\ DOMAIN s = 1 .. Len(s) /\ Len(t) \in Nat /\ DOMAIN t = 1 .. Len(t)
        /\ \A i \in DOMAIN t : t[i] \in Nat
    OBVIOUS
  <1>3. IsFiniteSet(I) /\ I \subseteq J
    <2>1. IsFiniteSet(1 .. Len(s))
      BY <1>2, FS_Interval
    <2> QED
      BY <1>1, <1>2, <2>1, FS_Subset
  <1>4. \A j \in J : j \in I \/ (t[j - Len(s)] = q /\ j - Len(s) \in DOMAIN t /\ j \in Nat)
    BY <1>1
  <1>5. \A j, k \in DOMAIN t : t[j] = t[k] => j = k
    <2> SUFFICES ASSUME NEW j \in DOMAIN t, NEW k \in DOMAIN t, t[j] = t[k] PROVE j = k
      OBVIOUS
    <2>1. ~(j < k) /\ ~(k < j)
      BY <1>2 DEF Incr
    <2> QED
      BY <1>2, <2>1
  <1>6. q \notin ToSet(t) => J = I
    BY <1>3, <1>4 DEF ToSet
  <1>7. \E k : J \subseteq I \cup {k}
    <2>1. CASE J \subseteq I
      BY <2>1
    <2>2. CASE ~(J \subseteq I)
      <3>1. PICK k \in J : k \notin I
        BY <2>2
      <3>2. \A j \in J : j \in I \/ j = k
        <4> SUFFICES ASSUME NEW j \in J, j \notin I PROVE j = k
          OBVIOUS
        <4>1. j - Len(s) = k - Len(s) /\ j \in Nat /\ k \in Nat
          BY <1>4, <1>5, <3>1
        <4> QED
          BY <1>2, <4>1
      <3> QED
        BY <3>2
    <2> QED
      BY <2>1, <2>2
  <1> HIDE DEF I, J
  <1>8. PICK k : J \subseteq I \cup {k}
    BY <1>7
  <1>9. Cardinality(I) \in Nat /\ IsFiniteSet(I \cup {k}) /\ Cardinality(I \cup {k}) <= Cardinality(I) + 1
    <2>1. Cardinality(I) \in Nat
      BY <1>3, FS_CardinalityType
    <2>2. /\ IsFiniteSet(I \cup {k})
          /\ Cardinality(I \cup {k}) = IF k \in I THEN Cardinality(I) ELSE Cardinality(I) + 1
      BY <1>3, FS_AddElement
    <2> QED
      BY <2>1, <2>2
  <1>10. IsFiniteSet(J) /\ Cardinality(J) \in Nat /\ Cardinality(J) <= Cardinality(I \cup {k})
         /\ Cardinality(I \cup {k}) \in Nat
    BY <1>8, <1>9, FS_Subset, FS_CardinalityType
  <1>11. Cardinality(J) <= Cardinality(I) + 1
    BY <1>9, <1>10
  <1> QED
    BY <1>6, <1>9, <1>10, <1>11 DEF Occ, I, J

-----------------------------------------------------------------------------
(* Files and the loader *)

\* The assumptions on the constants.
LEMMA Constants ==
    /\ SavePeriod \in Nat \ {0} /\ LoadPeriod \in Nat \ {0} /\ SavePeriod < 2 * LoadPeriod
    /\ ConcatLimit \in Nat \ {0} /\ MaxQueries \in Nat /\ MaxEvents \in Nat
    /\ StoreThreads \in Nat \ {0} /\ NextLimit \in Nat /\ Ids \subseteq Nat /\ 0 \in Ids
    /\ MaxAge \in Nat /\ Queries \subseteq Nat /\ \A s \in Seq(Queries) : s \in Seq(Nat)
  <1>1. /\ SavePeriod \in Nat \ {0} /\ LoadPeriod \in Nat \ {0} /\ SavePeriod < 2 * LoadPeriod
        /\ ConcatLimit \in Nat \ {0} /\ MaxQueries \in Nat /\ MaxEvents \in Nat
        /\ StoreThreads \in Nat \ {0} /\ NextLimit \in Nat
    BY PeriodsAssumption, ConcatAssumption, BoundsAssumption, ThreadsAssumption
  <1>2. MaxAge \in Nat /\ Queries \subseteq Nat /\ Ids \subseteq Nat /\ 0 \in Ids
    BY <1>1 DEF MaxAge, Queries, Ids
  <1>3. ASSUME NEW s \in Seq(Queries) PROVE s \in Seq(Nat)
    <2>1. Len(s) \in Nat /\ s \in [1 .. Len(s) -> Queries]
      OBVIOUS
    <2>2. s \in [1 .. Len(s) -> Nat]
      BY <1>2, <2>1
    <2> QED
      BY <2>1, <2>2
  <1> QED
    BY <1>1, <1>2, <1>3

\* The fields of a cache file.
LEMMA FileFields ==
    ASSUME NEW r \in File
    PROVE  r.lines \in Seq(Queries) /\ r.open \in BOOLEAN /\ r.onDisk \in BOOLEAN
           /\ r.age \in 0 .. MaxAge
  BY DEF File

\* Closing a file changes nothing else of it.
LEMMA SetOpen ==
    ASSUME NEW r \in File, NEW o \in BOOLEAN, NEW t, t = [r EXCEPT !.open = o]
    PROVE  t \in File /\ t.lines = r.lines /\ t.open = o /\ t.onDisk = r.onDisk /\ t.age = r.age
  BY DEF File

\* Ageing changes nothing else of a file.
LEMMA SetAge ==
    ASSUME NEW r \in File, NEW a \in 0 .. MaxAge, NEW t, t = [r EXCEPT !.age = a]
    PROVE  t \in File /\ t.lines = r.lines /\ t.open = r.open /\ t.onDisk = r.onDisk /\ t.age = a
  BY DEF File

\* Writing a line changes nothing else of a file.
LEMMA SetLines ==
    ASSUME NEW r \in File, NEW s \in Seq(Queries), NEW t, t = [r EXCEPT !.lines = s]
    PROVE  t \in File /\ t.lines = s /\ t.open = r.open /\ t.onDisk = r.onDisk /\ t.age = r.age
  BY DEF File

\* t is the file r with open and lines, or with onDisk and lines, changed.
OpenLinesSet(r, o, s, t) == t = [r EXCEPT !.open = o, !.lines = s]
DiskLinesSet(r, d, s, t) == t = [r EXCEPT !.onDisk = d, !.lines = s]

\* A crash changes the lines of a file and whether it is open only.
LEMMA SetOpenLines ==
    ASSUME NEW r \in File, NEW o \in BOOLEAN, NEW s \in Seq(Queries), NEW t, OpenLinesSet(r, o, s, t)
    PROVE  t \in File /\ t.lines = s /\ t.open = o /\ t.onDisk = r.onDisk /\ t.age = r.age
  BY DEF File, OpenLinesSet

\* Removing a file changes its lines and its place on the disk only.
LEMMA SetDiskLines ==
    ASSUME NEW r \in File, NEW d \in BOOLEAN, NEW s \in Seq(Queries), NEW t, DiskLinesSet(r, d, s, t)
    PROVE  t \in File /\ t.lines = s /\ t.open = r.open /\ t.onDisk = d /\ t.age = r.age
  BY DEF File, DiskLinesSet

\* The files F hold the queries up to w in the order in which they were written, and only
\* the last file is open.
FilesOrdered(F, w) ==
    /\ \A f \in DOMAIN F : /\ F[f].open => f = Len(F) /\ F[f].onDisk
                           /\ Incr(F[f].lines)
                           /\ \A x \in ToSet(F[f].lines) : x <= w
    /\ \A f, g \in DOMAIN F : f < g => Below(F[f].lines, F[g].lines)

\* The files of the directory.
OnDisk(F) == {f \in DOMAIN F : F[f].onDisk}

\* The loader, in state l, is reading a file; it has chosen one.
AtFile(l) == l.pc \in {"read", "dangling"}
HasFile(l) == l.pc \in {"drain", "read", "dangling"}

\* The queries in files of the directory that the loader, in state l, is not reading, and
\* in the file that it is reading.
WaitingLines(F, l) == UNION {ToSet(F[f].lines) : f \in {g \in OnDisk(F) : ~(AtFile(l) /\ g = l.file)}}
ReadingLines(F, l) == IF AtFile(l) /\ F[l.file].onDisk THEN ToSet(F[l.file].lines) ELSE {}

\* A waiting query is in a file on the disk that is not being read.
LEMMA WaitingElement ==
    ASSUME NEW F, NEW l, NEW x
    PROVE  x \in WaitingLines(F, l) <=>
              \E f \in DOMAIN F : /\ F[f].onDisk /\ ~(AtFile(l) /\ f = l.file)
                                  /\ x \in ToSet(F[f].lines)
  BY DEF WaitingLines, OnDisk

\* The files G are the files F later: closed or older.
SameContents(F, G) ==
    /\ G \in Seq(File) /\ Len(G) = Len(F) /\ DOMAIN G = DOMAIN F
    /\ \A f \in DOMAIN F : /\ G[f].lines = F[f].lines /\ G[f].onDisk = F[f].onDisk
                           /\ G[f].open => F[f].open

\* Files with the same contents are in the same order.
LEMMA SameContentsOrdered ==
    ASSUME NEW F \in Seq(File), NEW G, SameContents(F, G), NEW w \in Nat, NEW v \in Nat, w <= v,
           FilesOrdered(F, w)
    PROVE  FilesOrdered(G, v)
  <1>1. \A f \in DOMAIN F : \A x \in ToSet(F[f].lines) : x \in Nat
    BY FileFields, Constants DEF ToSet
  <1>2. ASSUME NEW f \in DOMAIN G
        PROVE  /\ G[f].open => f = Len(G) /\ G[f].onDisk
               /\ Incr(G[f].lines)
               /\ \A x \in ToSet(G[f].lines) : x <= v
    <2>1. f \in DOMAIN F /\ G[f].lines = F[f].lines /\ Len(G) = Len(F)
      BY DEF SameContents
    <2>2. G[f].open => f = Len(G) /\ G[f].onDisk
      BY <2>1 DEF SameContents, FilesOrdered
    <2>3. Incr(G[f].lines)
      BY <2>1 DEF FilesOrdered
    <2>4. ASSUME NEW x \in ToSet(G[f].lines) PROVE x <= v
      <3>1. x \in Nat /\ x <= w
        BY <1>1, <2>1 DEF FilesOrdered
      <3> QED
        BY <3>1
    <2> QED
      BY <2>2, <2>3, <2>4
  <1>3. \A f, g \in DOMAIN G : f < g => Below(G[f].lines, G[g].lines)
    BY DEF SameContents, FilesOrdered
  <1> QED
    BY <1>2, <1>3 DEF FilesOrdered

\* Files with the same contents hold the same queries.
LEMMA SameContentsLines ==
    ASSUME NEW F \in Seq(File), NEW G, SameContents(F, G), NEW l, AtFile(l) => l.file \in DOMAIN F
    PROVE  WaitingLines(G, l) = WaitingLines(F, l) /\ ReadingLines(G, l) = ReadingLines(F, l)
  <1>1. \A x : x \in WaitingLines(G, l) <=> x \in WaitingLines(F, l)
    BY WaitingElement DEF SameContents
  <1> QED
    BY <1>1 DEF SameContents, ReadingLines

\* At most one file is open.
LEMMA AtMostOneOpen ==
    ASSUME NEW F, NEW w, FilesOrdered(F, w)
    PROVE  Cardinality({f \in DOMAIN F : F[f].open}) <= 1
  <1>1. PICK O : O = {f \in DOMAIN F : F[f].open}
    OBVIOUS
  <1>2. O \in SUBSET {Len(F)}
    BY <1>1 DEF FilesOrdered
  <1>3. IsFiniteSet({Len(F)}) /\ Cardinality({Len(F)}) = 1
    BY FS_Singleton
  <1> QED
    BY <1>1, <1>2, <1>3, FS_Subset

\* The states of the loader.
LoaderState(D) ==
    [pc : LoaderPc, file : {0} \cup D, rest : Seq(Queries)]

\* What the loader's record l is.
Loads(l, D, p, f, r) == l \in LoaderState(D) /\ l.pc = p /\ l.file = f /\ l.rest = r

\* The loader goes to another place in its code.
LEMMA SetPc ==
    ASSUME NEW D, NEW l \in LoaderState(D), NEW p \in LoaderPc,
           NEW t, t = [l EXCEPT !.pc = p]
    PROVE  Loads(t, D, p, l.file, l.rest)
  BY DEF LoaderState, Loads

\* The loader goes to another place with another file.
LEMMA SetPcFile ==
    ASSUME NEW D, NEW l \in LoaderState(D), NEW p \in LoaderPc,
           NEW f \in {0} \cup D, NEW t, t = [l EXCEPT !.pc = p, !.file = f]
    PROVE  Loads(t, D, p, f, l.rest)
  BY DEF LoaderState, Loads

\* The loader goes to another place with other lines to push.
LEMMA SetPcRest ==
    ASSUME NEW D, NEW l \in LoaderState(D), NEW p \in LoaderPc,
           NEW r \in Seq(Queries), NEW t, t = [l EXCEPT !.pc = p, !.rest = r]
    PROVE  Loads(t, D, p, l.file, r)
  BY DEF LoaderState, Loads

\* The loader has other lines to push.
LEMMA SetRest ==
    ASSUME NEW D, NEW l \in LoaderState(D), NEW r \in Seq(Queries), NEW t, t = [l EXCEPT !.rest = r]
    PROVE  Loads(t, D, l.pc, l.file, r)
  BY DEF LoaderState, Loads

\* The loader at the start.
LEMMA IdleLoads ==
    ASSUME NEW D
    PROVE  Loads(Idle, D, "start", 0, << >>)
  BY DEF LoaderState, Loads, Idle, LoaderPc

\* The fields of the loader.
LEMMA LoaderFields ==
    ASSUME NEW D, NEW l \in LoaderState(D)
    PROVE  /\ l.pc \in LoaderPc /\ l.file \in {0} \cup D
           /\ l.rest \in Seq(Queries)
  BY DEF LoaderState

-----------------------------------------------------------------------------
(* The invariants *)

\* A file is closed before it is old enough to be loaded, and the loader has a closed one:
\* of the files F, with the loader in state l and the program in state lf.
InTime(F, l, lf) ==
    /\ lf = "up" => \A f \in DOMAIN F : F[f].open => F[f].age <= SavePeriod + 1
    /\ lf \in {"wait", "delete", "join", "down"} => \A f \in DOMAIN F : ~F[f].open
    /\ HasFile(l) => l.file \in DOMAIN F /\ ~F[l.file].open

ClosedInTime == InTime(files, loader, life)

\* A file g of the directory that the loader will find: it knows of it, it has it, or the
\* file is younger than all known ones (ql) and open or reported by an event (ev).
Finds(F, l, ev, ql, g) ==
    \/ g \in ql
    \/ HasFile(l) /\ g = l.file
    \/ /\ \A h \in ql : h < g
       /\ g \in ToSet(ev) \/ F[g].open

\* The loader takes the oldest file.
Knows(F, l, ev, ql, lf, ino) ==
    /\ ~AtFile(l) => l.rest = << >>
    /\ HasFile(l) => \A g \in OnDisk(F) : l.file <= g
    /\ lf = "up" /\ ino /\ l.pc # "start" => \A g \in OnDisk(F) : Finds(F, l, ev, ql, g)
    /\ Incr(ev)
    /\ \A e \in ToSet(ev) : ~F[e].open

KnowsOldest == Knows(files, loader, events, qload, life, inotify)

\* What the program's life allows.
LifeInv ==
    /\ Terminating => terms > 0
    /\ life = "down" => loader.pc = "start" /\ events = << >> /\ qload = {}

\* Where the batch q of store thread t is, with the buffer b, the thread at s and the error e.
ThreadOk(t, b, q, s, e) ==
    /\ s = "none" => b = << >> /\ q = << >>
    /\ t >= threads => s = "none"
    /\ s = "fill" => Len(q) < ConcatLimit
    /\ s = "check" => q = << >> \/ (Terminating /\ e)
    /\ s \in {"terminated", "joined"} => q = << >>
    /\ life = "up" => s \notin {"terminated", "joined", "deleted", "dangling"}
    /\ life = "down" => s = "none"

ThreadsInv == \A t \in Ids : ThreadOk(t, buff[t], queue[t], store[t], sqlError[t])

\* The queries in the loader's rest r, the buffers B and the batches Q.
Memory(r, B, Q) == ToSet(r) \cup UNION {ToSet(B[t]) \cup ToSet(Q[t]) : t \in Ids}

\* The rest r, a buffer b and the batch q of its thread are in the order in which they were
\* written, those waiting in files after them.
OrderedAt(W, r, b, q) ==
    /\ Incr(q) /\ Incr(b) /\ Incr(r)
    /\ Below(q, b) /\ Below(q, r) /\ Below(b, r)
    /\ \A x \in ToSet(r) \cup ToSet(b) \cup ToSet(q), y \in W : x < y

\* The threads have no query in common.
Apart(B, Q) ==
    \A t, u \in Ids : t # u => \A x \in ToSet(B[t]) \cup ToSet(Q[t]) : x \notin ToSet(B[u]) \cup ToSet(Q[u])

Ordered(W, r, B, Q) == (\A t \in Ids : OrderedAt(W, r, B[t], Q[t])) /\ Apart(B, Q)

\* No query was read or executed that had not been written.
UpTo(S, w) == \A x \in S : x <= w

\* A query of S was executed at most as often as something went wrong, every other one
\* once more.
SentOften(S, d, may) ==
    /\ \A x \in S : Occ(d, x) <= may
    /\ \A x \in Nat : Occ(d, x) <= may + 1

\* The order of the queries on their way, and how often they were executed: W are those
\* waiting in files.
Path(W, r, B, Q, d, may, w) ==
    /\ Ordered(W, r, B, Q)
    /\ UpTo(Memory(r, B, Q) \cup ToSet(d), w)
    /\ SentOften(W \cup Memory(r, B, Q), d, may)

PathInv ==
    Path(WaitingLines(files, loader), loader.rest, buff, queue, db, crashes + reruns, written)

\* What is in memory or was executed (S) comes from an older file than those in the directory,
\* or from the same one, which then is closed.
FromOlder(F, S) ==
    \A f \in OnDisk(F) : \A x \in ToSet(F[f].lines), y \in S :
        y < x \/ (y \in ToSet(F[f].lines) /\ ~F[f].open)

OlderInv == FromOlder(files, InMemory \cup ToSet(db))

\* What is still to be pushed is in the file being read.
RestInv == ToSet(loader.rest) \subseteq ReadingLines(files, loader)

\* A query of S that is neither in the database d nor bad comes after all those in d.
Ahead(S, d, bad) == \A x \in S \ (ToSet(d) \cup bad) : \A y \in ToSet(d) : y < x

\* The cases in which no query may be overtaken at all.
Strict == threads = 1 /\ (terms = 0 \/ ConcatLimit > 1)

AheadInv ==
    Strict => Ahead(WaitingLines(files, loader) \cup ReadingLines(files, loader) \cup InMemory, db, failed \cup damaged)

\* A terminating thread at s, with the error e noted, has dropped queries perhaps and will send
\* no batch of more than one query.
GaveUp(s, e, q) ==
    \/ s \in {"deleted", "dangling"}
    \/ e /\ (s \in {"check", "terminated", "joined"} \/ (s = "fill" /\ q = << >>))

\* Nothing that was read has been dropped.
Careful == \/ ~Terminating
           \/ threads = 1 /\ ConcatLimit > 1 /\ ~GaveUp(store[0], sqlError[0], queue[0])

\* What the loader has read of a file is in memory or settled, or could not be read.
ReadInv == Careful => ReadingLines(files, loader) \subseteq InMemory \cup Settled \cup damaged

SqlInv ==
    /\ FilesOrdered(files, written)
    /\ ClosedInTime
    /\ KnowsOldest
    /\ LifeInv
    /\ ThreadsInv
    /\ PathInv
    /\ OlderInv
    /\ RestInv
    /\ AheadInv
    /\ ReadInv

-----------------------------------------------------------------------------
(* Steps of the path *)

\* Where a query in memory is.
LEMMA MemoryElement ==
    ASSUME NEW r, NEW B, NEW Q, NEW x
    PROVE  x \in Memory(r, B, Q) <=>
              x \in ToSet(r) \/ \E t \in Ids : x \in ToSet(B[t]) \/ x \in ToSet(Q[t])
  BY DEF Memory

\* What the state calls memory.
LEMMA MemoryNow ==
    InMemory = Memory(loader.rest, buff, queue)
  BY DEF InMemory, AtStores, Memory

\* In C thread t has c, the others have what they have in B.
OneChanged(B, C, t, c) == C[t] = c /\ \A u \in Ids \ {t} : C[u] = B[u]

\* The head h of the rest r goes to the buffer b; they become s and c.
Pushes(W, r, b, q, h, s, c) ==
    /\ r \in Seq(Nat) /\ b \in Seq(Nat) /\ q \in Seq(Nat) /\ OrderedAt(W, r, b, q)
    /\ r # << >> /\ Cut(r, h, s) /\ Appended(b, h, c)

\* This keeps the order.
LEMMA PushOrdered ==
    ASSUME NEW W, NEW r, NEW b, NEW q, NEW h, NEW s, NEW c, Pushes(W, r, b, q, h, s, c)
    PROVE  /\ OrderedAt(W, s, c, q) /\ Incr(s) /\ ToSet(r) = {h} \cup ToSet(s)
           /\ ToSet(c) = ToSet(b) \cup {h}
  <1>1. /\ r \in Seq(Nat) /\ b \in Seq(Nat) /\ q \in Seq(Nat) /\ OrderedAt(W, r, b, q)
        /\ r # << >> /\ Cut(r, h, s) /\ Appended(b, h, c)
    BY DEF Pushes
  <1>2. h \in Nat /\ s \in Seq(Nat) /\ ToSet(r) = {h} \cup ToSet(s)
    BY <1>1, TailElements, ZenonT(40) DEF Cut
  <1>3. Incr(s) /\ \A y \in ToSet(s) : h < y
    BY <1>1, TailGrows DEF OrderedAt, Cut
  <1>4. c \in Seq(Nat) /\ ToSet(c) = ToSet(b) \cup {h}
    BY <1>1, <1>2, AppendElements, ZenonT(40)
  <1>5. \A y \in ToSet(b) : y < h
    BY <1>1, <1>2 DEF OrderedAt, Below
  <1>6. Incr(c)
    BY <1>1, <1>2, <1>5, AppendGrows DEF OrderedAt
  <1>8. Below(q, c) /\ Below(q, s) /\ Below(c, s)
    BY <1>1, <1>2, <1>3, <1>4 DEF OrderedAt, Below
  <1>9. \A x \in ToSet(s) \cup ToSet(c) \cup ToSet(q), y \in W : x < y
    BY <1>1, <1>2, <1>4 DEF OrderedAt
  <1> QED
    BY <1>1, <1>2, <1>3, <1>4, <1>6, <1>8, <1>9 DEF OrderedAt

\* The head h of the buffer b goes to the batch q; they become c and p.
Pops(W, r, b, q, h, c, p) ==
    /\ r \in Seq(Nat) /\ b \in Seq(Nat) /\ q \in Seq(Nat) /\ OrderedAt(W, r, b, q)
    /\ b # << >> /\ Cut(b, h, c) /\ Appended(q, h, p)

\* This keeps the order.
LEMMA PopOrdered ==
    ASSUME NEW W, NEW r, NEW b, NEW q, NEW h, NEW c, NEW p, Pops(W, r, b, q, h, c, p)
    PROVE  OrderedAt(W, r, c, p) /\ ToSet(c) \cup ToSet(p) = ToSet(b) \cup ToSet(q)
  <1>1. /\ r \in Seq(Nat) /\ b \in Seq(Nat) /\ q \in Seq(Nat) /\ OrderedAt(W, r, b, q)
        /\ b # << >> /\ Cut(b, h, c) /\ Appended(q, h, p)
    BY DEF Pops
  <1>2. h \in Nat /\ c \in Seq(Nat) /\ ToSet(b) = {h} \cup ToSet(c)
    BY <1>1, TailElements, ZenonT(40) DEF Cut
  <1>3. Incr(c) /\ \A y \in ToSet(c) : h < y
    BY <1>1, TailGrows DEF OrderedAt, Cut
  <1>4. p \in Seq(Nat) /\ ToSet(p) = ToSet(q) \cup {h}
    BY <1>1, <1>2, AppendElements, ZenonT(40)
  <1>5. \A y \in ToSet(q) : y < h
    BY <1>1, <1>2 DEF OrderedAt, Below
  <1>6. Incr(p)
    BY <1>1, <1>2, <1>5, AppendGrows DEF OrderedAt
  <1>7. ToSet(c) \cup ToSet(p) = ToSet(b) \cup ToSet(q)
    BY <1>2, <1>4
  <1>8. Below(p, c) /\ Below(p, r) /\ Below(c, r)
    BY <1>1, <1>2, <1>3, <1>4 DEF OrderedAt, Below
  <1>9. \A x \in ToSet(r) \cup ToSet(c) \cup ToSet(p), y \in W : x < y
    BY <1>1, <1>2, <1>4 DEF OrderedAt
  <1>10. Incr(r)
    BY <1>1 DEF OrderedAt
  <1> QED
    BY <1>3, <1>6, <1>7, <1>8, <1>9, <1>10 DEF OrderedAt

\* s is r or has been emptied.
Kept(r, s) == s = r \/ s = << >>

\* Emptying a stage keeps the order of the others.
LEMMA DropOrdered ==
    ASSUME NEW W, NEW r, NEW b, NEW q, OrderedAt(W, r, b, q), NEW c, Kept(b, c), NEW p, Kept(q, p)
    PROVE  OrderedAt(W, r, c, p) /\ ToSet(c) \subseteq ToSet(b) /\ ToSet(p) \subseteq ToSet(q)
  <1>1. /\ ToSet(c) \subseteq ToSet(b) /\ ToSet(p) \subseteq ToSet(q)
        /\ Incr(c) /\ Incr(p) /\ Incr(r)
    BY EmptyElements DEF Kept, OrderedAt
  <1>3. Below(p, c) /\ Below(p, r) /\ Below(c, r)
    BY <1>1 DEF OrderedAt, Below
  <1>4. \A x \in ToSet(r) \cup ToSet(c) \cup ToSet(p), y \in W : x < y
    BY <1>1 DEF OrderedAt
  <1> QED
    BY <1>1, <1>3, <1>4 DEF OrderedAt

\* Thread t has c and p now, taken from its own queries and from the rest, of which s is left.
LEMMA OrderedReplace ==
    ASSUME NEW W, NEW r \in Seq(Nat), NEW B, NEW Q, Ordered(W, r, B, Q), NEW t \in Ids,
           NEW c, NEW C, OneChanged(B, C, t, c), NEW p, NEW P, OneChanged(Q, P, t, p),
           NEW s, OrderedAt(W, s, c, p), Incr(s), ToSet(s) \subseteq ToSet(r),
           ToSet(c) \cup ToSet(p) \subseteq ToSet(B[t]) \cup ToSet(Q[t]) \cup ToSet(r)
    PROVE  Ordered(W, s, C, P) /\ Memory(s, C, P) \subseteq Memory(r, B, Q)
  <1>1. /\ C[t] = c /\ P[t] = p
        /\ \A u \in Ids \ {t} : C[u] = B[u] /\ P[u] = Q[u]
    BY DEF OneChanged
  <1>2. ASSUME NEW u \in Ids PROVE OrderedAt(W, s, C[u], P[u])
    <2>1. CASE u = t
      BY <1>1, <2>1
    <2>2. CASE u # t
      <3>1. C[u] = B[u] /\ P[u] = Q[u] /\ OrderedAt(W, r, B[u], Q[u])
        BY <1>1, <2>2 DEF Ordered
      <3>2. Below(Q[u], B[u]) /\ Below(Q[u], s) /\ Below(B[u], s)
        BY <3>1 DEF OrderedAt, Below
      <3>3. \A x \in ToSet(s) \cup ToSet(B[u]) \cup ToSet(Q[u]), y \in W : x < y
        BY <3>1 DEF OrderedAt
      <3> QED
        BY <3>1, <3>2, <3>3 DEF OrderedAt
    <2> QED
      BY <2>1, <2>2
  <1>3. ASSUME NEW u \in Ids, u # t, NEW x \in ToSet(B[u]) \cup ToSet(Q[u])
        PROVE  x \notin ToSet(c) \cup ToSet(p)
    <2>1. x \notin ToSet(B[t]) \cup ToSet(Q[t])
      BY <1>3 DEF Ordered, Apart
    <2>2. x \notin ToSet(r)
      <3>1. \A y \in ToSet(r) : x < y /\ y \in Nat
        BY <1>3, NatElements DEF Ordered, OrderedAt, Below
      <3> QED
        BY <3>1
    <2> QED
      BY <2>1, <2>2
  <1>4. Apart(C, P)
    <2> SUFFICES ASSUME NEW u \in Ids, NEW v \in Ids, u # v, NEW x \in ToSet(C[u]) \cup ToSet(P[u])
                 PROVE  x \notin ToSet(C[v]) \cup ToSet(P[v])
      BY DEF Apart
    <2>1. CASE u # t /\ v # t
      BY <1>1, <2>1 DEF Ordered, Apart
    <2>2. CASE u = t
      BY <1>1, <1>3, <2>2
    <2>3. CASE v = t
      BY <1>1, <1>3, <2>3
    <2> QED
      BY <2>1, <2>2, <2>3
  <1>5. ASSUME NEW x \in Memory(s, C, P) PROVE x \in Memory(r, B, Q)
    <2>1. CASE x \in ToSet(s)
      BY <2>1, MemoryElement
    <2>2. ASSUME NEW u \in Ids, x \in ToSet(C[u]) \cup ToSet(P[u]) PROVE x \in Memory(r, B, Q)
      <3>1. CASE u = t
        BY <1>1, <2>2, <3>1, MemoryElement
      <3>2. CASE u # t
        BY <1>1, <2>2, <3>2, MemoryElement
      <3> QED
        BY <3>1, <3>2
    <2> QED
      BY <2>1, <2>2, MemoryElement
  <1> QED
    BY <1>2, <1>4, <1>5 DEF Ordered

\* Of the rest only s is left.
LEMMA OrderedRest ==
    ASSUME NEW W, NEW r, NEW B, NEW Q, Ordered(W, r, B, Q), NEW s, Incr(s), ToSet(s) \subseteq ToSet(r)
    PROVE  Ordered(W, s, B, Q) /\ Memory(s, B, Q) \subseteq Memory(r, B, Q)
  <1>1. ASSUME NEW u \in Ids PROVE OrderedAt(W, s, B[u], Q[u])
    <2>1. OrderedAt(W, r, B[u], Q[u])
      BY DEF Ordered
    <2>2. Below(Q[u], B[u]) /\ Below(Q[u], s) /\ Below(B[u], s)
      BY <2>1 DEF OrderedAt, Below
    <2>3. \A x \in ToSet(s) \cup ToSet(B[u]) \cup ToSet(Q[u]), y \in W : x < y
      BY <2>1 DEF OrderedAt
    <2> QED
      BY <2>1, <2>2, <2>3 DEF OrderedAt
  <1>2. Memory(s, B, Q) \subseteq Memory(r, B, Q)
    BY MemoryElement
  <1> QED
    BY <1>1, <1>2 DEF Ordered

\* Nothing is executed; files and memory hold less.
LEMMA PathShrinks ==
    ASSUME NEW W, NEW r, NEW B, NEW Q, NEW d, NEW may, NEW w, Path(W, r, B, Q, d, may, w),
           NEW V, NEW s, NEW C, NEW P, Ordered(V, s, C, P), V \subseteq W,
           Memory(s, C, P) \subseteq Memory(r, B, Q) \cup W, UpTo(Memory(s, C, P), w)
    PROVE  Path(V, s, C, P, d, may, w)
  <1>1. UpTo(Memory(s, C, P) \cup ToSet(d), w)
    BY DEF Path, UpTo
  <1>3. SentOften(V \cup Memory(s, C, P), d, may)
    BY DEF Path, SentOften
  <1> QED
    BY <1>1, <1>3 DEF Path

\* The same when memory gets nothing from the files.
LEMMA PathDrops ==
    ASSUME NEW W, NEW r, NEW B, NEW Q, NEW d, NEW may, NEW w, Path(W, r, B, Q, d, may, w),
           NEW s, NEW C, NEW P, Ordered(W, s, C, P), Memory(s, C, P) \subseteq Memory(r, B, Q)
    PROVE  Path(W, s, C, P, d, may, w)
  <1>1. UpTo(Memory(s, C, P), w)
    BY DEF Path, UpTo
  <1>2. Memory(s, C, P) \subseteq Memory(r, B, Q) \cup W /\ W \subseteq W
    OBVIOUS
  <1> QED
    BY <1>1, <1>2, PathShrinks

\* The buffers or batches of all threads are empty.
AllEmpty(B) == \A t \in Ids : B[t] = << >>

\* With empty buffers and batches only the rest is in memory.
LEMMA EmptyMemory ==
    ASSUME NEW r, NEW B, NEW Q, AllEmpty(B), AllEmpty(Q)
    PROVE  Memory(r, B, Q) = ToSet(r)
  <1>1. \A x : x \in Memory(r, B, Q) <=> x \in ToSet(r)
    BY MemoryElement, EmptyElements DEF AllEmpty
  <1> QED
    BY <1>1

\* V waits after an end, nothing is in memory, and what was being read waits again only after a crash.
Forgets(V, C, P, m, W, R, may) ==
    /\ AllEmpty(C) /\ AllEmpty(P) /\ V \subseteq W \cup R
    /\ (m = may /\ V \subseteq W) \/ m = may + 1

\* Memory is lost and with it the knowledge of what has been read.
LEMMA PathForgets ==
    ASSUME NEW W, NEW R, NEW r, NEW B, NEW Q, NEW d \in Seq(Nat), NEW may \in Nat, NEW w \in Nat,
           Path(W, r, B, Q, d, may, w), W \subseteq Nat, R \subseteq Nat,
           NEW V, NEW m \in Nat, NEW C, NEW P, Forgets(V, C, P, m, W, R, may)
    PROVE  Path(V, << >>, C, P, d, m, w)
  <1> USE DEF Forgets
  <1>1. Memory(<< >>, C, P) = {}
    BY EmptyMemory, EmptyElements
  <1>2. Ordered(V, << >>, C, P)
    BY EmptyElements DEF Ordered, OrderedAt, Apart, Below, AllEmpty
  <1>3. UpTo(Memory(<< >>, C, P) \cup ToSet(d), w)
    BY <1>1 DEF Path, UpTo
  <1>5. \A x \in Nat : Occ(d, x) \in Nat
    BY OccType
  <1>6. SentOften(V \cup Memory(<< >>, C, P), d, m)
    <2>1. ASSUME NEW x \in V PROVE Occ(d, x) <= m
      <3>1. CASE m = may /\ V \subseteq W
        BY <3>1 DEF Path, SentOften
      <3>2. CASE m = may + 1
        BY <3>2 DEF Path, SentOften
      <3> QED
        BY <3>1, <3>2
    <2>2. ASSUME NEW x \in Nat PROVE Occ(d, x) <= m + 1
      <3>1. Occ(d, x) <= may + 1
        BY DEF Path, SentOften
      <3>2. m >= may
        OBVIOUS
      <3> QED
        BY <1>5, <3>1, <3>2
    <2> QED
      BY <1>1, <2>1, <2>2 DEF SentOften
  <1> QED
    BY <1>2, <1>3, <1>6 DEF Path

\* A query that is in no database has not been executed.
LEMMA OccNone ==
    ASSUME NEW d, NEW v, v \notin ToSet(d)
    PROVE  Occ(d, v) = 0
  <1>1. {i \in DOMAIN d : d[i] = v} = {}
    BY DEF ToSet
  <1> QED
    BY <1>1, FS_EmptySet DEF Occ

\* A query is written to a file, refused at once, or its line is not written.
LEMMA PathGrows ==
    ASSUME NEW W, NEW r, NEW B, NEW Q, NEW d, NEW may \in Nat, NEW w \in Nat, NEW v \in Nat, w < v,
           Path(W, r, B, Q, d, may, w), Memory(r, B, Q) \cup ToSet(d) \subseteq Nat
    PROVE  Path(W \cup {v}, r, B, Q, d, may, v) /\ Path(W, r, B, Q, d, may, v)
  <1>3. \A x \in Memory(r, B, Q) \cup ToSet(d) : x < v /\ x <= v
    BY DEF Path, UpTo
  <1>4. Ordered(W \cup {v}, r, B, Q)
    <2>1. ASSUME NEW t \in Ids PROVE OrderedAt(W \cup {v}, r, B[t], Q[t])
      <3>1. OrderedAt(W, r, B[t], Q[t])
        BY DEF Path, Ordered
      <3>2. \A x \in ToSet(r) \cup ToSet(B[t]) \cup ToSet(Q[t]) : x < v
        BY <1>3, MemoryElement
      <3> QED
        BY <3>1, <3>2 DEF OrderedAt
    <2> QED
      BY <2>1 DEF Path, Ordered
  <1>5. UpTo(Memory(r, B, Q) \cup ToSet(d), v)
    BY <1>3 DEF UpTo
  <1>7. Occ(d, v) <= may
    <2>1. v \notin ToSet(d)
      BY <1>3
    <2>2. Occ(d, v) = 0
      BY <2>1, OccNone
    <2> QED
      BY <2>2
  <1>8. SentOften((W \cup {v}) \cup Memory(r, B, Q), d, may) /\ SentOften(W \cup Memory(r, B, Q), d, may)
    BY <1>7 DEF Path, SentOften
  <1> QED
    BY <1>4, <1>5, <1>8 DEF Path

\* The file of the waiting queries that come first is opened, with empty buffers.
LEMMA PathOpens ==
    ASSUME NEW W, NEW r, NEW B, NEW Q, NEW d, NEW may, NEW w \in Nat,
           Path(W, r, B, Q, d, may, w), AllEmpty(B),
           NEW s \in Seq(Nat), Incr(s), NEW V, V \subseteq W, ToSet(s) \subseteq W,
           \A x \in ToSet(s), y \in V : x < y, UpTo(ToSet(s), w)
    PROVE  Path(V, s, B, Q, d, may, w) /\ Memory(s, B, Q) \subseteq Memory(r, B, Q) \cup ToSet(s)
  <1>2. Memory(s, B, Q) \subseteq Memory(r, B, Q) \cup ToSet(s)
    BY MemoryElement
  <1>4. Ordered(V, s, B, Q)
    <2>1. ASSUME NEW t \in Ids PROVE OrderedAt(V, s, B[t], Q[t])
      <3>1. ToSet(B[t]) = {} /\ Incr(B[t])
        BY EmptyElements DEF AllEmpty
      <3>2. OrderedAt(W, r, B[t], Q[t])
        BY DEF Path, Ordered
      <3>3. \A x \in ToSet(Q[t]), y \in W : x < y
        BY <3>2 DEF OrderedAt
      <3>4. Below(Q[t], B[t]) /\ Below(B[t], s) /\ Below(Q[t], s)
        BY <3>1, <3>3 DEF Below
      <3>5. \A x \in ToSet(s) \cup ToSet(B[t]) \cup ToSet(Q[t]), y \in V : x < y
        BY <3>1, <3>3
      <3> QED
        BY <3>1, <3>2, <3>4, <3>5 DEF OrderedAt
    <2> QED
      BY <2>1 DEF Path, Ordered
  <1>5. UpTo(Memory(s, B, Q), w)
    BY <1>2 DEF Path, UpTo
  <1>6. Memory(s, B, Q) \subseteq Memory(r, B, Q) \cup W
    BY <1>2
  <1> QED
    BY <1>2, <1>4, <1>5, <1>6, PathShrinks

\* Of the batch q of thread t the first queries a are executed, those in the database d become e.
Sends(r, B, Q, d, t, q, n, a, z, e) ==
    /\ r \in Seq(Nat) /\ d \in Seq(Nat) /\ t \in Ids /\ q \in Seq(Nat) /\ q = Q[t]
    /\ \A u \in Ids : Q[u] \in Seq(Nat) /\ B[u] \in Seq(Nat)
    /\ n \in 0 .. Len(q) /\ Split(q, n, a, z) /\ Joined(d, a, e)

\* The batch stays or leaves the thread: q becomes p, and may becomes m.
Leaves(Q, t, q, p, P, a, may, m) ==
    /\ Kept(q, p) /\ OneChanged(Q, P, t, p)
    /\ may \in Nat /\ m \in Nat /\ m >= may /\ (p = << >> \/ m >= may + 1 \/ a = << >>)

\* What this does to the path.
LEMMA PathSends ==
    ASSUME NEW W, NEW r, NEW B, NEW Q, NEW d, NEW may, NEW w, NEW t, NEW q, NEW n, NEW a, NEW z, NEW e,
           NEW p, NEW P, NEW m, W \subseteq Nat, w \in Nat, Path(W, r, B, Q, d, may, w),
           Sends(r, B, Q, d, t, q, n, a, z, e), Leaves(Q, t, q, p, P, a, may, m)
    PROVE  /\ Path(W, r, B, P, e, m, w) /\ Memory(r, B, P) \subseteq Memory(r, B, Q)
           /\ Memory(r, B, P) \cup ToSet(e) \subseteq Memory(r, B, Q) \cup ToSet(d)
  <1>0. /\ r \in Seq(Nat) /\ d \in Seq(Nat) /\ t \in Ids /\ q \in Seq(Nat) /\ q = Q[t]
        /\ \A u \in Ids : Q[u] \in Seq(Nat) /\ B[u] \in Seq(Nat)
        /\ n \in 0 .. Len(q) /\ Split(q, n, a, z) /\ Joined(d, a, e)
        /\ Kept(q, p) /\ OneChanged(Q, P, t, p)
        /\ may \in Nat /\ m \in Nat /\ m >= may /\ (p = << >> \/ m >= may + 1 \/ a = << >>)
    BY DEF Sends, Leaves
  <1>1. a \in Seq(Nat) /\ z \in Seq(Nat) /\ ToSet(q) = ToSet(a) \cup ToSet(z)
    BY <1>0, SplitElements
  <1>2. OrderedAt(W, r, B[t], q)
    BY <1>0 DEF Path, Ordered
  <1>3. Incr(a)
    BY <1>0, <1>2, SplitGrows DEF OrderedAt
  <1>4. e \in Seq(Nat) /\ ToSet(e) = ToSet(d) \cup ToSet(a)
    BY <1>0, <1>1, ConcatElements
  <1>5. Ordered(W, r, B, P) /\ Memory(r, B, P) \subseteq Memory(r, B, Q)
    <2>1. Kept(B[t], B[t]) /\ OneChanged(B, B, t, B[t]) /\ Ordered(W, r, B, Q)
      BY <1>0 DEF Kept, OneChanged, Path
    <2>2. OrderedAt(W, r, B[t], p) /\ ToSet(p) \subseteq ToSet(q)
      BY <1>0, <1>2, <2>1, DropOrdered
    <2>3. Incr(r) /\ ToSet(r) \subseteq ToSet(r)
          /\ ToSet(B[t]) \cup ToSet(p) \subseteq ToSet(B[t]) \cup ToSet(Q[t]) \cup ToSet(r)
      BY <1>0, <1>2, <2>2 DEF OrderedAt
    <2> QED
      BY <1>0, <2>1, <2>2, <2>3, OrderedReplace
  <1>6. ToSet(q) \subseteq Memory(r, B, Q)
    BY <1>0, MemoryElement
  <1>7. Memory(r, B, P) \cup ToSet(e) \subseteq Memory(r, B, Q) \cup ToSet(d)
    BY <1>0, <1>1, <1>4, <1>5, <1>6
  <1>8. UpTo(Memory(r, B, P) \cup ToSet(e), w)
    BY <1>0, <1>7 DEF Path, UpTo
  <1>9. \A x : Occ(d, x) \in Nat /\ Occ(e, x) \in Nat /\ Occ(e, x) <= Occ(d, x) + 1
                       /\ (x \notin ToSet(a) => Occ(e, x) = Occ(d, x))
    BY <1>0, <1>1, <1>3, OccConcat
  <1>10. ASSUME NEW x \in ToSet(a), x \in W \cup Memory(r, B, P) PROVE x \in ToSet(p)
    <2>1. x \in ToSet(q) /\ x \in Nat
      BY <1>0, <1>1, NatElements
    <2>2. x \notin W
      <3>1. \A y \in W : x < y
        BY <1>0, <1>2, <2>1 DEF OrderedAt
      <3> QED
        BY <1>0, <2>1, <3>1
    <2>3. x \notin ToSet(r) /\ x \notin ToSet(B[t])
      <3>1. \A y \in ToSet(r) \cup ToSet(B[t]) : x < y
        BY <1>0, <1>2, <2>1 DEF OrderedAt, Below
      <3> QED
        BY <1>0, <2>1, <3>1
    <2>4. ASSUME NEW u \in Ids, u # t PROVE x \notin ToSet(B[u]) /\ x \notin ToSet(P[u])
      <3>1. P[u] = Q[u]
        BY <1>0, <2>4 DEF OneChanged
      <3>2. Apart(B, Q)
        BY <1>0 DEF Path, Ordered
      <3> QED
        BY <1>0, <2>1, <2>4, <3>1, <3>2 DEF Apart
    <2>5. PICK u \in Ids : x \in ToSet(B[u]) \/ x \in ToSet(P[u])
      BY <1>0, <1>10, <2>2, <2>3, MemoryElement
    <2>6. u = t /\ P[t] = p
      BY <1>0, <2>4, <2>5 DEF OneChanged
    <2> QED
      BY <1>0, <2>3, <2>5, <2>6
  <1>11. ASSUME NEW x \in W \cup Memory(r, B, P) PROVE Occ(e, x) <= m
    <2>1. Occ(d, x) <= may
      BY <1>0, <1>5 DEF Path, SentOften
    <2>2. CASE x \notin ToSet(a)
      BY <1>0, <1>9, <2>1, <2>2
    <2>3. CASE x \in ToSet(a)
      <3>2. x \in ToSet(p)
        BY <1>0, <1>10, <2>3
      <3>3. p # << >> /\ a # << >>
        BY <1>0, <2>3, <3>2, EmptyElements
      <3> QED
        BY <1>0, <1>9, <2>1, <3>3
    <2> QED
      BY <1>0, <2>2, <2>3
  <1>12. ASSUME NEW x \in Nat PROVE Occ(e, x) <= m + 1
    <2>1. CASE x \notin ToSet(a)
      <3>1. Occ(e, x) <= may + 1
        BY <1>0, <1>9, <2>1 DEF Path, SentOften
      <3> QED
        BY <1>0, <1>9, <3>1
    <2>2. CASE x \in ToSet(a)
      <3>1. Occ(d, x) <= may
        BY <1>0, <1>1, <1>6, <2>2 DEF Path, SentOften
      <3> QED
        BY <1>0, <1>9, <3>1
    <2> QED
      BY <1>0, <2>1, <2>2
  <1> QED
    BY <1>0, <1>5, <1>7, <1>8, <1>11, <1>12 DEF Path, SentOften
-----------------------------------------------------------------------------
(* Steps of the files *)

\* The lines of a file are queries.
LEMMA LinesAreNumbers ==
    ASSUME NEW F \in Seq(File), NEW f \in DOMAIN F
    PROVE  F[f].lines \in Seq(Nat) /\ \A x \in ToSet(F[f].lines) : x \in Nat
  <1>1. F[f] \in File
    OBVIOUS
  <1>2. F[f].lines \in Seq(Nat)
    BY <1>1, FileFields, Constants
  <1> QED
    BY <1>2, NatElements

\* Waiting queries and those being read are queries.
LEMMA WaitingAreNumbers ==
    ASSUME NEW F \in Seq(File), NEW l, AtFile(l) => l.file \in DOMAIN F
    PROVE  WaitingLines(F, l) \subseteq Nat /\ ReadingLines(F, l) \subseteq Nat
  <1>1. ASSUME NEW x \in WaitingLines(F, l) PROVE x \in Nat
    <2>1. PICK f \in DOMAIN F : x \in ToSet(F[f].lines)
      BY WaitingElement
    <2> QED
      BY <2>1, LinesAreNumbers
  <1>2. ASSUME NEW x \in ReadingLines(F, l) PROVE x \in Nat
    BY LinesAreNumbers DEF ReadingLines
  <1> QED
    BY <1>1, <1>2

\* The lines of file c have become s.
Rewritten(F, G, c, s) ==
    /\ G \in Seq(File) /\ Len(G) = Len(F) /\ DOMAIN G = DOMAIN F
    /\ \A f \in DOMAIN F : /\ G[f].open = F[f].open /\ G[f].onDisk = F[f].onDisk
                           /\ f # c => G[f].lines = F[f].lines
    /\ G[c].lines = s

\* A query is appended to the open file.
LEMMA WriteToLast ==
    ASSUME NEW F \in Seq(File), NEW w \in Nat, NEW v \in Nat, w < v, FilesOrdered(F, w),
           NEW c \in DOMAIN F, F[c].open, NEW s, Appended(F[c].lines, v, s),
           NEW G, Rewritten(F, G, c, s), NEW l, AtFile(l) => l.file \in DOMAIN F /\ l.file # c
    PROVE  /\ FilesOrdered(G, v)
           /\ WaitingLines(G, l) = WaitingLines(F, l) \cup {v}
           /\ ReadingLines(G, l) = ReadingLines(F, l)
  <1>1. /\ DOMAIN G = DOMAIN F /\ Len(G) = Len(F) /\ G[c].lines = s
        /\ \A f \in DOMAIN F : /\ G[f].open = F[f].open /\ G[f].onDisk = F[f].onDisk
                               /\ f # c => G[f].lines = F[f].lines
    BY DEF Rewritten
  <1>2. \A f \in DOMAIN F : F[f].lines \in Seq(Nat) /\ \A x \in ToSet(F[f].lines) : x \in Nat
    BY LinesAreNumbers
  <1>3. ASSUME NEW f \in DOMAIN F, NEW x \in ToSet(F[f].lines) PROVE x < v /\ x <= v
    <2>1. x \in Nat /\ x <= w
      BY <1>2 DEF FilesOrdered
    <2> QED
      BY <2>1
  <1>4. s \in Seq(Nat) /\ ToSet(s) = ToSet(F[c].lines) \cup {v}
    <2>1. PICK o \in Seq(Nat) : o = F[c].lines
      BY <1>2
    <2>2. Appended(o, v, s)
      BY <2>1
    <2>3. s \in Seq(Nat)
      BY <2>2, AppendSet
    <2>4. ASSUME NEW x PROVE x \in ToSet(s) <=> x \in ToSet(o) \/ x = v
      BY <2>2, AppendSet
    <2> QED
      BY <2>1, <2>3, <2>4
  <1>5. Incr(s)
    BY <1>2, <1>3, AppendGrows DEF FilesOrdered
  <1>6. c = Len(F) /\ F[c].onDisk /\ Len(F) \in Nat /\ DOMAIN F = 1 .. Len(F)
    BY DEF FilesOrdered
  <1>7. ASSUME NEW f \in DOMAIN G
        PROVE  /\ G[f].open => f = Len(G) /\ G[f].onDisk
               /\ Incr(G[f].lines)
               /\ \A x \in ToSet(G[f].lines) : x <= v
    <2>1. G[f].open => f = Len(G) /\ G[f].onDisk
      BY <1>1 DEF FilesOrdered
    <2>2. Incr(G[f].lines)
      BY <1>1, <1>5 DEF FilesOrdered
    <2>3. \A x \in ToSet(G[f].lines) : x <= v
      BY <1>1, <1>3, <1>4
    <2> QED
      BY <2>1, <2>2, <2>3
  <1>8. ASSUME NEW f \in DOMAIN G, NEW g \in DOMAIN G, f < g PROVE Below(G[f].lines, G[g].lines)
    <2>1. f # c /\ f \in DOMAIN F /\ g \in DOMAIN F
      BY <1>1, <1>6, <1>8
    <2>2. G[f].lines = F[f].lines /\ Below(F[f].lines, F[g].lines)
      BY <1>1, <1>8, <2>1 DEF FilesOrdered
    <2>3. CASE g = c
      <3>1. G[g].lines = s /\ ToSet(s) = ToSet(F[g].lines) \cup {v}
        BY <1>1, <1>4, <2>3
      <3> QED
        BY <1>3, <2>1, <2>2, <3>1 DEF Below
    <2>4. CASE g # c
      BY <1>1, <2>1, <2>2, <2>4
    <2> QED
      BY <2>3, <2>4
  <1>9. FilesOrdered(G, v)
    BY <1>7, <1>8 DEF FilesOrdered
  <1>10. ASSUME NEW x PROVE x \in WaitingLines(G, l) <=> x \in WaitingLines(F, l) \/ x = v
    <2>1. ASSUME x \in WaitingLines(G, l) PROVE x \in WaitingLines(F, l) \/ x = v
      <3>1. PICK f \in DOMAIN F : /\ F[f].onDisk /\ ~(AtFile(l) /\ f = l.file)
                                  /\ x \in ToSet(G[f].lines)
        BY <1>1, <2>1, WaitingElement
      <3>2. x \in ToSet(F[f].lines) \/ x = v
        BY <1>1, <1>4, <3>1
      <3> QED
        BY <3>1, <3>2, WaitingElement
    <2>2. ASSUME x \in WaitingLines(F, l) PROVE x \in WaitingLines(G, l)
      <3>1. PICK f \in DOMAIN F : /\ F[f].onDisk /\ ~(AtFile(l) /\ f = l.file)
                                  /\ x \in ToSet(F[f].lines)
        BY <2>2, WaitingElement
      <3>2. x \in ToSet(G[f].lines)
        BY <1>1, <1>4, <3>1
      <3> QED
        BY <1>1, <3>1, <3>2, WaitingElement
    <2>3. ASSUME x = v PROVE x \in WaitingLines(G, l)
      <3>1. x \in ToSet(G[c].lines)
        BY <1>1, <1>4, <2>3
      <3> QED
        BY <1>1, <1>6, <3>1, WaitingElement
    <2> QED
      BY <2>1, <2>2, <2>3
  <1>11. ReadingLines(G, l) = ReadingLines(F, l)
    BY <1>1 DEF ReadingLines
  <1> QED
    BY <1>9, <1>10, <1>11

\* G is F with a new open file that holds v.
NewLast(F, G, v) ==
    /\ G \in Seq(File) /\ Len(G) = Len(F) + 1 /\ DOMAIN G = DOMAIN F \cup {Len(F) + 1}
    /\ \A f \in DOMAIN F : /\ G[f].open = F[f].open /\ G[f].onDisk = F[f].onDisk
                           /\ G[f].lines = F[f].lines /\ f < Len(F) + 1
    /\ G[Len(F) + 1].lines = <<v>> /\ G[Len(F) + 1].open /\ G[Len(F) + 1].onDisk

\* A sequence of one element.
LEMMA OneElement ==
    ASSUME NEW v PROVE ToSet(<<v>>) = {v} /\ Incr(<<v>>)
  BY DEF ToSet, Incr

\* A query written to a new file waits behind all others.
LEMMA WriteToNew ==
    ASSUME NEW F \in Seq(File), NEW w \in Nat, NEW v \in Nat, w < v, FilesOrdered(F, w),
           \A f \in DOMAIN F : ~F[f].open,
           NEW G, NewLast(F, G, v), NEW l, AtFile(l) => l.file \in DOMAIN F
    PROVE  /\ FilesOrdered(G, v)
           /\ WaitingLines(G, l) = WaitingLines(F, l) \cup {v}
           /\ ReadingLines(G, l) = ReadingLines(F, l)
  <1>0. PICK c \in Nat : c = Len(F) + 1
    OBVIOUS
  <1>1. /\ DOMAIN G = DOMAIN F \cup {c} /\ Len(G) = c
        /\ \A f \in DOMAIN F : /\ ~G[f].open /\ G[f].onDisk = F[f].onDisk /\ G[f].lines = F[f].lines
                               /\ f < c /\ f \in Nat
        /\ G[c].lines = <<v>> /\ G[c].open /\ G[c].onDisk /\ c \notin DOMAIN F
    <2>1. DOMAIN F = 1 .. Len(F) /\ Len(F) \in Nat
      OBVIOUS
    <2> QED
      BY <1>0, <2>1 DEF NewLast
  <1>3. ASSUME NEW f \in DOMAIN F, NEW x \in ToSet(F[f].lines) PROVE x < v /\ x <= v
    <2>1. x \in Nat /\ x <= w
      BY LinesAreNumbers DEF FilesOrdered
    <2> QED
      BY <2>1
  <1>4. ToSet(<<v>>) = {v} /\ Incr(<<v>>)
    BY OneElement
  <1>7. ASSUME NEW f \in DOMAIN G
        PROVE  /\ G[f].open => f = Len(G) /\ G[f].onDisk
               /\ Incr(G[f].lines)
               /\ \A x \in ToSet(G[f].lines) : x <= v
    <2>1. CASE f = c
      <3>1. \A x \in ToSet(G[f].lines) : x = v
        BY <1>1, <1>4, <2>1
      <3>2. \A x \in ToSet(G[f].lines) : x <= v
        BY <3>1
      <3> QED
        BY <1>1, <1>4, <2>1, <3>2
    <2>2. CASE f \in DOMAIN F
      BY <1>1, <1>3, <2>2 DEF FilesOrdered
    <2> QED
      BY <1>1, <2>1, <2>2
  <1>8. ASSUME NEW f \in DOMAIN G, NEW g \in DOMAIN G, f < g PROVE Below(G[f].lines, G[g].lines)
    <2>1. f \in DOMAIN F
      BY <1>1, <1>8
    <2>3. CASE g = c
      <3>1. \A y \in ToSet(G[g].lines) : y = v
        BY <1>1, <1>4, <2>3
      <3> QED
        BY <1>1, <1>3, <2>1, <3>1 DEF Below
    <2>4. CASE g \in DOMAIN F
      BY <1>1, <1>8, <2>1, <2>4 DEF FilesOrdered
    <2> QED
      BY <1>1, <2>3, <2>4
  <1>9. FilesOrdered(G, v)
    BY <1>7, <1>8 DEF FilesOrdered
  <1>10. ASSUME NEW x PROVE x \in WaitingLines(G, l) <=> x \in WaitingLines(F, l) \/ x = v
    <2>1. ASSUME x \in WaitingLines(G, l) PROVE x \in WaitingLines(F, l) \/ x = v
      <3>1. PICK f \in DOMAIN G : /\ G[f].onDisk /\ ~(AtFile(l) /\ f = l.file)
                                  /\ x \in ToSet(G[f].lines)
        BY <2>1, WaitingElement
      <3>2. CASE f = c
        BY <1>1, <1>4, <3>1, <3>2
      <3>3. CASE f \in DOMAIN F
        BY <1>1, <3>1, <3>3, WaitingElement
      <3> QED
        BY <1>1, <3>2, <3>3
    <2>2. ASSUME x \in WaitingLines(F, l) PROVE x \in WaitingLines(G, l)
      <3>1. PICK f \in DOMAIN F : /\ F[f].onDisk /\ ~(AtFile(l) /\ f = l.file)
                                  /\ x \in ToSet(F[f].lines)
        BY <2>2, WaitingElement
      <3> QED
        BY <1>1, <3>1, WaitingElement
    <2>3. ASSUME x = v PROVE x \in WaitingLines(G, l)
      <3>1. x \in ToSet(G[c].lines)
        BY <1>1, <1>4, <2>3
      <3>2. ~(AtFile(l) /\ c = l.file)
        BY <1>1
      <3> QED
        BY <1>1, <3>1, <3>2, WaitingElement
    <2> QED
      BY <2>1, <2>2, <2>3
  <1>11. ReadingLines(G, l) = ReadingLines(F, l)
    BY <1>1 DEF ReadingLines
  <1> QED
    BY <1>9, <1>10, <1>11

-----------------------------------------------------------------------------
(* Steps of the orders *)

\* Fewer queries, more of them bad, stay ahead.
LEMMA AheadLess ==
    ASSUME NEW S, NEW d, NEW bad, Ahead(S, d, bad), NEW T, T \subseteq S, NEW worse, bad \subseteq worse
    PROVE  Ahead(T, d, worse)
  BY DEF Ahead

\* A new query comes after all those in the database.
LEMMA AheadGrows ==
    ASSUME NEW S, NEW d, NEW bad, Ahead(S, d, bad), NEW v, \A y \in ToSet(d) : y < v,
           NEW T, T \subseteq S \cup {v}, NEW worse, bad \subseteq worse
    PROVE  Ahead(T, d, worse)
  BY DEF Ahead

\* No thread but t has queries.
Alone(B, Q, t) == \A u \in Ids \ {t} : B[u] = << >> /\ Q[u] = << >>

\* What is in R is in M or settled or bad.
Accounted(R, M, d, bad) == R \subseteq M \cup ToSet(d) \cup bad

\* The only thread that has queries executes the first ones of its batch; R is being read.
LEMMA AheadSends ==
    ASSUME NEW W, NEW R, NEW r, NEW B, NEW Q, NEW d, NEW bad, NEW t, NEW q, NEW n, NEW a, NEW z, NEW e,
           Ordered(W, r, B, Q), Ahead(W \cup R \cup Memory(r, B, Q), d, bad),
           Sends(r, B, Q, d, t, q, n, a, z, e),
           Alone(B, Q, t), Accounted(R, Memory(r, B, Q), d, bad),
           NEW M, M \subseteq Memory(r, B, Q), NEW worse, bad \subseteq worse
    PROVE  Ahead(W \cup R \cup M, e, worse)
  <1>0. /\ d \in Seq(Nat) /\ t \in Ids /\ q \in Seq(Nat) /\ q = Q[t]
        /\ n \in 0 .. Len(q) /\ Split(q, n, a, z) /\ Joined(d, a, e)
        /\ \A u \in Ids \ {t} : B[u] = << >> /\ Q[u] = << >>
        /\ R \subseteq Memory(r, B, Q) \cup ToSet(d) \cup bad
    BY DEF Sends, Alone, Accounted
  <1>1. a \in Seq(Nat) /\ z \in Seq(Nat) /\ ToSet(q) = ToSet(a) \cup ToSet(z)
    BY <1>0, SplitElements
  <1>2. OrderedAt(W, r, B[t], q)
    BY <1>0 DEF Ordered
  <1>3. Below(a, z)
    BY <1>0, <1>2, SplitGrows DEF OrderedAt
  <1>4. ToSet(e) = ToSet(d) \cup ToSet(a)
    BY <1>0, <1>1, ConcatElements
  <1>5. \A y \in ToSet(a) : \A x \in W \cup ToSet(r) \cup ToSet(B[t]) \cup ToSet(z) : y < x
    BY <1>0, <1>1, <1>2, <1>3 DEF OrderedAt, Below
  <1>6. \A x \in Memory(r, B, Q) : x \in ToSet(r) \cup ToSet(B[t]) \cup ToSet(q)
    <2> SUFFICES ASSUME NEW x \in Memory(r, B, Q), x \notin ToSet(r)
                 PROVE  x \in ToSet(B[t]) \cup ToSet(q)
      OBVIOUS
    <2>1. PICK u \in Ids : x \in ToSet(B[u]) \/ x \in ToSet(Q[u])
      BY <1>0, MemoryElement
    <2>2. u = t
      BY <1>0, <2>1, EmptyElements
    <2> QED
      BY <1>0, <2>1, <2>2
  <1>7. ASSUME NEW x \in (W \cup R \cup M) \ (ToSet(e) \cup worse), NEW y \in ToSet(e) PROVE y < x
    <2>1. x \notin ToSet(d) /\ x \notin ToSet(a) /\ x \notin bad
      BY <1>0, <1>4
    <2>2. x \in W \/ x \in Memory(r, B, Q)
      BY <1>0, <2>1
    <2>3. CASE y \in ToSet(d)
      BY <1>0, <2>1, <2>2, <2>3 DEF Ahead
    <2>4. CASE y \in ToSet(a)
      <3>1. x \in W \cup ToSet(r) \cup ToSet(B[t]) \cup ToSet(z)
        BY <1>0, <1>1, <1>6, <2>1, <2>2
      <3> QED
        BY <1>0, <1>5, <2>4, <3>1
    <2> QED
      BY <1>0, <1>4, <2>3, <2>4
  <1> QED
    BY <1>0, <1>7 DEF Ahead

\* Files that hold less, the closed ones as before, and fewer queries in memory and database.
LEMMA OlderShrinks ==
    ASSUME NEW F, NEW S, FromOlder(F, S), NEW T, T \subseteq S, NEW G, OnDisk(G) \subseteq OnDisk(F),
           \A f \in OnDisk(G) : /\ ToSet(G[f].lines) \subseteq ToSet(F[f].lines)
                                /\ F[f].open \/ (ToSet(G[f].lines) = ToSet(F[f].lines) /\ ~G[f].open)
    PROVE  FromOlder(G, T)
  <1> SUFFICES ASSUME NEW f \in OnDisk(G), NEW x \in ToSet(G[f].lines), NEW y \in T
               PROVE  y < x \/ (y \in ToSet(G[f].lines) /\ ~G[f].open)
    BY DEF FromOlder
  <1>1. f \in OnDisk(F) /\ x \in ToSet(F[f].lines) /\ y \in S
    OBVIOUS
  <1>2. y < x \/ (y \in ToSet(F[f].lines) /\ ~F[f].open)
    BY <1>1 DEF FromOlder
  <1> QED
    BY <1>2

\* The same with the same files.
LEMMA OlderSame ==
    ASSUME NEW F, NEW G, SameContents(F, G), NEW S, FromOlder(F, S), NEW T, T \subseteq S
    PROVE  FromOlder(G, T)
  <1>1. OnDisk(G) \subseteq OnDisk(F)
    BY DEF OnDisk, SameContents
  <1>2. ASSUME NEW f \in OnDisk(G) PROVE G[f].lines = F[f].lines /\ (G[f].open => F[f].open)
    BY DEF OnDisk, SameContents
  <1> QED
    BY <1>1, <1>2, OlderShrinks

\* A query v after all those in memory and database is written to an open file.
LEMMA OlderGrows ==
    ASSUME NEW F, NEW S, FromOlder(F, S), NEW v, \A y \in S : y < v, NEW G,
           \A f \in OnDisk(G) : \A x \in ToSet(G[f].lines) :
               x = v \/ (f \in OnDisk(F) /\ x \in ToSet(F[f].lines)),
           \A f \in OnDisk(G) : f \in OnDisk(F) =>
               F[f].open \/ (ToSet(G[f].lines) = ToSet(F[f].lines) /\ ~G[f].open)
    PROVE  FromOlder(G, S)
  <1> SUFFICES ASSUME NEW f \in OnDisk(G), NEW x \in ToSet(G[f].lines), NEW y \in S, x # v
               PROVE  y < x \/ (y \in ToSet(G[f].lines) /\ ~G[f].open)
    BY DEF FromOlder
  <1>1. f \in OnDisk(F) /\ x \in ToSet(F[f].lines)
    OBVIOUS
  <1>2. y < x \/ (y \in ToSet(F[f].lines) /\ ~F[f].open)
    BY <1>1 DEF FromOlder
  <1> QED
    BY <1>1, <1>2

\* The oldest file, which is closed, is read into memory.
LEMMA OlderOpens ==
    ASSUME NEW F, NEW w, FilesOrdered(F, w), DOMAIN F \subseteq Nat, NEW S, FromOlder(F, S),
           NEW c \in OnDisk(F), ~F[c].open, \A g \in OnDisk(F) : c <= g,
           NEW T, T \subseteq S \cup ToSet(F[c].lines)
    PROVE  FromOlder(F, T)
  <1> SUFFICES ASSUME NEW f \in OnDisk(F), NEW x \in ToSet(F[f].lines), NEW y \in ToSet(F[c].lines), f # c
               PROVE  y < x
    BY DEF FromOlder
  <1>1. c < f /\ c \in DOMAIN F /\ f \in DOMAIN F
    BY DEF OnDisk
  <1> QED
    BY <1>1 DEF FilesOrdered, Below

-----------------------------------------------------------------------------
(* Where the written queries are *)

Waiting == WaitingLines(files, loader)
Reading == ReadingLines(files, loader)
Held == Waiting \cup Reading \cup InMemory \cup Settled

\* What LossOnlyAtEnd says of a step.
LossStep == Lost' \subseteq Lost \cup damaged' \/ Terminating \/ life' = "down"

\* The queries on the disk are waiting or in the file being read.
LEMMA FilesHold ==
    ASSUME NEW F, NEW l, AtFile(l) => l.file \in DOMAIN F
    PROVE  UNION {ToSet(F[f].lines) : f \in {g \in DOMAIN F : F[g].onDisk}}
              = WaitingLines(F, l) \cup ReadingLines(F, l)
  BY DEF WaitingLines, ReadingLines, OnDisk

\* A query is lost when nothing holds it.
LEMMA LostNow ==
    ASSUME AtFile(loader) => loader.file \in DOMAIN files
    PROVE  Lost = (1 .. written) \ Held
  BY FilesHold DEF Lost, Held, InFiles, Waiting, Reading

\* The same in the next state.
LEMMA LostNext ==
    ASSUME (AtFile(loader) => loader.file \in DOMAIN files)'
    PROVE  Lost' = (1 .. written') \ Held'
  <1>1. InFiles' = Waiting' \cup Reading'
    BY FilesHold DEF InFiles, Waiting, Reading, AtFile
  <1> QED
    BY <1>1 DEF Lost, Held

\* Nothing is lost when no more is held before the step than after it, but for damaged lines.
LEMMA LossHeld ==
    ASSUME AtFile(loader) => loader.file \in DOMAIN files,
           (AtFile(loader) => loader.file \in DOMAIN files)',
           NEW S, 1 .. written' \subseteq 1 .. written \cup S, Held \cup S \subseteq Held' \cup damaged'
    PROVE  LossStep
  BY LostNow, LostNext DEF LossStep

\* The types of the parts of the path.
LEMMA Types ==
    ASSUME TypeOK, SqlInv
    PROVE  /\ loader \in LoaderState(DOMAIN files) /\ loader.rest \in Seq(Queries)
           /\ loader.rest \in Seq(Nat) /\ db \in Seq(Nat)
           /\ \A t \in Ids : buff[t] \in Seq(Nat) /\ queue[t] \in Seq(Nat)
           /\ failed \in SUBSET Nat /\ written \in Nat /\ crashes + reruns \in Nat
           /\ AtFile(loader) => loader.file \in DOMAIN files
           /\ HasFile(loader) => loader.file \in DOMAIN files
           /\ Waiting \subseteq Nat /\ Reading \subseteq Nat
           /\ InMemory = Memory(loader.rest, buff, queue)
  <1>1. loader \in LoaderState(DOMAIN files)
    BY DEF TypeOK, LoaderState
  <1>2. loader.rest \in Seq(Queries)
    BY <1>1, LoaderFields
  <1>3. loader.rest \in Seq(Nat) /\ db \in Seq(Nat)
    BY <1>2, Constants DEF TypeOK
  <1>4. failed \in SUBSET Nat /\ written \in Nat /\ crashes + reruns \in Nat
    BY Constants DEF TypeOK
  <1>5. /\ AtFile(loader) => loader.file \in DOMAIN files
        /\ HasFile(loader) => loader.file \in DOMAIN files
    BY DEF SqlInv, ClosedInTime, InTime, AtFile, HasFile
  <1>6. Waiting \subseteq Nat /\ Reading \subseteq Nat
    BY <1>5, WaitingAreNumbers DEF Waiting, Reading, TypeOK
  <1>7. ASSUME NEW t \in Ids PROVE buff[t] \in Seq(Nat) /\ queue[t] \in Seq(Nat)
    <2>1. buff[t] \in Seq(Queries)
      BY DEF TypeOK
    <2>2. queue[t] \in Seq(Queries)
      BY DEF TypeOK
    <2> QED
      BY <2>1, <2>2, Constants
  <1> QED
    BY <1>1, <1>2, <1>3, <1>4, <1>5, <1>6, <1>7, MemoryNow

\* The path as the state has it.
LEMMA PathNow ==
    ASSUME SqlInv
    PROVE  Path(Waiting, loader.rest, buff, queue, db, crashes + reruns, written)
  BY DEF SqlInv, PathInv, Waiting

-----------------------------------------------------------------------------
(* Steps that move queries through memory *)

\* The types of what such a step changes.
MemoryTypes ==
    /\ loader \in LoaderState(DOMAIN files)
    /\ buff \in [Ids -> Seq(Queries)]
    /\ queue \in [Ids -> Seq(Queries)]
    /\ \A t \in Ids : Len(queue[t]) <= ConcatLimit
    /\ store \in [Ids -> StorePc]
    /\ sqlError \in [Ids -> BOOLEAN]
    /\ joined \subseteq Ids
    /\ db \in Seq(Queries) /\ failed \subseteq Queries /\ damaged \subseteq Queries
    /\ reruns \in Nat

\* What a step that moves queries through memory leaves alone.
Moves ==
    /\ UNCHANGED <<inotify, threads, life, written, files, writeError, events, qload, terms, crashes>>
    /\ \/ loader' = loader
       \/ /\ loader.pc = "read" /\ loader'.pc \in {"read", "dangling"} /\ loader'.file = loader.file
          /\ ToSet(loader'.rest) \subseteq ToSet(loader.rest)

\* What the step leaves of the queries in memory and of the settled ones.
Lossless == InMemory \cup Settled \subseteq InMemory' \cup Settled' \cup damaged'

\* Such a step leaves the files and what is known of them.
LEMMA MoveFrame ==
    ASSUME TypeOK, SqlInv, Moves
    PROVE  /\ Waiting' = Waiting /\ Reading' = Reading
           /\ FilesOrdered(files, written)' /\ ClosedInTime' /\ KnowsOldest' /\ LifeInv'
           /\ Terminating' = Terminating /\ (Strict' <=> Strict) /\ RestInv'
           /\ (AtFile(loader) => loader.file \in DOMAIN files)'
  <1>1. /\ inotify' = inotify /\ threads' = threads /\ life' = life /\ written' = written
        /\ files' = files /\ events' = events /\ qload' = qload /\ terms' = terms
    BY DEF Moves
  <1>2. /\ (AtFile(loader') <=> AtFile(loader)) /\ (HasFile(loader') <=> HasFile(loader))
        /\ loader'.file = loader.file /\ (loader'.pc = "start" <=> loader.pc = "start")
        /\ loader' = loader \/ AtFile(loader)
        /\ ToSet(loader'.rest) \subseteq ToSet(loader.rest)
    BY DEF Moves, AtFile, HasFile
  <1>3. Waiting' = Waiting /\ Reading' = Reading
    BY <1>1, <1>2 DEF Waiting, Reading, WaitingLines, ReadingLines
  <1>4. FilesOrdered(files, written)'
    BY <1>1 DEF SqlInv
  <1>5. ClosedInTime'
    BY <1>1, <1>2 DEF SqlInv, ClosedInTime, InTime
  <1>6. KnowsOldest'
    <2>1. \A g \in OnDisk(files) : Finds(files', loader', events', qload', g) <=> Finds(files, loader, events, qload, g)
      BY <1>1, <1>2 DEF Finds
    <2>2. OnDisk(files') = OnDisk(files)
      BY <1>1
    <2>3. Knows(files, loader, events, qload, life, inotify)
      BY DEF SqlInv, KnowsOldest
    <2>4. ~AtFile(loader') => loader'.rest = << >>
      BY <1>2, <2>3 DEF Knows
    <2>5. Knows(files', loader', events', qload', life', inotify')
      BY <1>1, <1>2, <2>1, <2>2, <2>3, <2>4 DEF Knows
    <2> QED
      BY <2>5 DEF KnowsOldest
  <1>7. LifeInv'
    BY <1>1, <1>2 DEF SqlInv, LifeInv, Terminating
  <1>8. Terminating' = Terminating /\ (Strict' <=> Strict)
    BY <1>1 DEF Terminating, Strict
  <1>9. RestInv'
    BY <1>2, <1>3 DEF SqlInv, RestInv, Reading
  <1>10. (AtFile(loader) => loader.file \in DOMAIN files)'
    BY <1>1, <1>2, Types
  <1> QED
    BY <1>3, <1>4, <1>5, <1>6, <1>7, <1>8, <1>9, <1>10

\* What a step that moves queries through memory has to keep.
LEMMA MoveStep ==
    ASSUME TypeOK, SqlInv, Moves, MemoryTypes', ThreadsInv',
           Path(Waiting, loader'.rest, buff', queue', db', crashes + reruns', written),
           InMemory' \cup ToSet(db') \subseteq InMemory \cup ToSet(db),
           Strict => Ahead(Waiting \cup Reading \cup InMemory', db', failed' \cup damaged'),
           Careful' => Careful /\ Lossless, Settled \cup damaged \subseteq Settled' \cup damaged'
    PROVE  TypeOK' /\ SqlInv' /\ LossStep
  <1>1. /\ Waiting' = Waiting /\ Reading' = Reading
        /\ FilesOrdered(files, written)' /\ ClosedInTime' /\ KnowsOldest' /\ LifeInv'
        /\ Terminating' = Terminating /\ (Strict' <=> Strict) /\ RestInv'
        /\ (AtFile(loader) => loader.file \in DOMAIN files)'
    BY MoveFrame
  <1>2. /\ inotify' = inotify /\ threads' = threads /\ life' = life /\ written' = written
        /\ files' = files /\ events' = events /\ qload' = qload /\ terms' = terms
        /\ crashes' = crashes /\ writeError' = writeError
    BY DEF Moves
  <1>3. TypeOK'
    <2>1. /\ inotify' \in BOOLEAN /\ threads' \in 1 .. StoreThreads
          /\ life' \in {"up", "flush", "wait", "delete", "join", "down"}
          /\ written' \in 0 .. MaxQueries /\ files' \in Seq(File)
          /\ writeError' \in BOOLEAN /\ events' \in Seq(DOMAIN files')
          /\ qload' \subseteq DOMAIN files' /\ terms' \in Nat /\ crashes' \in Nat
      BY <1>2 DEF TypeOK
    <2>2. Cardinality(OpenFiles') <= 1
      BY <1>2 DEF TypeOK, OpenFiles
    <2>3. /\ loader' \in [pc : LoaderPc, file : {0} \cup DOMAIN files', rest : Seq(Queries)]
          /\ reruns' \in Nat /\ joined' \subseteq Ids
      BY DEF MemoryTypes, LoaderState
    <2>4. /\ buff' \in [Ids -> Seq(Queries)] /\ queue' \in [Ids -> Seq(Queries)]
          /\ \A t \in Ids : Len(queue'[t]) <= ConcatLimit
      BY DEF MemoryTypes
    <2>5. /\ store' \in [Ids -> StorePc] /\ sqlError' \in [Ids -> BOOLEAN]
          /\ db' \in Seq(Queries) /\ failed' \subseteq Queries /\ damaged' \subseteq Queries
      BY DEF MemoryTypes
    <2> QED
      BY <2>1, <2>2, <2>3, <2>4, <2>5 DEF TypeOK
  <1>4. PathInv'
    BY <1>1, <1>2 DEF PathInv, Waiting
  <1>5. OlderInv'
    <2>1. FromOlder(files, InMemory \cup ToSet(db))
      BY DEF SqlInv, OlderInv
    <2>2. FromOlder(files, InMemory' \cup ToSet(db'))
      BY <2>1 DEF FromOlder
    <2> QED
      BY <1>2, <2>2 DEF OlderInv
  <1>6. AheadInv'
    BY <1>1 DEF AheadInv, Waiting, Reading
  <1>7. ReadInv'
    <2> SUFFICES ASSUME Careful' PROVE Reading' \subseteq InMemory' \cup Settled' \cup damaged'
      BY DEF ReadInv, Reading
    <2>1. Reading \subseteq InMemory \cup Settled \cup damaged
      BY DEF SqlInv, ReadInv, Reading
    <2> QED
      BY <1>1, <2>1 DEF Lossless
  <1>8. SqlInv'
    BY <1>1, <1>4, <1>5, <1>6, <1>7 DEF SqlInv
  <1>9. LossStep
    <2>1. CASE Terminating
      BY <2>1 DEF LossStep
    <2>2. CASE ~Terminating
      <3>1. Careful'
        BY <1>1, <2>2 DEF Careful
      <3>2. Held \cup {} \subseteq Held' \cup damaged'
        BY <1>1, <3>1 DEF Held, Lossless
      <3>3. 1 .. written' \subseteq 1 .. written \cup {}
        BY <1>2
      <3>4. AtFile(loader) => loader.file \in DOMAIN files
        BY Types
      <3> QED
        BY <1>1, <3>2, <3>3, <3>4, LossHeld
    <2> QED
      BY <2>1, <2>2
  <1> QED
    BY <1>3, <1>8, <1>9

\* The same for a step that executes nothing.
LEMMA KeepStep ==
    ASSUME TypeOK, SqlInv, Moves, MemoryTypes', ThreadsInv', UNCHANGED <<db, failed, reruns>>,
           Ordered(Waiting, loader'.rest, buff', queue'), InMemory' \subseteq InMemory,
           damaged \subseteq damaged',
           Careful' => Careful /\ InMemory \subseteq InMemory' \cup damaged'
    PROVE  TypeOK' /\ SqlInv' /\ LossStep
  <1>1. db' = db /\ failed' = failed /\ reruns' = reruns
    OBVIOUS
  <1>2. InMemory = Memory(loader.rest, buff, queue) /\ InMemory' = Memory(loader'.rest, buff', queue')
    BY DEF InMemory, AtStores, Memory
  <1>3. Path(Waiting, loader'.rest, buff', queue', db', crashes + reruns', written)
    <2>1. Path(Waiting, loader.rest, buff, queue, db, crashes + reruns, written)
      BY PathNow
    <2>2. Path(Waiting, loader'.rest, buff', queue', db, crashes + reruns, written)
      BY <1>2, <2>1, PathDrops
    <2> QED
      BY <1>1, <2>2
  <1>4. Strict => Ahead(Waiting \cup Reading \cup InMemory', db', failed' \cup damaged')
    <2>1. Strict => Ahead(Waiting \cup Reading \cup InMemory, db, failed \cup damaged)
      BY DEF SqlInv, AheadInv, Waiting, Reading
    <2>2. Waiting \cup Reading \cup InMemory' \subseteq Waiting \cup Reading \cup InMemory
          /\ failed \cup damaged \subseteq failed \cup damaged'
      OBVIOUS
    <2> QED
      BY <1>1, <2>1, <2>2, AheadLess
  <1>5. Settled' = Settled
    BY <1>1 DEF Settled
  <1>6. Careful' => Careful /\ Lossless
    BY <1>5 DEF Lossless
  <1>7. InMemory' \cup ToSet(db') \subseteq InMemory \cup ToSet(db)
        /\ Settled \cup damaged \subseteq Settled' \cup damaged'
    BY <1>1, <1>5
  <1> QED
    BY <1>3, <1>4, <1>6, <1>7, MoveStep

\* A function of the threads is changed for t, or not at all.
LEMMA ExceptOne ==
    ASSUME NEW S, NEW f \in [Ids -> S], NEW t \in Ids, NEW x \in S, NEW g, g = [f EXCEPT ![t] = x]
    PROVE  g \in [Ids -> S] /\ OneChanged(f, g, t, x)
  BY DEF OneChanged

\* A function that stays as it is has changed in no place.
LEMMA ExceptNone ==
    ASSUME NEW S, NEW f \in [Ids -> S], NEW t \in Ids, NEW g, g = f
    PROVE  g \in [Ids -> S] /\ OneChanged(f, g, t, f[t])
  BY DEF OneChanged

\* Thread t has the buffer b, the batch q, is at s and has noted the error e after the step; the
\* other threads are as they were.
Sets(t, b, q, s, e) ==
    /\ buff' \in [Ids -> Seq(Queries)] /\ OneChanged(buff, buff', t, b)
    /\ queue' \in [Ids -> Seq(Queries)] /\ OneChanged(queue, queue', t, q)
    /\ store' \in [Ids -> StorePc] /\ OneChanged(store, store', t, s)
    /\ sqlError' \in [Ids -> BOOLEAN] /\ OneChanged(sqlError, sqlError', t, e)
    /\ Len(q) <= ConcatLimit

\* What is known of all threads is kept by a step of one.
LEMMA ThreadSets ==
    ASSUME TypeOK, SqlInv, NEW t \in Ids, NEW b, NEW q, NEW s, NEW e, Sets(t, b, q, s, e),
           ThreadOk(t, b, q, s, e), UNCHANGED <<threads, life>>
    PROVE  ThreadsInv' /\ \A u \in Ids : Len(queue'[u]) <= ConcatLimit
  <1>1. threads' = threads /\ life' = life /\ Terminating' = Terminating
    BY DEF Terminating
  <1>2. ASSUME NEW u \in Ids PROVE ThreadOk(u, buff[u], queue[u], store[u], sqlError[u])'
    <2>1. CASE u = t
      BY <1>1, <2>1 DEF Sets, OneChanged, ThreadOk
    <2>2. CASE u # t
      <3>1. /\ buff'[u] = buff[u] /\ queue'[u] = queue[u] /\ store'[u] = store[u]
            /\ sqlError'[u] = sqlError[u]
        BY <2>2 DEF Sets, OneChanged
      <3>2. ThreadOk(u, buff[u], queue[u], store[u], sqlError[u])
        BY DEF SqlInv, ThreadsInv
      <3> QED
        BY <1>1, <3>1, <3>2 DEF ThreadOk
    <2> QED
      BY <2>1, <2>2
  <1>3. ASSUME NEW u \in Ids PROVE Len(queue'[u]) <= ConcatLimit
    <2>1. CASE u = t
      BY <2>1 DEF Sets, OneChanged
    <2>2. CASE u # t
      BY <2>2 DEF Sets, OneChanged, TypeOK
    <2> QED
      BY <2>1, <2>2
  <1> QED
    BY <1>2, <1>3 DEF ThreadsInv

\* A single store thread has number 0, and only it has queries.
LEMMA OnlyThread ==
    ASSUME TypeOK, SqlInv, NEW t \in Ids, t < threads, threads = 1
    PROVE  t = 0 /\ \A u \in Ids \ {t} : buff[u] = << >> /\ queue[u] = << >>
  <1>1. t = 0
    BY Constants
  <1>2. ASSUME NEW u \in Ids \ {t} PROVE buff[u] = << >> /\ queue[u] = << >>
    <2>1. u \in Nat /\ u >= threads
      BY <1>1, Constants
    <2> QED
      BY <2>1 DEF SqlInv, ThreadsInv, ThreadOk
  <1> QED
    BY <1>1, <1>2

\* A thread with work to do is one of the configured ones.
LEMMA ThreadRuns ==
    ASSUME TypeOK, SqlInv, NEW t \in Ids, store[t] # "none"
    PROVE  t < threads
  <1>1. t \in Nat /\ threads \in Nat
    BY Constants DEF TypeOK
  <1>2. ~(t >= threads)
    BY DEF SqlInv, ThreadsInv, ThreadOk
  <1> QED
    BY <1>1, <1>2

\* A thread that has given up does not take that back.
LEMMA CarefulStep ==
    ASSUME TypeOK, SqlInv, NEW t \in Ids, t < threads, NEW b, NEW q, NEW s, NEW e, Sets(t, b, q, s, e),
           UNCHANGED <<threads, life>>,
           Terminating /\ ConcatLimit > 1 /\ GaveUp(store[t], sqlError[t], queue[t]) => GaveUp(s, e, q)
    PROVE  Careful' => Careful /\ (Terminating => ~GaveUp(s, e, q))
  <1>1. threads' = threads /\ Terminating' = Terminating
    BY DEF Terminating
  <1> SUFFICES ASSUME Careful', Terminating PROVE Careful /\ ~GaveUp(s, e, q)
    BY DEF Careful
  <1>2. threads = 1 /\ ConcatLimit > 1 /\ ~GaveUp(store'[0], sqlError'[0], queue'[0])
    BY <1>1 DEF Careful
  <1>3. t = 0
    BY <1>2, OnlyThread
  <1>4. store'[0] = s /\ sqlError'[0] = e /\ queue'[0] = q
    BY <1>3 DEF Sets, OneChanged
  <1> QED
    BY <1>2, <1>3, <1>4 DEF Careful

\* A step of one thread, perhaps with one of the loader, that executes nothing.
LEMMA KeepThread ==
    ASSUME TypeOK, SqlInv, Moves, loader' \in LoaderState(DOMAIN files), NEW t \in Ids, t < threads,
           NEW b, NEW q, NEW s, NEW e, Sets(t, b, q, s, e), ThreadOk(t, b, q, s, e),
           UNCHANGED <<db, failed, damaged, reruns>>, joined' \subseteq Ids,
           NEW r, r = loader'.rest, OrderedAt(Waiting, r, b, q), Incr(r),
           ToSet(r) \subseteq ToSet(loader.rest),
           ToSet(b) \cup ToSet(q) \subseteq ToSet(buff[t]) \cup ToSet(queue[t]) \cup ToSet(loader.rest),
           \/ ToSet(buff[t]) \cup ToSet(queue[t]) \cup ToSet(loader.rest) \subseteq ToSet(b) \cup ToSet(q) \cup ToSet(r)
           \/ Terminating /\ GaveUp(s, e, q),
           Terminating /\ ConcatLimit > 1 /\ GaveUp(store[t], sqlError[t], queue[t]) => GaveUp(s, e, q)
    PROVE  TypeOK' /\ SqlInv' /\ LossStep
  <1>1. threads' = threads /\ life' = life /\ files' = files
    BY DEF Moves
  <1>2. ThreadsInv' /\ \A u \in Ids : Len(queue'[u]) <= ConcatLimit
    BY <1>1, ThreadSets
  <1>3. MemoryTypes'
    <2>1. /\ db' \in Seq(Queries) /\ failed' \subseteq Queries /\ damaged' \subseteq Queries
          /\ reruns' \in Nat
      BY DEF TypeOK
    <2> QED
      BY <1>1, <1>2, <2>1 DEF Sets, MemoryTypes
  <1>4. /\ Ordered(Waiting, r, buff', queue')
        /\ Memory(r, buff', queue') \subseteq Memory(loader.rest, buff, queue)
    <2>1. Ordered(Waiting, loader.rest, buff, queue)
      BY PathNow DEF Path
    <2>2. loader.rest \in Seq(Nat)
      BY Types
    <2>3. PICK B, C, P, Q, W, l : B = buff /\ C = buff' /\ Q = queue /\ P = queue' /\ W = Waiting /\ l = loader.rest
      OBVIOUS
    <2>4. OneChanged(B, C, t, b) /\ OneChanged(Q, P, t, q)
      BY <2>3 DEF Sets
    <2>5. /\ Ordered(W, l, B, Q) /\ l \in Seq(Nat) /\ OrderedAt(W, r, b, q)
          /\ ToSet(r) \subseteq ToSet(l)
          /\ ToSet(b) \cup ToSet(q) \subseteq ToSet(B[t]) \cup ToSet(Q[t]) \cup ToSet(l)
      BY <2>1, <2>2, <2>3
    <2>6. Ordered(W, r, C, P) /\ Memory(r, C, P) \subseteq Memory(l, B, Q)
      BY <2>4, <2>5, OrderedReplace
    <2> QED
      BY <2>3, <2>6
  <1>5. InMemory = Memory(loader.rest, buff, queue) /\ InMemory' = Memory(r, buff', queue')
    BY DEF InMemory, AtStores, Memory
  <1>6. Careful' => Careful /\ (Terminating => ~GaveUp(s, e, q))
    BY <1>1, CarefulStep
  <1>7. Careful' => InMemory \subseteq InMemory' \cup damaged'
    <2> SUFFICES ASSUME Careful', NEW x \in InMemory PROVE x \in InMemory'
      OBVIOUS
    <2>1. ToSet(buff[t]) \cup ToSet(queue[t]) \cup ToSet(loader.rest) \subseteq ToSet(b) \cup ToSet(q) \cup ToSet(r)
      BY <1>6
    <2>2. buff'[t] = b /\ queue'[t] = q
          /\ \A u \in Ids : u # t => buff'[u] = buff[u] /\ queue'[u] = queue[u]
      BY DEF Sets, OneChanged
    <2>3. x \in ToSet(loader.rest) \/ \E u \in Ids : x \in ToSet(buff[u]) \/ x \in ToSet(queue[u])
      BY <1>5, MemoryElement
    <2>4. x \in ToSet(r) \/ \E u \in Ids : x \in ToSet(buff'[u]) \/ x \in ToSet(queue'[u])
      BY <2>1, <2>2, <2>3
    <2> QED
      BY <1>5, <2>4, MemoryElement
  <1>8. damaged \subseteq damaged'
    OBVIOUS
  <1> QED
    BY <1>2, <1>3, <1>4, <1>5, <1>6, <1>7, <1>8, KeepStep

-----------------------------------------------------------------------------
(* The store threads *)

\* What is known of one thread.
LEMMA ThreadNow ==
    ASSUME TypeOK, SqlInv, NEW t \in Ids
    PROVE  /\ buff \in [Ids -> Seq(Queries)] /\ queue \in [Ids -> Seq(Queries)]
           /\ store \in [Ids -> StorePc] /\ sqlError \in [Ids -> BOOLEAN]
           /\ buff[t] \in Seq(Queries) /\ queue[t] \in Seq(Queries)
           /\ store[t] \in StorePc /\ sqlError[t] \in BOOLEAN
           /\ Len(queue[t]) <= ConcatLimit /\ Len(queue[t]) \in Nat
           /\ ThreadOk(t, buff[t], queue[t], store[t], sqlError[t])
           /\ OrderedAt(Waiting, loader.rest, buff[t], queue[t]) /\ Incr(loader.rest)
  <1>1. /\ buff \in [Ids -> Seq(Queries)] /\ queue \in [Ids -> Seq(Queries)]
        /\ store \in [Ids -> StorePc] /\ sqlError \in [Ids -> BOOLEAN]
        /\ Len(queue[t]) <= ConcatLimit
    BY DEF TypeOK
  <1>2. ThreadOk(t, buff[t], queue[t], store[t], sqlError[t])
    BY DEF SqlInv, ThreadsInv
  <1>3. OrderedAt(Waiting, loader.rest, buff[t], queue[t])
    BY PathNow DEF Path, Ordered
  <1>4. Incr(loader.rest)
    BY <1>3 DEF OrderedAt
  <1>5. buff[t] \in Seq(Queries) /\ queue[t] \in Seq(Queries)
    BY <1>1
  <1>6. store[t] \in StorePc /\ sqlError[t] \in BOOLEAN
    BY <1>1
  <1>7. Len(queue[t]) \in Nat
    BY <1>5
  <1> QED
    BY <1>1, <1>2, <1>3, <1>4, <1>5, <1>6, <1>7

\* What a step that moves only a thread's state leaves alone.
OnlyStore == UNCHANGED <<config, life, written, files, writeError, cache, loader, terms, crashes>>

\* Such a step leaves files, loader and life alone.
LEMMA OnlyStoreMoves ==
    ASSUME OnlyStore
    PROVE  Moves /\ loader' = loader /\ threads' = threads /\ life' = life /\ files' = files
  BY DEF OnlyStore, Moves, config, cache

\* A thread moves on with its buffer and batch or drops them when it gives up.
LEMMA StoreKept ==
    ASSUME TypeOK, SqlInv, OnlyStore, NEW t \in Ids, store[t] # "none", joined' \subseteq Ids,
           UNCHANGED <<db, failed, damaged, reruns>>,
           NEW b, NEW q, NEW s, NEW e, Sets(t, b, q, s, e), ThreadOk(t, b, q, s, e),
           Kept(buff[t], b), Kept(queue[t], q),
           (b = buff[t] /\ q = queue[t]) \/ (Terminating /\ GaveUp(s, e, q)),
           Terminating /\ ConcatLimit > 1 /\ GaveUp(store[t], sqlError[t], queue[t]) => GaveUp(s, e, q)
    PROVE  TypeOK' /\ SqlInv' /\ LossStep
  <1>1. Moves /\ loader' = loader
    BY OnlyStoreMoves
  <1>2. t < threads
    BY ThreadRuns
  <1>3. loader' \in LoaderState(DOMAIN files)
    BY <1>1, Types
  <1>4. OrderedAt(Waiting, loader.rest, buff[t], queue[t]) /\ Incr(loader.rest)
    BY ThreadNow
  <1>5. /\ OrderedAt(Waiting, loader.rest, b, q)
        /\ ToSet(b) \subseteq ToSet(buff[t]) /\ ToSet(q) \subseteq ToSet(queue[t])
    BY <1>4, DropOrdered
  <1>6. PICK r : r = loader'.rest /\ r = loader.rest
    BY <1>1
  <1>7. /\ OrderedAt(Waiting, r, b, q) /\ Incr(r) /\ ToSet(r) \subseteq ToSet(loader.rest)
        /\ ToSet(b) \cup ToSet(q) \subseteq ToSet(buff[t]) \cup ToSet(queue[t]) \cup ToSet(loader.rest)
    BY <1>4, <1>5, <1>6
  <1>8. \/ ToSet(buff[t]) \cup ToSet(queue[t]) \cup ToSet(loader.rest) \subseteq ToSet(b) \cup ToSet(q) \cup ToSet(r)
        \/ Terminating /\ GaveUp(s, e, q)
    BY <1>6
  <1> QED
    BY <1>1, <1>2, <1>3, <1>6, <1>7, <1>8, KeepThread

\* StorePop keeps the invariant and loses nothing that may not be lost.
LEMMA StorePopKeeps ==
    ASSUME TypeOK, SqlInv, NEW t \in Ids, StorePop(t)
    PROVE  TypeOK' /\ SqlInv' /\ LossStep
  <1>1. /\ OnlyStore /\ joined' = joined /\ UNCHANGED <<db, failed, damaged, reruns>>
        /\ store[t] = "fill" /\ buff[t] # << >> /\ sqlError' = sqlError /\ Running
    BY DEF StorePop, OnlyStore, counters
  <1>2. /\ Moves /\ loader' = loader /\ threads' = threads /\ life' = life /\ files' = files
        /\ t < threads /\ joined' \subseteq Ids /\ loader' \in LoaderState(DOMAIN files)
    BY <1>1, OnlyStoreMoves, ThreadRuns, Types DEF TypeOK
  <1>3. /\ buff \in [Ids -> Seq(Queries)] /\ queue \in [Ids -> Seq(Queries)]
        /\ store \in [Ids -> StorePc] /\ sqlError \in [Ids -> BOOLEAN]
        /\ buff[t] \in Seq(Queries) /\ queue[t] \in Seq(Queries)
        /\ Len(queue[t]) <= ConcatLimit /\ Len(queue[t]) \in Nat
        /\ ThreadOk(t, buff[t], queue[t], store[t], sqlError[t])
        /\ OrderedAt(Waiting, loader.rest, buff[t], queue[t]) /\ Incr(loader.rest)
    BY ThreadNow
  <1>4. PICK h, b, q, s, e :
            /\ Cut(buff[t], h, b) /\ Appended(queue[t], h, q) /\ e = sqlError[t]
            /\ s = IF BatchFull(Len(queue[t]) + 1) THEN "create"
                   ELSE IF Terminating /\ sqlError[t] THEN "check" ELSE "fill"
    BY DEF Cut, Appended
  <1>5. h \in Queries /\ b \in Seq(Queries) /\ q \in Seq(Queries) /\ Len(q) = Len(queue[t]) + 1
    <2>1. h \in Queries /\ b \in Seq(Queries)
      BY <1>1, <1>3, <1>4 DEF Cut
    <2> QED
      BY <1>3, <1>4, <2>1 DEF Appended
  <1>6. Len(queue[t]) < ConcatLimit /\ ConcatLimit \in Nat
    BY <1>1, <1>3, Constants DEF ThreadOk
  <1>7. Len(q) <= ConcatLimit /\ Len(q) \in Nat
    BY <1>3, <1>5, <1>6
  <1>8. /\ s \in {"fill", "create", "check"} /\ (s = "fill" => Len(q) < ConcatLimit)
        /\ (s = "check" => Terminating /\ e)
    BY <1>4, <1>5, <1>6, <1>7 DEF BatchFull
  <1>9. Sets(t, b, q, s, e)
    <2>1. buff' = [buff EXCEPT ![t] = b]
      BY <1>4 DEF StorePop, Cut
    <2>2. queue' = [queue EXCEPT ![t] = q]
      BY <1>4 DEF StorePop, Appended, Cut
    <2>3. store' = [store EXCEPT ![t] = s] /\ s \in StorePc
      BY <1>4, <1>8 DEF StorePop, StorePc
    <2>4. buff' \in [Ids -> Seq(Queries)] /\ OneChanged(buff, buff', t, b)
      BY <1>3, <1>5, <2>1, ExceptOne
    <2>5. queue' \in [Ids -> Seq(Queries)] /\ OneChanged(queue, queue', t, q)
      BY <1>3, <1>5, <2>2, ExceptOne
    <2>6. store' \in [Ids -> StorePc] /\ OneChanged(store, store', t, s)
      BY <1>3, <2>3, ExceptOne
    <2>7. sqlError' \in [Ids -> BOOLEAN] /\ OneChanged(sqlError, sqlError', t, e)
      BY <1>1, <1>3, <1>4, ExceptNone
    <2> QED
      BY <1>7, <2>4, <2>5, <2>6, <2>7 DEF Sets
  <1>10. ThreadOk(t, b, q, s, e)
    <2>1. life # "down" /\ ~(t >= threads)
      BY <1>1, <1>3 DEF Running, ThreadOk
    <2> QED
      BY <1>8, <2>1 DEF ThreadOk
  <1>11. PICK r : r = loader'.rest /\ r = loader.rest
    BY <1>2
  <1>12. OrderedAt(Waiting, r, b, q) /\ ToSet(b) \cup ToSet(q) = ToSet(buff[t]) \cup ToSet(queue[t])
    <2>1. r \in Seq(Nat) /\ buff[t] \in Seq(Nat) /\ queue[t] \in Seq(Nat)
      BY <1>11, Types
    <2>2. PICK c, p, W : c = buff[t] /\ p = queue[t] /\ W = Waiting
      OBVIOUS
    <2>3. OrderedAt(W, r, c, p) /\ c # << >> /\ Cut(c, h, b) /\ Appended(p, h, q)
      BY <1>1, <1>3, <1>4, <1>11, <2>2
    <2>4. c \in Seq(Nat) /\ p \in Seq(Nat)
      BY <2>1, <2>2
    <2>5. Pops(W, r, c, p, h, b, q)
      BY <2>1, <2>3, <2>4 DEF Pops
    <2>6. OrderedAt(W, r, b, q) /\ ToSet(b) \cup ToSet(q) = ToSet(c) \cup ToSet(p)
      BY <2>5, PopOrdered
    <2> QED
      BY <2>2, <2>6
  <1>13. /\ Incr(r) /\ ToSet(r) \subseteq ToSet(loader.rest)
         /\ ToSet(b) \cup ToSet(q) \subseteq ToSet(buff[t]) \cup ToSet(queue[t]) \cup ToSet(loader.rest)
         /\ ToSet(buff[t]) \cup ToSet(queue[t]) \cup ToSet(loader.rest) \subseteq ToSet(b) \cup ToSet(q) \cup ToSet(r)
    BY <1>3, <1>11, <1>12
  <1>14. Terminating /\ ConcatLimit > 1 /\ GaveUp(store[t], sqlError[t], queue[t]) => GaveUp(s, e, q)
    <2> SUFFICES ASSUME Terminating, ConcatLimit > 1, GaveUp(store[t], sqlError[t], queue[t])
                 PROVE  GaveUp(s, e, q)
      OBVIOUS
    <2>1. sqlError[t] /\ queue[t] = << >>
      BY <1>1 DEF GaveUp
    <2>2. ~BatchFull(Len(queue[t]) + 1)
      BY <1>6, <2>1 DEF BatchFull
    <2> QED
      BY <1>4, <2>1, <2>2 DEF GaveUp
  <1> QED
    BY <1>1, <1>2, <1>9, <1>10, <1>11, <1>12, <1>13, <1>14, KeepThread

\* A thread goes from one place to another with its buffer and batch, or leaves the batch.
LEMMA StoreGoes ==
    ASSUME TypeOK, SqlInv, OnlyStore, Running, NEW t \in Ids, store[t] \in {"fill", "create", "call", "check"},
           UNCHANGED <<buff, joined, db, failed, damaged, reruns>>,
           NEW q, queue' \in [Ids -> Seq(Queries)], OneChanged(queue, queue', t, q), Kept(queue[t], q),
           NEW s \in StorePc, store' \in [Ids -> StorePc], OneChanged(store, store', t, s),
           NEW e \in BOOLEAN, sqlError' \in [Ids -> BOOLEAN], OneChanged(sqlError, sqlError', t, e),
           s \in {"create", "call"} \/ (s = "check" /\ q = << >>)
                \/ (s \in {"fill", "terminated"} /\ q = << >> /\ (s = "terminated" <=> Terminating /\ (e \/ buff[t] = << >>))),
           q = queue[t] \/ (Terminating /\ GaveUp(s, e, q)),
           Terminating /\ ConcatLimit > 1 /\ GaveUp(store[t], sqlError[t], queue[t]) => GaveUp(s, e, q)
    PROVE  TypeOK' /\ SqlInv' /\ LossStep
  <1>1. /\ buff \in [Ids -> Seq(Queries)] /\ buff[t] \in Seq(Queries) /\ queue[t] \in Seq(Queries)
        /\ Len(queue[t]) <= ConcatLimit /\ Len(queue[t]) \in Nat
        /\ ThreadOk(t, buff[t], queue[t], store[t], sqlError[t])
    BY ThreadNow
  <1>2. PICK b : b = buff[t] /\ Kept(buff[t], b)
    BY DEF Kept
  <1>3. Len(q) <= ConcatLimit /\ (q = << >> => Len(q) < ConcatLimit)
    <2>1. CASE q = queue[t]
      <3>1. q = << >> => Len(q) < ConcatLimit
        BY Constants
      <3> QED
        BY <1>1, <2>1, <3>1
    <2>2. CASE q = << >>
      BY <2>2, Constants
    <2> QED
      BY <2>1, <2>2 DEF Kept
  <1>4. buff' \in [Ids -> Seq(Queries)] /\ OneChanged(buff, buff', t, b)
    BY <1>1, <1>2, ExceptNone
  <1>5. Sets(t, b, q, s, e)
    BY <1>3, <1>4 DEF Sets
  <1>6. ThreadOk(t, b, q, s, e)
    <2>1. life # "down" /\ ~(t >= threads)
      BY <1>1 DEF Running, ThreadOk
    <2>2. Terminating => life # "up"
      BY DEF Terminating
    <2> QED
      BY <1>3, <2>1, <2>2 DEF ThreadOk
  <1>7. store[t] # "none" /\ joined' \subseteq Ids
    BY DEF TypeOK
  <1>8. (b = buff[t] /\ q = queue[t]) \/ (Terminating /\ GaveUp(s, e, q))
    BY <1>2
  <1> QED
    BY <1>2, <1>5, <1>6, <1>7, <1>8, StoreKept

\* The batch as it is.
LEMMA BatchStays ==
    ASSUME TypeOK, SqlInv, NEW t \in Ids, queue' = queue
    PROVE  /\ queue' \in [Ids -> Seq(Queries)] /\ OneChanged(queue, queue', t, queue[t])
           /\ Kept(queue[t], queue[t])
  BY ThreadNow, ExceptNone DEF Kept

\* The thread goes to s, and notes e.
LEMMA GoesTo ==
    ASSUME TypeOK, NEW t \in Ids, NEW s \in StorePc, store' = [store EXCEPT ![t] = s]
    PROVE  store' \in [Ids -> StorePc] /\ OneChanged(store, store', t, s)
  <1>1. store \in [Ids -> StorePc]
    BY DEF TypeOK
  <1> QED
    BY <1>1 DEF OneChanged

\* What a step notes of the error of thread t.
LEMMA Notes ==
    ASSUME TypeOK, NEW t \in Ids, NEW e \in BOOLEAN, sqlError' = [sqlError EXCEPT ![t] = e]
    PROVE  sqlError' \in [Ids -> BOOLEAN] /\ OneChanged(sqlError, sqlError', t, e)
  <1>1. sqlError \in [Ids -> BOOLEAN]
    BY DEF TypeOK
  <1> QED
    BY <1>1 DEF OneChanged

\* StorePacketFull keeps the invariant and loses nothing that may not be lost.
LEMMA StorePacketFullKeeps ==
    ASSUME TypeOK, SqlInv, NEW t \in Ids, StorePacketFull(t)
    PROVE  TypeOK' /\ SqlInv' /\ LossStep
  <1>1. /\ OnlyStore /\ Running /\ UNCHANGED <<buff, joined, db, failed, damaged, reruns>>
        /\ store[t] = "fill" /\ queue[t] # << >> /\ queue' = queue /\ sqlError' = sqlError
        /\ store' = [store EXCEPT ![t] = "create"]
    BY DEF StorePacketFull, OnlyStore, counters
  <1>2. /\ queue' \in [Ids -> Seq(Queries)] /\ OneChanged(queue, queue', t, queue[t])
        /\ Kept(queue[t], queue[t])
    BY <1>1, BatchStays
  <1>3. store' \in [Ids -> StorePc] /\ OneChanged(store, store', t, "create")
    BY <1>1, GoesTo DEF StorePc
  <1>4. /\ sqlError' \in [Ids -> BOOLEAN] /\ OneChanged(sqlError, sqlError', t, sqlError[t])
        /\ sqlError[t] \in BOOLEAN
    BY <1>1, ThreadNow, ExceptNone
  <1>5. ~GaveUp(store[t], sqlError[t], queue[t])
    BY <1>1 DEF GaveUp
  <1> QED
    BY <1>1, <1>2, <1>3, <1>4, <1>5, StoreGoes DEF StorePc

\* StoreEmpty keeps the invariant and loses nothing that may not be lost.
LEMMA StoreEmptyKeeps ==
    ASSUME TypeOK, SqlInv, NEW t \in Ids, StoreEmpty(t)
    PROVE  TypeOK' /\ SqlInv' /\ LossStep
  <1>0. PICK s : s = IF queue[t] = << >> THEN "check" ELSE "create"
    OBVIOUS
  <1>1. /\ OnlyStore /\ Running /\ UNCHANGED <<buff, joined, db, failed, damaged, reruns>>
        /\ store[t] = "fill" /\ queue' = queue /\ sqlError' = sqlError
        /\ store' = [store EXCEPT ![t] = s] /\ s \in StorePc
    BY <1>0 DEF StoreEmpty, OnlyStore, counters, StorePc
  <1>2. /\ queue' \in [Ids -> Seq(Queries)] /\ OneChanged(queue, queue', t, queue[t])
        /\ Kept(queue[t], queue[t])
    BY <1>1, BatchStays
  <1>3. store' \in [Ids -> StorePc] /\ OneChanged(store, store', t, s)
    BY <1>1, GoesTo
  <1>4. /\ sqlError' \in [Ids -> BOOLEAN] /\ OneChanged(sqlError, sqlError', t, sqlError[t])
        /\ sqlError[t] \in BOOLEAN
    BY <1>1, ThreadNow, ExceptNone
  <1>5. GaveUp(store[t], sqlError[t], queue[t]) => GaveUp(s, sqlError[t], queue[t])
    BY <1>0, <1>1 DEF GaveUp
  <1>6. s = "create" \/ (s = "check" /\ queue[t] = << >>)
    BY <1>0
  <1> QED
    BY <1>1, <1>2, <1>3, <1>4, <1>5, <1>6, StoreGoes

\* StoreCreate keeps the invariant and loses nothing that may not be lost.
LEMMA StoreCreateKeeps ==
    ASSUME TypeOK, SqlInv, NEW t \in Ids, StoreCreate(t)
    PROVE  TypeOK' /\ SqlInv' /\ LossStep
  <1>0. PICK e \in {sqlError[t], TRUE} : sqlError' = [sqlError EXCEPT ![t] = e]
    BY DEF StoreCreate
  <1>1. /\ OnlyStore /\ Running /\ UNCHANGED <<buff, joined, db, failed, damaged, reruns>>
        /\ store[t] = "create" /\ queue' = queue
        /\ store' = [store EXCEPT ![t] = "call"]
    BY DEF StoreCreate, OnlyStore, counters
  <1>2. /\ queue' \in [Ids -> Seq(Queries)] /\ OneChanged(queue, queue', t, queue[t])
        /\ Kept(queue[t], queue[t])
    BY <1>1, BatchStays
  <1>3. store' \in [Ids -> StorePc] /\ OneChanged(store, store', t, "call")
    BY <1>1, GoesTo DEF StorePc
  <1>4. e \in BOOLEAN
    BY ThreadNow
  <1>5. sqlError' \in [Ids -> BOOLEAN] /\ OneChanged(sqlError, sqlError', t, e)
    BY <1>0, <1>4, Notes
  <1>6. ~GaveUp(store[t], sqlError[t], queue[t])
    BY <1>1 DEF GaveUp
  <1> QED
    BY <1>1, <1>2, <1>3, <1>4, <1>5, <1>6, StoreGoes DEF StorePc

\* The thread notes an error.
LEMMA NotesError ==
    ASSUME TypeOK, SqlInv, NEW t \in Ids, sqlError' = [sqlError EXCEPT ![t] = TRUE]
    PROVE  sqlError' \in [Ids -> BOOLEAN] /\ OneChanged(sqlError, sqlError', t, TRUE)
  BY Notes

\* The batch leaves the thread.
LEMMA BatchLeaves ==
    ASSUME TypeOK, SqlInv, NEW t \in Ids, BatchEnds(t)
    PROVE  /\ queue' \in [Ids -> Seq(Queries)] /\ OneChanged(queue, queue', t, << >>)
           /\ store' \in [Ids -> StorePc] /\ OneChanged(store, store', t, "check")
           /\ Kept(queue[t], << >>)
  <1>1. queue' = [queue EXCEPT ![t] = << >>] /\ store' = [store EXCEPT ![t] = "check"]
    BY DEF BatchEnds
  <1>2. << >> \in Seq(Queries) /\ "check" \in StorePc
    BY EmptyElements DEF StorePc
  <1>3. queue' \in [Ids -> Seq(Queries)] /\ OneChanged(queue, queue', t, << >>)
    BY <1>1, <1>2, ThreadNow, ExceptOne
  <1>4. store' \in [Ids -> StorePc] /\ OneChanged(store, store', t, "check")
    BY <1>1, <1>2, ThreadNow, ExceptOne
  <1> QED
    BY <1>3, <1>4 DEF Kept

\* StoreCreateFails keeps the invariant and loses nothing that may not be lost.
LEMMA StoreCreateFailsKeeps ==
    ASSUME TypeOK, SqlInv, NEW t \in Ids, StoreCreateFails(t)
    PROVE  TypeOK' /\ SqlInv' /\ LossStep
  <1>1. /\ OnlyStore /\ Running /\ UNCHANGED <<buff, joined, db, failed, damaged, reruns>>
        /\ store[t] = "create" /\ sqlError' = [sqlError EXCEPT ![t] = TRUE]
        /\ RetryOrGiveUp(t)
    BY DEF StoreCreateFails, OnlyStore, counters
  <1>2. sqlError' \in [Ids -> BOOLEAN] /\ OneChanged(sqlError, sqlError', t, TRUE)
    BY <1>1, NotesError
  <1>3. ~GaveUp(store[t], sqlError[t], queue[t])
    BY <1>1 DEF GaveUp
  <1>4. CASE Terminating
    <2>1. BatchEnds(t)
      BY <1>1, <1>4 DEF RetryOrGiveUp
    <2>2. /\ queue' \in [Ids -> Seq(Queries)] /\ OneChanged(queue, queue', t, << >>)
          /\ store' \in [Ids -> StorePc] /\ OneChanged(store, store', t, "check")
          /\ Kept(queue[t], << >>)
      BY <2>1, BatchLeaves
    <2>3. GaveUp("check", TRUE, << >>)
      BY DEF GaveUp
    <2> QED
      BY <1>1, <1>2, <1>3, <1>4, <2>2, <2>3, StoreGoes DEF StorePc
  <1>5. CASE ~Terminating
    <2>1. queue' = queue /\ store' = store
      BY <1>1, <1>5 DEF RetryOrGiveUp
    <2>2. /\ queue' \in [Ids -> Seq(Queries)] /\ OneChanged(queue, queue', t, queue[t])
          /\ Kept(queue[t], queue[t])
      BY <2>1, BatchStays
    <2>3. store' \in [Ids -> StorePc] /\ OneChanged(store, store', t, "create")
      BY <1>1, <2>1, ThreadNow, ExceptNone
    <2> QED
      BY <1>1, <1>2, <1>3, <1>5, <2>2, <2>3, StoreGoes DEF StorePc
  <1> QED
    BY <1>4, <1>5

\* StoreCheck keeps the invariant and loses nothing that may not be lost.
LEMMA StoreCheckKeeps ==
    ASSUME TypeOK, SqlInv, NEW t \in Ids, StoreCheck(t)
    PROVE  TypeOK' /\ SqlInv' /\ LossStep
  <1>0. PICK s, e : s = (IF StoreLeaves(t) THEN "terminated" ELSE "fill") /\ e = sqlError[t]
    OBVIOUS
  <1>1. /\ OnlyStore /\ Running /\ UNCHANGED <<buff, joined, db, failed, damaged, reruns>>
        /\ store[t] = "check" /\ queue' = [queue EXCEPT ![t] = << >>] /\ sqlError' = sqlError
        /\ store' = [store EXCEPT ![t] = s] /\ s \in StorePc
    BY <1>0 DEF StoreCheck, OnlyStore, counters, StorePc
  <1>2. queue' \in [Ids -> Seq(Queries)] /\ OneChanged(queue, queue', t, << >>) /\ Kept(queue[t], << >>)
    <2>1. << >> \in Seq(Queries)
      BY EmptyElements
    <2> QED
      BY <1>1, <2>1, ThreadNow, ExceptOne DEF Kept
  <1>3. store' \in [Ids -> StorePc] /\ OneChanged(store, store', t, s)
    BY <1>1, GoesTo
  <1>4. sqlError' \in [Ids -> BOOLEAN] /\ OneChanged(sqlError, sqlError', t, e) /\ e \in BOOLEAN
    BY <1>0, <1>1, ThreadNow, ExceptNone
  <1>5. s \in {"fill", "terminated"} /\ (s = "terminated" <=> Terminating /\ (e \/ buff[t] = << >>))
    BY <1>0 DEF StoreLeaves
  <1>6. Terminating /\ e => GaveUp(s, e, << >>)
    BY <1>5 DEF GaveUp
  <1>7. queue[t] = << >> \/ (Terminating /\ e)
    BY <1>0, <1>1, ThreadNow DEF ThreadOk
  <1>8. GaveUp(store[t], sqlError[t], queue[t]) => e
    BY <1>0, <1>1 DEF GaveUp
  <1> QED
    BY <1>1, <1>2, <1>3, <1>4, <1>5, <1>6, <1>7, <1>8, StoreGoes

\* WaitProcess keeps the invariant and loses nothing.
LEMMA WaitProcessKeeps ==
    ASSUME TypeOK, SqlInv, NEW t \in Ids, WaitProcess(t)
    PROVE  TypeOK' /\ SqlInv' /\ LossStep
  <1>1. /\ OnlyStore /\ UNCHANGED <<db, failed, damaged, reruns>>
        /\ store[t] = "terminated" /\ buff' = buff /\ queue' = queue /\ sqlError' = sqlError
        /\ store' = [store EXCEPT ![t] = "joined"] /\ life = "wait"
        /\ joined' = joined \cup {t}
    BY DEF WaitProcess, OnlyStore, counters
  <1>2. PICK b, q, e : b = buff[t] /\ q = queue[t] /\ e = sqlError[t]
    OBVIOUS
  <1>3. store' \in [Ids -> StorePc] /\ OneChanged(store, store', t, "joined")
    BY <1>1, GoesTo DEF StorePc
  <1>4. buff' \in [Ids -> Seq(Queries)] /\ OneChanged(buff, buff', t, b)
    BY <1>1, <1>2, ThreadNow, ExceptNone
  <1>5. queue' \in [Ids -> Seq(Queries)] /\ OneChanged(queue, queue', t, q)
    BY <1>1, <1>2, ThreadNow, ExceptNone
  <1>6. sqlError' \in [Ids -> BOOLEAN] /\ OneChanged(sqlError, sqlError', t, e)
    BY <1>1, <1>2, ThreadNow, ExceptNone
  <1>7. Sets(t, b, q, "joined", e)
    BY <1>2, <1>3, <1>4, <1>5, <1>6, ThreadNow DEF Sets
  <1>8. ThreadOk(t, b, q, "terminated", e) /\ life = "wait"
    BY <1>1, <1>2, ThreadNow
  <1>9. ThreadOk(t, b, q, "joined", e)
    BY <1>8 DEF ThreadOk
  <1>10. GaveUp(store[t], sqlError[t], queue[t]) => GaveUp("joined", e, q)
    BY <1>1, <1>2 DEF GaveUp
  <1>11. Kept(buff[t], b) /\ Kept(queue[t], q) /\ joined' \subseteq Ids /\ store[t] # "none"
    BY <1>1, <1>2 DEF Kept, TypeOK
  <1> QED
    BY <1>1, <1>2, <1>7, <1>9, <1>10, <1>11, StoreKept

\* DeleteProcess keeps the invariant; what the process held is lost at the end of the program.
LEMMA DeleteProcessKeeps ==
    ASSUME TypeOK, SqlInv, NEW t \in Ids, DeleteProcess(t)
    PROVE  TypeOK' /\ SqlInv' /\ LossStep
  <1>0. PICK s, e : s = (IF store[t] \in {"joined", "terminated"} THEN "deleted" ELSE "dangling")
                    /\ e = sqlError[t]
    OBVIOUS
  <1>1. /\ OnlyStore /\ UNCHANGED <<joined, db, failed, damaged, reruns>>
        /\ store[t] # "none" /\ life = "delete" /\ sqlError' = sqlError
        /\ buff' = [buff EXCEPT ![t] = << >>] /\ queue' = [queue EXCEPT ![t] = << >>]
        /\ s \in StorePc /\ s \in {"deleted", "dangling"} /\ joined' \subseteq Ids
    BY <1>0 DEF DeleteProcess, OnlyStore, counters, StorePc, TypeOK
  <1>2. store' = [store EXCEPT ![t] = s]
    BY <1>0 DEF DeleteProcess
  <1>3. store' \in [Ids -> StorePc] /\ OneChanged(store, store', t, s)
    BY <1>1, <1>2, GoesTo
  <1>4. << >> \in Seq(Queries)
    BY EmptyElements
  <1>5. buff' \in [Ids -> Seq(Queries)] /\ OneChanged(buff, buff', t, << >>)
    BY <1>1, <1>4, ThreadNow, ExceptOne
  <1>6. queue' \in [Ids -> Seq(Queries)] /\ OneChanged(queue, queue', t, << >>)
    BY <1>1, <1>4, ThreadNow, ExceptOne
  <1>7. sqlError' \in [Ids -> BOOLEAN] /\ OneChanged(sqlError, sqlError', t, e)
    BY <1>0, <1>1, ThreadNow, ExceptNone
  <1>8. Len(<< >>) <= ConcatLimit
    BY Constants
  <1>9. Sets(t, << >>, << >>, s, e)
    BY <1>3, <1>5, <1>6, <1>7, <1>8 DEF Sets
  <1>10. ThreadOk(t, << >>, << >>, s, e)
    <2>1. ~(t >= threads)
      BY <1>1, ThreadNow DEF ThreadOk
    <2> QED
      BY <1>1, <2>1 DEF ThreadOk
  <1>11. Terminating /\ GaveUp(s, e, << >>) /\ Kept(buff[t], << >>) /\ Kept(queue[t], << >>)
    BY <1>1 DEF Terminating, GaveUp, Kept
  <1> QED
    BY <1>1, <1>9, <1>10, <1>11, StoreKept

\* A single store thread that sends its batch has given up nothing.
LEMMA SendsCarefully ==
    ASSUME TypeOK, SqlInv, Strict, NEW t \in Ids, store[t] = "call"
    PROVE  Reading \subseteq Memory(loader.rest, buff, queue) \cup ToSet(db) \cup failed \cup damaged
  <1>1. threads = 1 /\ t < threads /\ t = 0
    BY ThreadRuns, OnlyThread DEF Strict
  <1>2. ~GaveUp(store[0], sqlError[0], queue[0])
    BY <1>1 DEF GaveUp
  <1>3. Terminating => ConcatLimit > 1
    <2>1. Terminating => terms > 0
      BY DEF SqlInv, LifeInv
    <2>2. terms \in Nat
      BY DEF TypeOK
    <2> QED
      BY <2>1, <2>2 DEF Strict
  <1>4. Careful
    BY <1>1, <1>2, <1>3 DEF Careful
  <1>5. Reading \subseteq InMemory \cup Settled \cup damaged
    BY <1>4 DEF SqlInv, ReadInv, Reading
  <1> QED
    BY <1>5, MemoryNow DEF Settled

\* Numbers of faults.
LEMMA MoreFaults ==
    ASSUME TypeOK, reruns' \in Nat, reruns' >= reruns
    PROVE  /\ crashes + reruns' \in Nat /\ crashes + reruns' >= crashes + reruns
           /\ reruns' = reruns + 1 => crashes + reruns' >= crashes + reruns + 1
  <1>1. crashes \in Nat /\ reruns \in Nat
    BY DEF TypeOK
  <1>2. \A i, j, k \in Nat : k >= j => /\ i + k \in Nat /\ i + k >= i + j
                                       /\ k = j + 1 => i + k >= i + j + 1
    OBVIOUS
  <1> QED
    BY <1>1, <1>2

\* The first queries a of the batch are executed; the batch stays, or leaves the thread.
LEMMA StoreSends ==
    ASSUME TypeOK, SqlInv, OnlyStore, Running, NEW t \in Ids, store[t] = "call",
           UNCHANGED <<buff, joined, damaged>>,
           NEW n \in 0 .. Len(queue[t]), NEW a, NEW z, Split(queue[t], n, a, z), Joined(db, a, db'),
           NEW q, queue' \in [Ids -> Seq(Queries)], OneChanged(queue, queue', t, q), Kept(queue[t], q),
           NEW s \in StorePc, store' \in [Ids -> StorePc], OneChanged(store, store', t, s),
           NEW e \in BOOLEAN, sqlError' \in [Ids -> BOOLEAN], OneChanged(sqlError, sqlError', t, e),
           s = "call" \/ (s = "check" /\ q = << >>),
           failed' = failed \/ failed' = failed \cup ToSet(z),
           reruns' \in Nat, reruns' >= reruns, q = << >> \/ reruns' = reruns + 1 \/ a = << >>,
           (s = "check" /\ Terminating /\ e) \/ q = queue[t] \/ failed' = failed \cup ToSet(z)
    PROVE  TypeOK' /\ SqlInv' /\ LossStep
  <1>1. /\ Moves /\ loader' = loader /\ threads' = threads /\ life' = life /\ files' = files
        /\ t < threads
    BY OnlyStoreMoves, ThreadRuns
  <1>2. /\ buff \in [Ids -> Seq(Queries)] /\ buff[t] \in Seq(Queries) /\ queue[t] \in Seq(Queries)
        /\ Len(queue[t]) <= ConcatLimit /\ Len(queue[t]) \in Nat
        /\ ThreadOk(t, buff[t], queue[t], store[t], sqlError[t])
    BY ThreadNow
  <1>3. Len(q) <= ConcatLimit
    <2>1. Len(<< >>) <= ConcatLimit
      BY Constants
    <2> QED
      BY <1>2, <2>1 DEF Kept
  <1>4. PICK b : b = buff[t]
    OBVIOUS
  <1>5. Sets(t, b, q, s, e)
    <2>1. buff' \in [Ids -> Seq(Queries)] /\ OneChanged(buff, buff', t, b)
      BY <1>2, <1>4, ExceptNone
    <2> QED
      BY <1>3, <2>1 DEF Sets
  <1>6. ThreadOk(t, b, q, s, e)
    <2>1. life # "down" /\ ~(t >= threads)
      BY <1>2 DEF Running, ThreadOk
    <2> QED
      BY <2>1 DEF ThreadOk
  <1>7. ThreadsInv' /\ \A u \in Ids : Len(queue'[u]) <= ConcatLimit
    BY <1>1, <1>5, <1>6, ThreadSets
  <1>8. a \in Seq(Queries) /\ z \in Seq(Queries) /\ ToSet(queue[t]) = ToSet(a) \cup ToSet(z)
    BY <1>2, SplitElements
  <1>9. db \in Seq(Nat) /\ a \in Seq(Nat) /\ queue[t] \in Seq(Nat)
    BY <1>2, <1>8, Types, Constants
  <1>10. ToSet(db') = ToSet(db) \cup ToSet(a)
    BY <1>9, ConcatElements
  <1>11. MemoryTypes'
    <2>1. db' \in Seq(Queries)
      BY <1>8 DEF Joined, TypeOK
    <2>2. ToSet(z) \subseteq Queries
      BY <1>8 DEF ToSet
    <2>3. failed' \subseteq Queries /\ damaged' \subseteq Queries /\ joined' \subseteq Ids
      BY <2>2 DEF TypeOK
    <2>4. loader' \in LoaderState(DOMAIN files')
      BY <1>1, Types
    <2> QED
      BY <1>5, <1>7, <2>1, <2>3, <2>4 DEF Sets, MemoryTypes
  <1>12. PICK W, R, r, B, Q, P, p, m, d, f, o, w :
              /\ W = Waiting /\ R = Reading /\ r = loader.rest /\ B = buff /\ Q = queue /\ P = queue'
              /\ p = queue[t] /\ m = crashes + reruns' /\ d = db' /\ f = crashes + reruns
              /\ o = db /\ w = written
    OBVIOUS
  <1>13. /\ W \subseteq Nat /\ r \in Seq(Nat) /\ \A u \in Ids : Q[u] \in Seq(Nat) /\ B[u] \in Seq(Nat)
         /\ p \in Seq(Nat) /\ p = Q[t] /\ m \in Nat /\ m >= f /\ f \in Nat
         /\ q = << >> \/ m >= f + 1 \/ a = << >>
         /\ Split(p, n, a, z) /\ n \in 0 .. Len(p) /\ Joined(o, a, d) /\ o \in Seq(Nat) /\ Kept(p, q)
         /\ OneChanged(Q, P, t, q) /\ w \in Nat
    <2>1. /\ W \subseteq Nat /\ r \in Seq(Nat) /\ f \in Nat /\ w \in Nat
          /\ \A u \in Ids : Q[u] \in Seq(Nat) /\ B[u] \in Seq(Nat)
      BY <1>12, Types
    <2>2. m \in Nat /\ m >= f /\ (reruns' = reruns + 1 => m >= f + 1)
      BY <1>12, MoreFaults
    <2> QED
      BY <1>9, <1>12, <2>1, <2>2
  <1>14. Path(W, r, B, Q, o, f, w)
    BY <1>12, PathNow
  <1>15. /\ Path(W, r, B, P, d, m, w) /\ Memory(r, B, P) \subseteq Memory(r, B, Q)
         /\ Memory(r, B, P) \cup ToSet(d) \subseteq Memory(r, B, Q) \cup ToSet(o)
    <2>1. Sends(r, B, Q, o, t, p, n, a, z, d) /\ Leaves(Q, t, p, q, P, a, f, m)
      BY <1>13 DEF Sends, Leaves
    <2> QED
      BY <1>13, <1>14, <2>1, PathSends
  <1>16. InMemory = Memory(r, B, Q) /\ InMemory' = Memory(r, B, P)
    BY <1>1, <1>12 DEF InMemory, AtStores, Memory
  <1>17. Strict => Ahead(Waiting \cup Reading \cup InMemory', db', failed' \cup damaged')
    <2> SUFFICES ASSUME Strict PROVE Ahead(W \cup R \cup Memory(r, B, P), d, failed' \cup damaged')
      BY <1>12, <1>16
    <2>0. Sends(r, B, Q, o, t, p, n, a, z, d)
      BY <1>13 DEF Sends
    <2>1. R \subseteq Memory(r, B, Q) \cup ToSet(o) \cup (failed \cup damaged)
      BY <1>12, SendsCarefully
    <2>2. \A u \in Ids \ {t} : B[u] = << >> /\ Q[u] = << >>
      BY <1>1, <1>12, OnlyThread DEF Strict
    <2>3. Ahead(W \cup R \cup Memory(r, B, Q), o, failed \cup damaged)
      BY <1>12, <1>16 DEF SqlInv, AheadInv, Waiting, Reading
    <2>4. failed \cup damaged \subseteq failed' \cup damaged' /\ Ordered(W, r, B, Q)
      BY <1>14 DEF Path
    <2>5. PICK M, bad, worse : /\ M = Memory(r, B, P) /\ bad = failed \cup damaged
                               /\ worse = failed' \cup damaged' /\ bad \subseteq worse
      BY <2>4
    <2>6. /\ Accounted(R, Memory(r, B, Q), o, bad) /\ Alone(B, Q, t)
          /\ Ahead(W \cup R \cup Memory(r, B, Q), o, bad) /\ M \subseteq Memory(r, B, Q)
      BY <1>15, <2>1, <2>2, <2>3, <2>5 DEF Accounted, Alone
    <2>7. Ahead(W \cup R \cup M, d, worse)
      BY <2>0, <2>4, <2>5, <2>6, AheadSends
    <2> QED
      BY <2>5, <2>7
  <1>18. Settled \cup damaged \subseteq Settled' \cup damaged'
    BY <1>10 DEF Settled
  <1>19. Careful' => Careful /\ (Terminating => ~GaveUp(s, e, q))
    <2>1. ~GaveUp(store[t], sqlError[t], queue[t])
      BY DEF GaveUp
    <2> QED
      BY <1>1, <1>5, <2>1, CarefulStep
  <1>20. Careful' => Lossless
    <2> SUFFICES ASSUME Careful', NEW x \in InMemory PROVE x \in InMemory' \cup Settled'
      BY <1>18 DEF Lossless
    <2>1. q = queue[t] \/ failed' = failed \cup ToSet(z)
      BY <1>19 DEF GaveUp
    <2>2. queue'[t] = q /\ \A u \in Ids : u # t => queue'[u] = queue[u]
      BY DEF OneChanged
    <2>3. x \in ToSet(r) \/ \E u \in Ids : x \in ToSet(B[u]) \/ x \in ToSet(Q[u])
      BY <1>16, MemoryElement
    <2>4. CASE x \in ToSet(queue[t]) /\ failed' = failed \cup ToSet(z)
      BY <1>8, <1>10, <2>4 DEF Settled
    <2>5. CASE ~(x \in ToSet(queue[t]) /\ failed' = failed \cup ToSet(z))
      <3>1. x \in ToSet(r) \/ \E u \in Ids : x \in ToSet(B[u]) \/ x \in ToSet(P[u])
        BY <1>12, <2>1, <2>2, <2>3, <2>5
      <3> QED
        BY <1>16, <3>1, MemoryElement
    <2> QED
      BY <2>4, <2>5
  <1>21. Path(Waiting, loader'.rest, buff', queue', db', crashes + reruns', written)
    BY <1>1, <1>12, <1>15
  <1>22. InMemory' \cup ToSet(db') \subseteq InMemory \cup ToSet(db)
    BY <1>12, <1>15, <1>16
  <1> QED
    BY <1>1, <1>7, <1>11, <1>17, <1>18, <1>19, <1>20, <1>21, <1>22, MoveStep

\* Splitting behind the last element.
LEMMA SplitAll ==
    ASSUME NEW S, NEW s \in Seq(S)
    PROVE  Len(s) \in 0 .. Len(s) /\ Split(s, Len(s), s, << >>)
  BY DEF Split

\* StoreCall keeps the invariant and loses nothing that may not be lost.
LEMMA StoreCallKeeps ==
    ASSUME TypeOK, SqlInv, NEW t \in Ids, StoreCall(t)
    PROVE  TypeOK' /\ SqlInv' /\ LossStep
  <1>1. /\ OnlyStore /\ Running /\ UNCHANGED <<buff, joined, damaged>>
        /\ reruns' = reruns /\ failed' = failed
        /\ store[t] = "call" /\ sqlError' = sqlError /\ BatchEnds(t)
    BY DEF StoreCall, OnlyStore, counters
  <1>2. PICK n \in 0 .. Len(queue[t]) : Split(queue[t], n, queue[t], << >>)
    BY ThreadNow, SplitAll
  <1>3. Joined(db, queue[t], db')
    BY DEF Joined, StoreCall
  <1>4. failed' = failed \cup ToSet(<< >>) /\ reruns' \in Nat /\ reruns' >= reruns
    BY <1>1, EmptyElements DEF TypeOK
  <1>5. /\ queue' \in [Ids -> Seq(Queries)] /\ OneChanged(queue, queue', t, << >>)
        /\ store' \in [Ids -> StorePc] /\ OneChanged(store, store', t, "check")
        /\ Kept(queue[t], << >>)
    BY <1>1, BatchLeaves
  <1>6. /\ sqlError' \in [Ids -> BOOLEAN] /\ OneChanged(sqlError, sqlError', t, sqlError[t])
        /\ sqlError[t] \in BOOLEAN
    BY <1>1, ThreadNow, ExceptNone
  <1>7. PICK a, z : a = queue[t] /\ z = << >>
    OBVIOUS
  <1>8. Split(queue[t], n, a, z) /\ Joined(db, a, db') /\ failed' = failed \cup ToSet(z)
    BY <1>2, <1>3, <1>4, <1>7
  <1> QED
    BY <1>1, <1>4, <1>5, <1>6, <1>8, StoreSends DEF StorePc

\* StoreCallFails keeps the invariant and loses nothing that may not be lost.
LEMMA StoreCallFailsKeeps ==
    ASSUME TypeOK, SqlInv, NEW t \in Ids, StoreCallFails(t)
    PROVE  TypeOK' /\ SqlInv' /\ LossStep
  <1>1. /\ OnlyStore /\ Running /\ UNCHANGED <<buff, joined, damaged>> /\ failed' = failed
        /\ store[t] = "call" /\ sqlError' = [sqlError EXCEPT ![t] = TRUE] /\ RetryOrGiveUp(t)
    BY DEF StoreCallFails, OnlyStore
  <1>2. PICK n \in 0 .. Len(queue[t]) : /\ reruns' = IF n > 0 THEN reruns + 1 ELSE reruns
                                        /\ db' = db \o SubSeq(queue[t], 1, n)
    BY DEF StoreCallFails
  <1>3. PICK a, z : Split(queue[t], n, a, z)
    BY DEF Split
  <1>4. Joined(db, a, db') /\ (n = 0 => a = << >>)
    <2>1. a = SubSeq(queue[t], 1, n)
      BY <1>3 DEF Split
    <2> QED
      BY <1>2, <2>1, ThreadNow DEF Joined
  <1>5. reruns' \in Nat /\ reruns' >= reruns /\ (reruns' = reruns + 1 \/ n = 0)
    BY <1>2 DEF TypeOK
  <1>6. sqlError' \in [Ids -> BOOLEAN] /\ OneChanged(sqlError, sqlError', t, TRUE)
    BY <1>1, NotesError
  <1>7. CASE Terminating
    <2>1. BatchEnds(t)
      BY <1>1, <1>7 DEF RetryOrGiveUp
    <2>2. /\ queue' \in [Ids -> Seq(Queries)] /\ OneChanged(queue, queue', t, << >>)
          /\ store' \in [Ids -> StorePc] /\ OneChanged(store, store', t, "check")
          /\ Kept(queue[t], << >>)
      BY <2>1, BatchLeaves
    <2>3. "check" \in StorePc /\ TRUE \in BOOLEAN
      BY DEF StorePc
    <2> QED
      BY <1>1, <1>3, <1>4, <1>5, <1>6, <1>7, <2>2, <2>3, StoreSends
  <1>8. CASE ~Terminating
    <2>1. queue' = queue /\ store' = store
      BY <1>1, <1>8 DEF RetryOrGiveUp
    <2>2. /\ queue' \in [Ids -> Seq(Queries)] /\ OneChanged(queue, queue', t, queue[t])
          /\ Kept(queue[t], queue[t])
      BY <2>1, BatchStays
    <2>3. store' \in [Ids -> StorePc] /\ OneChanged(store, store', t, "call")
      BY <1>1, <2>1, ThreadNow, ExceptNone
    <2>4. "call" \in StorePc /\ TRUE \in BOOLEAN
      BY DEF StorePc
    <2> QED
      BY <1>1, <1>3, <1>4, <1>5, <1>6, <2>2, <2>3, <2>4, StoreSends
  <1> QED
    BY <1>7, <1>8

\* StoreCallRefused keeps the invariant and loses nothing that may not be lost.
LEMMA StoreCallRefusedKeeps ==
    ASSUME TypeOK, SqlInv, NEW t \in Ids, StoreCallRefused(t)
    PROVE  TypeOK' /\ SqlInv' /\ LossStep
  <1>1. /\ OnlyStore /\ Running /\ UNCHANGED <<buff, joined, damaged>> /\ reruns' = reruns
        /\ store[t] = "call" /\ sqlError' = [sqlError EXCEPT ![t] = TRUE] /\ BatchEnds(t)
    BY DEF StoreCallRefused, OnlyStore, counters
  <1>2. PICK n \in 0 .. Len(queue[t]) - 1 :
              /\ db' = db \o SubSeq(queue[t], 1, n)
              /\ failed' = failed \cup ToSet(SubSeq(queue[t], n + 1, Len(queue[t])))
    BY DEF StoreCallRefused
  <1>3. n \in 0 .. Len(queue[t])
    BY ThreadNow
  <1>4. PICK a, z : Split(queue[t], n, a, z)
    BY DEF Split
  <1>5. Joined(db, a, db') /\ failed' = failed \cup ToSet(z)
    BY <1>2, <1>4 DEF Split, Joined
  <1>6. reruns' \in Nat /\ reruns' >= reruns
    BY <1>1 DEF TypeOK
  <1>7. sqlError' \in [Ids -> BOOLEAN] /\ OneChanged(sqlError, sqlError', t, TRUE)
    BY <1>1, NotesError
  <1>8. /\ queue' \in [Ids -> Seq(Queries)] /\ OneChanged(queue, queue', t, << >>)
        /\ store' \in [Ids -> StorePc] /\ OneChanged(store, store', t, "check")
        /\ Kept(queue[t], << >>)
    BY <1>1, BatchLeaves
  <1>9. "check" \in StorePc /\ TRUE \in BOOLEAN
    BY DEF StorePc
  <1> QED
    BY <1>1, <1>3, <1>4, <1>5, <1>6, <1>7, <1>8, <1>9, StoreSends

-----------------------------------------------------------------------------
(* The loader pushes the queries of a file *)

\* The loader goes on with less of its file, because a line is damaged or a process was freed.
LEMMA RestShrinks ==
    ASSUME TypeOK, SqlInv,
           UNCHANGED <<config, life, written, files, writeError, cache, process, db, failed, counters>>,
           loader.pc = "read", NEW r, NEW p \in {"read", "dangling"},
           Loads(loader', DOMAIN files, p, loader.file, r),
           ToSet(r) \subseteq ToSet(loader.rest), Incr(r),
           damaged' \subseteq Queries, damaged \subseteq damaged',
           ToSet(loader.rest) \subseteq ToSet(r) \cup damaged' \/ ~Careful
    PROVE  TypeOK' /\ SqlInv' /\ LossStep
  <1>1. /\ loader' \in LoaderState(DOMAIN files) /\ loader'.pc = p /\ loader'.file = loader.file
        /\ loader'.rest = r
    BY DEF Loads
  <1>2. /\ buff' = buff /\ queue' = queue /\ store' = store /\ sqlError' = sqlError /\ joined' = joined
        /\ threads' = threads /\ life' = life /\ files' = files /\ db' = db /\ failed' = failed
        /\ reruns' = reruns
    BY DEF process, config, counters
  <1>3. Moves
    BY <1>1 DEF Moves, config, cache, counters
  <1>4. MemoryTypes'
    <2>1. /\ buff' \in [Ids -> Seq(Queries)] /\ queue' \in [Ids -> Seq(Queries)]
          /\ \A t \in Ids : Len(queue'[t]) <= ConcatLimit
      BY <1>2 DEF TypeOK
    <2>2. store' \in [Ids -> StorePc] /\ sqlError' \in [Ids -> BOOLEAN] /\ joined' \subseteq Ids
      BY <1>2 DEF TypeOK
    <2>3. db' \in Seq(Queries) /\ failed' \subseteq Queries /\ reruns' \in Nat
      BY <1>2 DEF TypeOK
    <2> QED
      BY <1>1, <1>2, <2>1, <2>2, <2>3 DEF MemoryTypes
  <1>5. ThreadsInv'
    BY <1>2 DEF SqlInv, ThreadsInv, ThreadOk, Terminating
  <1>6. /\ Ordered(Waiting, r, buff, queue)
        /\ Memory(r, buff, queue) \subseteq Memory(loader.rest, buff, queue)
    <2>1. Ordered(Waiting, loader.rest, buff, queue)
      BY PathNow DEF Path
    <2> QED
      BY <2>1, OrderedRest
  <1>7. InMemory = Memory(loader.rest, buff, queue) /\ InMemory' = Memory(r, buff, queue)
    BY <1>1, <1>2 DEF InMemory, AtStores, Memory
  <1>8. Careful' <=> Careful
    BY <1>2 DEF Careful, Terminating
  <1>9. Careful => InMemory \subseteq InMemory' \cup damaged'
    BY <1>7, MemoryElement
  <1> QED
    BY <1>1, <1>2, <1>3, <1>4, <1>5, <1>6, <1>7, <1>8, <1>9, KeepStep

\* The rest without its first query.
LEMMA RestTail ==
    ASSUME TypeOK, SqlInv, loader.rest # << >>, NEW r, r = Tail(loader.rest)
    PROVE  /\ r \in Seq(Queries) /\ ToSet(loader.rest) = {Head(loader.rest)} \cup ToSet(r)
           /\ Incr(r) /\ Head(loader.rest) \in Queries
  <1>1. PICK l : l = loader.rest
    OBVIOUS
  <1>2. l \in Seq(Queries) /\ l \in Seq(Nat) /\ l # << >> /\ r = Tail(l)
    BY <1>1, Types
  <1>3. Incr(l)
    BY <1>1, Constants, ThreadNow
  <1>4. Incr(r)
    BY <1>2, <1>3, TailGrows
  <1>5. PICK h : h = Head(l)
    OBVIOUS
  <1>6. r \in Seq(Queries) /\ h \in Queries
    <2>1. l \in Seq(Queries) /\ l # << >>
      BY <1>2
    <2>2. Head(l) \in Queries
      BY <2>1
    <2>3. Tail(l) \in Seq(Queries)
      BY <2>1
    <2> QED
      BY <1>2, <1>5, <2>2, <2>3
  <1>7. \A y : y \in ToSet(l) <=> y = h \/ y \in ToSet(r)
    BY <1>2, <1>5, TailSet DEF Cut
  <1>8. ToSet(l) = {h} \cup ToSet(r)
    BY <1>7
  <1> QED
    BY <1>1, <1>4, <1>5, <1>6, <1>8

\* Nobody is careful once a process was freed.
LEMMA FreedNotCareful ==
    ASSUME TypeOK, SqlInv, Freed
    PROVE  ~Careful
  <1>1. PICK t \in Ids : store[t] \in {"deleted", "dangling"}
    BY DEF Freed
  <1>2. ThreadOk(t, buff[t], queue[t], store[t], sqlError[t]) /\ t < threads
    BY <1>1, ThreadNow, ThreadRuns
  <1>3. life # "up" /\ life # "down"
    BY <1>1, <1>2 DEF ThreadOk
  <1>4. Terminating
    BY <1>3 DEF TypeOK, Terminating
  <1>5. threads = 1 => GaveUp(store[0], sqlError[0], queue[0])
    BY <1>1, <1>2, OnlyThread DEF GaveUp
  <1> QED
    BY <1>4, <1>5 DEF Careful

\* LoaderPushFreed keeps the invariant and loses nothing that may not be lost.
LEMMA LoaderPushFreedKeeps ==
    ASSUME TypeOK, SqlInv, LoaderPushFreed
    PROVE  TypeOK' /\ SqlInv' /\ LossStep
  <1>1. /\ UNCHANGED <<config, life, written, files, writeError, cache, process, db, failed, counters>>
        /\ damaged' = damaged /\ loader.pc = "read" /\ loader.rest # << >> /\ Freed
    BY DEF LoaderPushFreed
  <1>2. ~Careful
    BY <1>1, FreedNotCareful
  <1>3. loader \in LoaderState(DOMAIN files) /\ Incr(loader.rest) /\ damaged' \subseteq Queries
    BY <1>1, Types, ThreadNow, Constants DEF TypeOK
  <1>4. PICK D : D = DOMAIN files
    OBVIOUS
  <1>5. CASE loader' = [loader EXCEPT !.rest = Tail(@)]
    <2>1. PICK r : r = Tail(loader.rest)
      OBVIOUS
    <2>2. r \in Seq(Queries) /\ ToSet(r) \subseteq ToSet(loader.rest) /\ Incr(r)
      BY <1>1, <2>1, RestTail
    <2>3. loader' = [loader EXCEPT !.rest = r]
      BY <1>5, <2>1
    <2>4. Loads(loader', D, "read", loader.file, r)
      BY <1>1, <1>3, <1>4, <2>2, <2>3, SetRest
    <2> QED
      BY <1>1, <1>2, <1>3, <1>4, <2>2, <2>4, RestShrinks
  <1>6. CASE loader' = [loader EXCEPT !.pc = "dangling"]
    <2>1. Loads(loader', D, "dangling", loader.file, loader.rest)
      BY <1>3, <1>4, <1>6, SetPc DEF LoaderPc
    <2> QED
      BY <1>1, <1>2, <1>3, <1>4, <2>1, RestShrinks
  <1> QED
    BY <1>5, <1>6 DEF LoaderPushFreed

\* LoaderBadLine keeps the invariant and loses the damaged line only.
LEMMA LoaderBadLineKeeps ==
    ASSUME TypeOK, SqlInv, LoaderBadLine
    PROVE  TypeOK' /\ SqlInv' /\ LossStep
  <1>1. /\ UNCHANGED <<config, life, written, files, writeError, cache, process, db, failed, counters>>
        /\ damaged' = damaged \cup {Head(loader.rest)} /\ loader.pc = "read" /\ loader.rest # << >>
    BY DEF LoaderBadLine
  <1>2. PICK D, r : D = DOMAIN files /\ r = Tail(loader.rest)
    OBVIOUS
  <1>3. /\ r \in Seq(Queries) /\ ToSet(loader.rest) = {Head(loader.rest)} \cup ToSet(r)
        /\ Incr(r) /\ Head(loader.rest) \in Queries
    BY <1>1, <1>2, RestTail
  <1>4. loader' = [loader EXCEPT !.rest = r]
    BY <1>2 DEF LoaderBadLine
  <1>5. Loads(loader', D, "read", loader.file, r)
    BY <1>1, <1>2, <1>3, <1>4, Types, SetRest
  <1>6. damaged' \subseteq Queries /\ damaged \subseteq damaged'
        /\ ToSet(loader.rest) \subseteq ToSet(r) \cup damaged' /\ ToSet(r) \subseteq ToSet(loader.rest)
    BY <1>1, <1>3 DEF TypeOK
  <1> QED
    BY <1>1, <1>2, <1>3, <1>5, <1>6, RestShrinks

\* LoaderReadFails keeps the invariant and loses what could not be read only.
LEMMA LoaderReadFailsKeeps ==
    ASSUME TypeOK, SqlInv, LoaderReadFails
    PROVE  TypeOK' /\ SqlInv' /\ LossStep
  <1>1. /\ UNCHANGED <<config, life, written, files, writeError, cache, process, db, failed, counters>>
        /\ damaged' = damaged \cup ToSet(loader.rest) /\ loader.pc = "read"
    BY DEF LoaderReadFails
  <1>2. PICK D, r : D = DOMAIN files /\ r = << >>
    OBVIOUS
  <1>3. r \in Seq(Queries) /\ Incr(r) /\ ToSet(r) = {}
    BY <1>2, EmptyElements
  <1>4. loader' = [loader EXCEPT !.rest = r]
    BY <1>2 DEF LoaderReadFails
  <1>5. Loads(loader', D, "read", loader.file, r)
    BY <1>1, <1>2, <1>3, <1>4, Types, SetRest
  <1>6. ToSet(loader.rest) \subseteq Queries
    BY Types DEF ToSet
  <1>7. damaged' \subseteq Queries /\ damaged \subseteq damaged'
        /\ ToSet(loader.rest) \subseteq ToSet(r) \cup damaged' /\ ToSet(r) \subseteq ToSet(loader.rest)
    BY <1>1, <1>3, <1>6 DEF TypeOK
  <1> QED
    BY <1>1, <1>2, <1>3, <1>5, <1>7, RestShrinks

\* The process that gets the next query is one of the configured ones.
LEMMA PushToThread ==
    ASSUME TypeOK, NEW t \in PushTo
    PROVE  t \in Ids /\ t < threads
  <1>1. threads \in 1 .. StoreThreads /\ StoreThreads \in Nat
    BY Constants DEF TypeOK
  <1>2. t = 0 \/ t \in 0 .. threads - 1
    BY DEF PushTo, Active
  <1> QED
    BY <1>1, <1>2 DEF Ids

\* LoaderPush keeps the invariant and loses nothing.
LEMMA LoaderPushKeeps ==
    ASSUME TypeOK, SqlInv, LoaderPush
    PROVE  TypeOK' /\ SqlInv' /\ LossStep
  <1>1. /\ UNCHANGED <<config, life, written, files, writeError, cache, queue, sqlError, joined, counters>>
        /\ UNCHANGED <<db, failed, damaged, reruns>>
        /\ loader.pc = "read" /\ loader.rest # << >> /\ Running
    BY DEF LoaderPush, counters
  <1>2. PICK t \in PushTo :
          /\ buff' = [buff EXCEPT ![t] = Append(@, Head(loader.rest))]
          /\ store' = [store EXCEPT ![t] = IF @ \in {"none", "joined"} THEN "fill" ELSE @]
    BY DEF LoaderPush
  <1>3. t \in Ids /\ t < threads /\ joined' \subseteq Ids
    BY <1>1, PushToThread DEF TypeOK
  <1>4. /\ buff \in [Ids -> Seq(Queries)] /\ queue \in [Ids -> Seq(Queries)]
        /\ store \in [Ids -> StorePc] /\ sqlError \in [Ids -> BOOLEAN]
        /\ buff[t] \in Seq(Queries) /\ queue[t] \in Seq(Queries) /\ store[t] \in StorePc
        /\ Len(queue[t]) <= ConcatLimit /\ Len(queue[t]) \in Nat
        /\ ThreadOk(t, buff[t], queue[t], store[t], sqlError[t])
        /\ OrderedAt(Waiting, loader.rest, buff[t], queue[t]) /\ Incr(loader.rest)
    BY <1>3, ThreadNow
  <1>5. PICK D, r, h, b, q, s, e, l :
            /\ D = DOMAIN files /\ l = loader.rest /\ Cut(l, h, r) /\ Appended(buff[t], h, b)
            /\ q = queue[t] /\ e = sqlError[t]
            /\ s = IF store[t] \in {"none", "joined"} THEN "fill" ELSE store[t]
    BY DEF Cut, Appended
  <1>6. /\ r \in Seq(Queries) /\ ToSet(loader.rest) = {h} \cup ToSet(r) /\ Incr(r)
        /\ h \in Queries /\ h = Head(loader.rest) /\ r = Tail(loader.rest)
    BY <1>1, <1>5, RestTail DEF Cut
  <1>7. loader' = [loader EXCEPT !.rest = r]
    BY <1>6 DEF LoaderPush
  <1>8. Loads(loader', D, "read", loader.file, r)
    BY <1>1, <1>5, <1>6, <1>7, Types, SetRest
  <1>9. Moves /\ loader' \in LoaderState(DOMAIN files) /\ r = loader'.rest
    BY <1>1, <1>5, <1>6, <1>8 DEF Moves, Loads, config, cache, counters
  <1>10. b \in Seq(Queries)
    BY <1>4, <1>5, <1>6 DEF Appended
  <1>11. Sets(t, b, q, s, e)
    <2>1. buff' = [buff EXCEPT ![t] = b]
      BY <1>2, <1>5, <1>6 DEF Appended
    <2>2. buff' \in [Ids -> Seq(Queries)] /\ OneChanged(buff, buff', t, b)
      BY <1>3, <1>4, <1>10, <2>1, ExceptOne
    <2>3. store' = [store EXCEPT ![t] = s] /\ s \in StorePc
      BY <1>2, <1>4, <1>5 DEF StorePc
    <2>4. store' \in [Ids -> StorePc] /\ OneChanged(store, store', t, s)
      BY <1>3, <2>3, GoesTo
    <2>5. queue' \in [Ids -> Seq(Queries)] /\ OneChanged(queue, queue', t, q)
      BY <1>1, <1>3, <1>4, <1>5, ExceptNone
    <2>6. sqlError' \in [Ids -> BOOLEAN] /\ OneChanged(sqlError, sqlError', t, e)
      BY <1>1, <1>3, <1>4, <1>5, ExceptNone
    <2> QED
      BY <1>4, <1>5, <2>2, <2>4, <2>5, <2>6 DEF Sets
  <1>12. store[t] \in {"none", "joined"} => q = << >> /\ Len(q) < ConcatLimit
    <2>1. store[t] \in {"none", "joined"} => q = << >>
      BY <1>4, <1>5 DEF ThreadOk
    <2>2. Len(<< >>) < ConcatLimit
      BY Constants
    <2> QED
      BY <2>1, <2>2
  <1>13. ThreadOk(t, b, q, s, e)
    <2>1. life # "down" /\ ~(t >= threads) /\ s # "none"
      BY <1>1, <1>3, <1>5, Constants DEF Running, TypeOK
    <2>2. CASE store[t] \in {"none", "joined"}
      <3>1. s = "fill"
        BY <1>5, <2>2
      <3> QED
        BY <1>12, <2>1, <2>2, <3>1 DEF ThreadOk
    <2>3. CASE store[t] \notin {"none", "joined"}
      <3>1. s = store[t] /\ ThreadOk(t, buff[t], q, s, e)
        BY <1>4, <1>5, <2>3
      <3> QED
        BY <2>1, <3>1 DEF ThreadOk
    <2> QED
      BY <2>2, <2>3
  <1>14. /\ OrderedAt(Waiting, r, b, q) /\ ToSet(b) = ToSet(buff[t]) \cup {h}
    <2>1. PICK W, c : W = Waiting /\ c = buff[t]
      OBVIOUS
    <2>2. l \in Seq(Nat) /\ c \in Seq(Nat) /\ q \in Seq(Nat)
      BY <1>3, <1>5, <2>1, Types
    <2>3. Pushes(W, l, c, q, h, r, b)
      BY <1>1, <1>4, <1>5, <2>1, <2>2 DEF Pushes
    <2>4. OrderedAt(W, r, b, q) /\ ToSet(b) = ToSet(c) \cup {h}
      BY <2>3, PushOrdered
    <2> QED
      BY <2>1, <2>4
  <1>15. /\ ToSet(r) \subseteq ToSet(loader.rest)
         /\ ToSet(b) \cup ToSet(q) \subseteq ToSet(buff[t]) \cup ToSet(queue[t]) \cup ToSet(loader.rest)
         /\ ToSet(buff[t]) \cup ToSet(queue[t]) \cup ToSet(loader.rest) \subseteq ToSet(b) \cup ToSet(q) \cup ToSet(r)
    BY <1>5, <1>6, <1>14
  <1>16. GaveUp(store[t], sqlError[t], queue[t]) => GaveUp(s, e, q)
    BY <1>5, <1>12 DEF GaveUp
  <1> QED
    BY <1>1, <1>3, <1>6, <1>9, <1>11, <1>13, <1>14, <1>15, <1>16, KeepThread

-----------------------------------------------------------------------------
(* Closing files *)

\* The only sequence of no or one element.
LEMMA SetToSeqSmall ==
    SetToSeq({}) = << >> /\ \A x : SetToSeq({x}) = <<x>>
  <1>1. SetToSeq({}) = << >>
    <2>1. Cardinality({}) = 0
      BY FS_EmptySet
    <2>2. ASSUME NEW f \in [1 .. 0 -> {}] PROVE f = << >>
      <3>1. f \in Seq({}) /\ Len(f) = 0
        OBVIOUS
      <3> QED
        BY <3>1
    <2>3. << >> \in [1 .. 0 -> {}] /\ IsInjective(<< >>)
      BY DEF IsInjective
    <2> QED
      BY <2>1, <2>2, <2>3 DEF SetToSeq
  <1>2. ASSUME NEW x PROVE SetToSeq({x}) = <<x>>
    <2>1. Cardinality({x}) = 1
      BY FS_Singleton
    <2>2. ASSUME NEW f \in [1 .. 1 -> {x}] PROVE f = <<x>>
      <3>1. f \in Seq({x}) /\ Len(f) = 1
        OBVIOUS
      <3>2. <<x>> \in Seq({x}) /\ Len(<<x>>) = 1 /\ <<x>>[1] = x
        OBVIOUS
      <3>3. \A i \in 1 .. Len(f) : f[i] = <<x>>[i]
        BY <3>1, <3>2
      <3> QED
        BY <3>1, <3>2, <3>3, SeqEqual
    <2>3. <<x>> \in [1 .. 1 -> {x}] /\ IsInjective(<<x>>)
      BY DEF IsInjective
    <2> QED
      BY <2>1, <2>2, <2>3 DEF SetToSeq
  <1> QED
    BY <1>1, <1>2

\* The open file is the last one.
LEMMA OpenIsLast ==
    ASSUME TypeOK, SqlInv
    PROVE  /\ OpenFiles \subseteq {Len(files)} /\ OpenFiles \subseteq DOMAIN files
           /\ Len(files) \in Nat /\ DOMAIN files = 1 .. Len(files)
           /\ \A f \in DOMAIN files : files[f].open <=> f \in OpenFiles
  <1>1. files \in Seq(File)
    BY DEF TypeOK
  <1> QED
    BY <1>1 DEF OpenFiles, SqlInv, FilesOrdered

\* The events after the files S were closed.
ReportedTo(ev, ino, S, n, x) ==
    \/ x = ev /\ (~ino \/ S = {})
    \/ Appended(ev, n, x) /\ S = {n}

\* Closing reports the closed file when inotify is used.
LEMMA CloseEventsAre ==
    ASSUME TypeOK, SqlInv, NEW S, S \subseteq OpenFiles
    PROVE  ReportedTo(events, inotify, S, Len(files), CloseEvents(S))
  <1>1. S = {} \/ S = {Len(files)}
    BY OpenIsLast
  <1>2. events \in Seq(DOMAIN files)
    BY DEF TypeOK
  <1>3. CASE ~inotify
    BY <1>3 DEF CloseEvents, ReportedTo
  <1>4. CASE inotify /\ S = {}
    <2>1. CloseEvents(S) = events \o << >>
      BY <1>4, SetToSeqSmall DEF CloseEvents
    <2>2. events \o << >> = events
      BY <1>2
    <2> QED
      BY <1>4, <2>1, <2>2 DEF ReportedTo
  <1>5. CASE inotify /\ S = {Len(files)}
    <2>1. CloseEvents(S) = events \o <<Len(files)>>
      BY <1>5, SetToSeqSmall DEF CloseEvents
    <2>2. PICK n \in DOMAIN files : n = Len(files)
      BY <1>5, OpenIsLast
    <2>3. events \o <<n>> = Append(events, n)
      BY <1>2
    <2> QED
      BY <1>5, <2>1, <2>2, <2>3 DEF ReportedTo, Appended
  <1> QED
    BY <1>1, <1>3, <1>4, <1>5

\* G is F after the files S were closed.
ClosedTo(F, S, G) ==
    /\ SameContents(F, G)
    /\ \A f \in DOMAIN F : (G[f].open <=> F[f].open /\ f \notin S) /\ G[f].age = F[f].age

\* Closing changes only whether the files are open.
LEMMA ClosedFacts ==
    ASSUME TypeOK, NEW S
    PROVE  ClosedTo(files, S, Closed(S))
  <1>1. PICK G : G = Closed(S)
    OBVIOUS
  <1>2. files \in Seq(File) /\ Len(files) \in Nat /\ DOMAIN files = 1 .. Len(files)
    BY DEF TypeOK
  <1>3. ASSUME NEW f \in DOMAIN files
        PROVE  /\ G[f] \in File /\ G[f].lines = files[f].lines /\ G[f].onDisk = files[f].onDisk
               /\ (G[f].open <=> files[f].open /\ f \notin S) /\ G[f].age = files[f].age
    <2>1. files[f] \in File /\ files[f].open \in BOOLEAN
      BY <1>2, FileFields
    <2>2. PICK o \in BOOLEAN : o = IF f \in S THEN FALSE ELSE files[f].open
      BY <2>1
    <2>3. PICK r \in File : r = files[f]
      BY <2>1
    <2>4. PICK t : t = [r EXCEPT !.open = o]
      OBVIOUS
    <2>5. G[f] = t
      BY <1>1, <2>2, <2>3, <2>4 DEF Closed
    <2>6. t \in File /\ t.lines = r.lines /\ t.open = o /\ t.onDisk = r.onDisk /\ t.age = r.age
      BY <2>4, SetOpen
    <2>7. o <=> files[f].open /\ f \notin S
      BY <2>1, <2>2
    <2> QED
      BY <2>3, <2>5, <2>6, <2>7
  <1>4. G \in [1 .. Len(files) -> File]
    BY <1>1, <1>2, <1>3 DEF Closed
  <1>5. G \in Seq(File) /\ DOMAIN G = DOMAIN files /\ Len(G) = Len(files)
    BY <1>2, <1>4
  <1>6. SameContents(files, G)
    BY <1>3, <1>5 DEF SameContents
  <1> QED
    BY <1>1, <1>3, <1>6 DEF ClosedTo

\* Closing open files and reporting it leaves nothing that the loader cannot find.
LEMMA CloseKnown ==
    ASSUME NEW F \in Seq(File), NEW S, NEW G, ClosedTo(F, S, G), NEW l, NEW ev \in Seq(DOMAIN F),
           NEW ql, NEW lf, NEW ino, NEW x, S \subseteq {Len(F)}, \A f \in S : F[f].open /\ f \in DOMAIN F,
           ReportedTo(ev, ino, S, Len(F), x),
           InTime(F, l, lf), Knows(F, l, ev, ql, lf, ino)
    PROVE  InTime(G, l, lf) /\ Knows(G, l, x, ql, lf, ino) /\ x \in Seq(DOMAIN F)
  <1>1. /\ DOMAIN G = DOMAIN F /\ Len(G) = Len(F)
        /\ \A f \in DOMAIN F : /\ G[f].onDisk = F[f].onDisk /\ G[f].age = F[f].age
                               /\ (G[f].open <=> F[f].open /\ f \notin S)
    BY DEF ClosedTo, SameContents
  <1>2. InTime(G, l, lf)
    BY <1>1 DEF InTime
  <1>3. OnDisk(G) = OnDisk(F)
    BY <1>1 DEF OnDisk
  <1>4. DOMAIN F = 1 .. Len(F) /\ Len(F) \in Nat /\ \A e \in ToSet(ev) : e \in DOMAIN F
    BY DEF ToSet
  <1>5. ev \in Seq(Nat)
    <2>1. Len(ev) \in Nat /\ ev \in [1 .. Len(ev) -> DOMAIN F]
      OBVIOUS
    <2>2. ev \in [1 .. Len(ev) -> Nat]
      BY <1>4, <2>1
    <2> QED
      BY <2>1, <2>2
  <1>6. /\ x \in Seq(DOMAIN F) /\ Incr(x)
        /\ \A e : e \in ToSet(x) => e \in ToSet(ev) \/ e \in S
        /\ \A e : e \in ToSet(ev) \/ (ino /\ e \in S) => e \in ToSet(x)
    <2>1. CASE x = ev /\ (~ino \/ S = {})
      BY <2>1 DEF Knows
    <2>2. CASE Appended(ev, Len(F), x) /\ S = {Len(F)}
      <3>1. PICK n \in Nat : n = Len(F)
        BY <1>4
      <3>2. n \in DOMAIN F /\ F[n].open /\ Appended(ev, n, x)
        BY <2>2, <3>1
      <3>3. x \in Seq(DOMAIN F)
        BY <3>2 DEF Appended
      <3>4. \A y \in ToSet(ev) : y < n
        BY <1>4, <3>1, <3>2 DEF Knows
      <3>5. Incr(x)
        BY <1>5, <3>2, <3>4, AppendGrows DEF Knows
      <3>6. \A e : e \in ToSet(x) <=> e \in ToSet(ev) \/ e = n
        BY <1>5, <3>2, AppendSet
      <3> QED
        BY <2>2, <3>1, <3>3, <3>5, <3>6
    <2> QED
      BY <2>1, <2>2 DEF ReportedTo
  <1>7. \A e \in ToSet(x) : ~G[e].open
    BY <1>1, <1>4, <1>6 DEF Knows
  <1>8. ASSUME lf = "up" /\ ino /\ l.pc # "start", NEW g \in OnDisk(F) PROVE Finds(G, l, x, ql, g)
    <2>1. Finds(F, l, ev, ql, g) /\ g \in DOMAIN F
      BY <1>8 DEF Knows, OnDisk
    <2> QED
      BY <1>1, <1>6, <1>8, <2>1 DEF Finds
  <1>9. Knows(G, l, x, ql, lf, ino)
    BY <1>3, <1>6, <1>7, <1>8 DEF Knows
  <1> QED
    BY <1>2, <1>6, <1>9

\* A new file at the end is open and younger than all others.
LEMMA NewKnown ==
    ASSUME NEW F \in Seq(File), NEW G, NEW v, NewLast(F, G, v), NEW l, NEW ev \in Seq(DOMAIN F),
           NEW ql, ql \subseteq DOMAIN F, NEW lf \in {"up", "flush"}, NEW ino,
           \A f \in DOMAIN F : G[f].age = F[f].age, G[Len(F) + 1].age = 0,
           InTime(F, l, lf), Knows(F, l, ev, ql, lf, ino)
    PROVE  InTime(G, l, lf) /\ Knows(G, l, ev, ql, lf, ino)
  <1>0. PICK c \in Nat : c = Len(F) + 1
    OBVIOUS
  <1>1. /\ DOMAIN G = DOMAIN F \cup {c}
        /\ \A f \in DOMAIN F : /\ G[f].open = F[f].open /\ G[f].onDisk = F[f].onDisk
                               /\ G[f].age = F[f].age /\ f < c /\ f \in Nat
        /\ G[c].open /\ G[c].age = 0
    <2>1. DOMAIN F = 1 .. Len(F) /\ Len(F) \in Nat
      OBVIOUS
    <2> QED
      BY <1>0, <2>1 DEF NewLast
  <1>2. InTime(G, l, lf)
    <2>1. ASSUME lf = "up", NEW f \in DOMAIN G, G[f].open PROVE G[f].age <= SavePeriod + 1
      <3>1. CASE f = c
        BY <1>1, <3>1, Constants
      <3>2. CASE f \in DOMAIN F
        BY <1>1, <2>1, <3>2 DEF InTime
      <3> QED
        BY <1>1, <3>1, <3>2
    <2>2. HasFile(l) => l.file \in DOMAIN G /\ ~G[l.file].open
      BY <1>1 DEF InTime
    <2> QED
      BY <2>1, <2>2 DEF InTime
  <1>3. \A e \in ToSet(ev) : e \in DOMAIN F
    BY DEF ToSet
  <1>4. \A g \in OnDisk(G) : g = c \/ g \in OnDisk(F)
    BY <1>1 DEF OnDisk
  <1>5. ASSUME HasFile(l), NEW g \in OnDisk(G) PROVE l.file <= g
    <2>1. l.file \in DOMAIN F
      BY <1>5 DEF InTime
    <2>2. CASE g = c
      BY <1>1, <2>1, <2>2
    <2>3. CASE g \in OnDisk(F)
      BY <1>5, <2>3 DEF Knows
    <2> QED
      BY <1>4, <2>2, <2>3
  <1>6. ASSUME lf = "up" /\ ino /\ l.pc # "start", NEW g \in OnDisk(G) PROVE Finds(G, l, ev, ql, g)
    <2>1. CASE g = c
      BY <1>1, <2>1 DEF Finds
    <2>2. CASE g \in OnDisk(F)
      <3>1. Finds(F, l, ev, ql, g) /\ g \in DOMAIN F
        BY <1>6, <2>2 DEF Knows, OnDisk
      <3> QED
        BY <1>1, <3>1 DEF Finds
    <2> QED
      BY <1>4, <2>1, <2>2
  <1>7. Knows(G, l, ev, ql, lf, ino)
    BY <1>1, <1>3, <1>5, <1>6 DEF Knows
  <1> QED
    BY <1>2, <1>7

-----------------------------------------------------------------------------
(* Steps that leave the queries where they are *)

\* What such a step leaves alone.
Quiet == UNCHANGED <<config, written, loader, process, db, failed, damaged, crashes, reruns>>

\* The states of the program.
Lives == {"up", "flush", "wait", "delete", "join", "down"}

\* What the program's life is to such a step.
Lived == LifeInv' /\ ThreadsInv' /\ (Strict' => Strict) /\ (Careful' => Careful)

\* A step that moves no query keeps the invariant.
LEMMA QuietStep ==
    ASSUME TypeOK, SqlInv, SameContents(files, files'), Quiet,
           terms' \in Nat, life' \in Lives, writeError' \in BOOLEAN,
           events' \in Seq(DOMAIN files), qload' \subseteq DOMAIN files,
           ClosedInTime', KnowsOldest', Lived
    PROVE  TypeOK' /\ SqlInv' /\ LossStep
  <1>1. /\ inotify' = inotify /\ threads' = threads /\ written' = written /\ loader' = loader
        /\ buff' = buff /\ queue' = queue /\ store' = store /\ sqlError' = sqlError /\ joined' = joined
        /\ db' = db /\ failed' = failed /\ damaged' = damaged /\ crashes' = crashes /\ reruns' = reruns
    BY DEF Quiet, process, config
  <1>2. files \in Seq(File) /\ written \in Nat /\ (AtFile(loader) => loader.file \in DOMAIN files)
    BY Types DEF TypeOK
  <1>3. FilesOrdered(files', written')
    BY <1>1, <1>2, SameContentsOrdered DEF SqlInv
  <1>4. files' \in Seq(File) /\ DOMAIN files' = DOMAIN files
    BY DEF SameContents
  <1>5. Cardinality(OpenFiles') <= 1
    BY <1>3, AtMostOneOpen DEF OpenFiles
  <1>6. TypeOK'
    <2>1. /\ inotify' \in BOOLEAN /\ threads' \in 1 .. StoreThreads
          /\ written' \in 0 .. MaxQueries /\ crashes' \in Nat /\ reruns' \in Nat
          /\ loader' \in [pc : LoaderPc, file : {0} \cup DOMAIN files', rest : Seq(Queries)]
      BY <1>1, <1>4 DEF TypeOK
    <2>2. /\ buff' \in [Ids -> Seq(Queries)] /\ queue' \in [Ids -> Seq(Queries)]
          /\ \A t \in Ids : Len(queue'[t]) <= ConcatLimit
      BY <1>1 DEF TypeOK
    <2>3. /\ store' \in [Ids -> StorePc] /\ sqlError' \in [Ids -> BOOLEAN] /\ joined' \subseteq Ids
          /\ db' \in Seq(Queries) /\ failed' \subseteq Queries /\ damaged' \subseteq Queries
      BY <1>1 DEF TypeOK
    <2> QED
      BY <1>4, <1>5, <2>1, <2>2, <2>3 DEF TypeOK, Lives
  <1>7. Waiting' = Waiting /\ Reading' = Reading
    BY <1>1, <1>2, SameContentsLines DEF Waiting, Reading
  <1>8. PathInv'
    BY <1>1, <1>7, PathNow DEF PathInv, Waiting
  <1>9. InMemory' = InMemory /\ Settled' = Settled
    BY <1>1 DEF InMemory, AtStores, Settled
  <1>10. OlderInv'
    <2>1. FromOlder(files, InMemory \cup ToSet(db))
      BY DEF SqlInv, OlderInv
    <2>2. FromOlder(files', InMemory \cup ToSet(db))
      BY <2>1, OlderSame
    <2> QED
      BY <1>1, <1>9, <2>2 DEF OlderInv
  <1>11. RestInv'
    BY <1>1, <1>7 DEF SqlInv, RestInv, Reading
  <1>12. AheadInv'
    BY <1>1, <1>7, <1>9 DEF SqlInv, AheadInv, Waiting, Reading, Lived
  <1>13. ReadInv'
    BY <1>1, <1>7, <1>9 DEF SqlInv, ReadInv, Reading, Lived
  <1>14. SqlInv'
    BY <1>3, <1>8, <1>10, <1>11, <1>12, <1>13 DEF SqlInv, Lived
  <1>15. Held \cup {} \subseteq Held' \cup damaged' /\ 1 .. written' \subseteq 1 .. written \cup {}
    BY <1>1, <1>7, <1>9 DEF Held
  <1>16. (AtFile(loader) => loader.file \in DOMAIN files)'
    BY <1>1, <1>2, <1>4
  <1>17. LossStep
    BY <1>2, <1>15, <1>16, LossHeld
  <1> QED
    BY <1>6, <1>14, <1>17

\* Nothing happens to the program's life.
LEMMA SameLife ==
    ASSUME TypeOK, SqlInv, Quiet, life' = life, terms' = terms,
           life = "down" => events' = events /\ qload' = qload
    PROVE  Lived /\ terms' \in Nat /\ life' \in Lives
  <1>1. /\ threads' = threads /\ loader' = loader /\ buff' = buff /\ queue' = queue
        /\ store' = store /\ sqlError' = sqlError
    BY DEF Quiet, process, config
  <1>2. ThreadsInv'
    BY <1>1 DEF SqlInv, ThreadsInv, ThreadOk, Terminating
  <1>3. LifeInv'
    BY <1>1 DEF SqlInv, LifeInv, Terminating
  <1>4. (Strict' => Strict) /\ (Careful' => Careful)
    BY <1>1 DEF Strict, Careful, Terminating
  <1> QED
    BY <1>2, <1>3, <1>4 DEF Lived, Lives, TypeOK

\* The destructors go on.
LEMMA EndingLife ==
    ASSUME TypeOK, SqlInv, Quiet, Terminating, life' \in {"wait", "delete", "join"}, terms' = terms
    PROVE  Lived /\ terms' \in Nat /\ life' \in Lives
  <1>1. /\ threads' = threads /\ loader' = loader /\ buff' = buff /\ queue' = queue
        /\ store' = store /\ sqlError' = sqlError
    BY DEF Quiet, process, config
  <1>2. Terminating' /\ life' # "up" /\ life' # "down"
    BY DEF Terminating
  <1>3. ThreadsInv'
    <2> SUFFICES ASSUME NEW t \in Ids
                 PROVE  ThreadOk(t, buff[t], queue[t], store[t], sqlError[t])'
      BY DEF ThreadsInv
    <2>1. ThreadOk(t, buff[t], queue[t], store[t], sqlError[t])
      BY DEF SqlInv, ThreadsInv
    <2> QED
      BY <1>1, <1>2, <2>1 DEF ThreadOk
  <1>4. LifeInv'
    BY <1>1, <1>2 DEF SqlInv, LifeInv
  <1>5. (Strict' => Strict) /\ (Careful' => Careful)
    BY <1>1, <1>2 DEF Strict, Careful
  <1> QED
    BY <1>3, <1>4, <1>5 DEF Lived, Lives, TypeOK


\* Files have the same contents as themselves.
LEMMA SameFiles ==
    ASSUME NEW F \in Seq(File) PROVE SameContents(F, F)
  BY DEF SameContents

\* CloseExceeded keeps the invariant and loses nothing that may not be lost.
LEMMA CloseExceededKeeps ==
    ASSUME TypeOK, SqlInv, CloseExceeded
    PROVE  TypeOK' /\ SqlInv' /\ LossStep
  <1>1. PICK S : S = {f \in OpenFiles : Exceeded(f)}
    OBVIOUS
  <1>2. /\ files' = Closed(S) /\ events' = CloseEvents(S)
        /\ Quiet
        /\ life' = life /\ qload' = qload /\ terms' = terms /\ writeError' = writeError /\ life = "up"
    BY <1>1 DEF CloseExceeded, counters, Quiet
  <1>3. ClosedTo(files, S, files') /\ ReportedTo(events, inotify, S, Len(files), events')
    BY <1>1, <1>2, ClosedFacts, CloseEventsAre
  <1>4. SameContents(files, files')
    BY <1>3 DEF ClosedTo
  <1>5. S \subseteq {Len(files)} /\ \A f \in S : files[f].open /\ f \in DOMAIN files
    BY <1>1, OpenIsLast
  <1>6. files \in Seq(File) /\ events \in Seq(DOMAIN files) /\ qload' \subseteq DOMAIN files
        /\ writeError' \in BOOLEAN
    BY <1>2 DEF TypeOK
  <1>7. /\ InTime(files', loader, life) /\ Knows(files', loader, events', qload, life, inotify)
        /\ events' \in Seq(DOMAIN files)
    BY <1>3, <1>5, <1>6, CloseKnown DEF SqlInv, ClosedInTime, KnowsOldest
  <1>8. ClosedInTime' /\ KnowsOldest'
    BY <1>2, <1>7 DEF ClosedInTime, KnowsOldest, Quiet, config
  <1>9. Lived /\ terms' \in Nat /\ life' \in Lives
    BY <1>2, SameLife
  <1> QED
    BY <1>2, <1>4, <1>6, <1>7, <1>8, <1>9, QuietStep

\* INotify keeps the invariant and loses nothing that may not be lost.
LEMMA INotifyKeeps ==
    ASSUME TypeOK, SqlInv, INotify
    PROVE  TypeOK' /\ SqlInv' /\ LossStep
  <1>1. /\ files' = files /\ Quiet
        /\ life' = life /\ life = "up" /\ terms' = terms /\ events # << >> /\ writeError' = writeError
        /\ loader' = loader /\ inotify' = inotify
    BY DEF INotify, counters, Quiet, config
  <1>2. files \in Seq(File) /\ events \in Seq(DOMAIN files) /\ qload \subseteq DOMAIN files
        /\ DOMAIN files = 1 .. Len(files) /\ Len(files) \in Nat
    BY DEF TypeOK
  <1>3. PICK h : h = Head(events)
    OBVIOUS
  <1>4. qload' = qload \cup {h} /\ events' = Tail(events)
    BY <1>3 DEF INotify
  <1>5. events \in Seq(Nat)
    <2>1. Len(events) \in Nat /\ events \in [1 .. Len(events) -> DOMAIN files]
      BY <1>2
    <2>2. events \in [1 .. Len(events) -> Nat]
      BY <1>2, <2>1
    <2> QED
      BY <2>1, <2>2
  <1>6. h \in DOMAIN files /\ events' \in Seq(DOMAIN files)
    BY <1>1, <1>2, <1>3, <1>4
  <1>7. ToSet(events) = {h} \cup ToSet(events')
    <2>1. PICK t : t = Tail(events)
      OBVIOUS
    <2>2. PICK ev \in Seq(Nat) : ev = events
      BY <1>5
    <2>3. ev # << >> /\ Cut(ev, h, t)
      BY <1>1, <1>3, <2>1, <2>2 DEF Cut
    <2>4. \A y : y \in ToSet(ev) <=> y = h \/ y \in ToSet(t)
      BY <2>3, TailSet
    <2> QED
      BY <1>4, <2>1, <2>2, <2>4
  <1>8. Incr(events') /\ \A y \in ToSet(events') : h < y
    BY <1>1, <1>3, <1>4, <1>5, TailGrows DEF SqlInv, KnowsOldest, Knows
  <1>9. SameContents(files, files') /\ ClosedInTime'
    BY <1>1, <1>2, SameFiles DEF SqlInv, ClosedInTime
  <1>10. Knows(files, loader, events, qload, life, inotify)
    BY DEF SqlInv, KnowsOldest
  <1>11. ~files[h].open /\ \A e \in ToSet(events') : ~files[e].open
    BY <1>7, <1>10 DEF Knows
  <1>12. ASSUME NEW g \in OnDisk(files), Finds(files, loader, events, qload, g)
         PROVE  Finds(files, loader, events', qload', g)
    <2>1. CASE g \in qload \/ (HasFile(loader) /\ g = loader.file)
      BY <1>4, <2>1 DEF Finds
    <2>2. CASE (\A k \in qload : k < g) /\ g \in ToSet(events)
      BY <1>4, <1>7, <1>8, <2>2 DEF Finds
    <2>3. CASE (\A k \in qload : k < g) /\ files[g].open
      <3>1. g \in DOMAIN files /\ g = Len(files)
        BY <2>3 DEF OnDisk, SqlInv, FilesOrdered
      <3>2. h < g
        BY <1>2, <1>6, <1>11, <2>3, <3>1
      <3> QED
        BY <1>4, <2>3, <3>2 DEF Finds
    <2> QED
      BY <1>12, <2>1, <2>2, <2>3 DEF Finds
  <1>13. KnowsOldest'
    BY <1>1, <1>8, <1>10, <1>11, <1>12 DEF Knows, KnowsOldest
  <1>14. Lived /\ terms' \in Nat /\ life' \in Lives
    BY <1>1, SameLife
  <1>15. qload' \subseteq DOMAIN files /\ writeError' \in BOOLEAN
    BY <1>1, <1>2, <1>4, <1>6 DEF TypeOK
  <1> QED
    BY <1>1, <1>6, <1>9, <1>13, <1>14, <1>15, QuietStep

\* Terminate keeps the invariant and loses nothing that may not be lost.
LEMMA TerminateKeeps ==
    ASSUME TypeOK, SqlInv, Terminate
    PROVE  TypeOK' /\ SqlInv' /\ LossStep
  <1>1. /\ files' = files /\ Quiet /\ loader' = loader /\ inotify' = inotify /\ threads' = threads
        /\ life' = "flush" /\ life = "up" /\ terms' = terms + 1 /\ events' = events /\ qload' = qload
        /\ writeError' = writeError
    BY DEF Terminate, cache, Quiet, config
  <1>2. files \in Seq(File) /\ events \in Seq(DOMAIN files) /\ qload \subseteq DOMAIN files /\ terms \in Nat
        /\ writeError \in BOOLEAN
    BY DEF TypeOK
  <1>3. SameContents(files, files') /\ terms' \in Nat /\ terms' > 0
    BY <1>1, <1>2, SameFiles
  <1>4. ClosedInTime' /\ KnowsOldest'
    BY <1>1 DEF SqlInv, ClosedInTime, InTime, KnowsOldest, Knows
  <1>5. Terminating' /\ ~Terminating
    BY <1>1 DEF Terminating
  <1>6. ThreadsInv'
    <2>1. buff' = buff /\ queue' = queue /\ store' = store /\ sqlError' = sqlError
      BY <1>1 DEF Quiet, process
    <2> SUFFICES ASSUME NEW t \in Ids
                 PROVE  ThreadOk(t, buff[t], queue[t], store[t], sqlError[t])'
      BY DEF ThreadsInv
    <2>2. ThreadOk(t, buff[t], queue[t], store[t], sqlError[t])
      BY DEF SqlInv, ThreadsInv
    <2> QED
      BY <1>1, <1>5, <2>1, <2>2 DEF ThreadOk
  <1>7. LifeInv'
    BY <1>1, <1>3 DEF LifeInv
  <1>8. (Strict' => Strict) /\ (Careful' => Careful)
    BY <1>1, <1>2, <1>3, <1>5 DEF Strict, Careful
  <1>9. Lived /\ life' \in Lives
    BY <1>1, <1>6, <1>7, <1>8 DEF Lived, Lives
  <1> QED
    BY <1>1, <1>2, <1>3, <1>4, <1>9, QuietStep

\* DeleteSqlStore keeps the invariant and loses nothing that may not be lost.
LEMMA DeleteSqlStoreKeeps ==
    ASSUME TypeOK, SqlInv, DeleteSqlStore
    PROVE  TypeOK' /\ SqlInv' /\ LossStep
  <1>1. /\ files' = Closed(OpenFiles) /\ Quiet /\ loader' = loader /\ inotify' = inotify
        /\ life' = "wait" /\ life = "flush" /\ terms' = terms /\ events' = events /\ qload' = qload
        /\ writeError' = writeError
    BY DEF DeleteSqlStore, cache, counters, Quiet, config
  <1>2. files \in Seq(File) /\ events \in Seq(DOMAIN files) /\ qload \subseteq DOMAIN files
        /\ writeError \in BOOLEAN
    BY DEF TypeOK
  <1>3. ClosedTo(files, OpenFiles, files')
    BY <1>1, ClosedFacts
  <1>4. /\ SameContents(files, files') /\ DOMAIN files' = DOMAIN files
        /\ \A f \in DOMAIN files : ~files'[f].open /\ files'[f].onDisk = files[f].onDisk
    BY <1>3, OpenIsLast DEF ClosedTo, SameContents
  <1>5. ClosedInTime'
    BY <1>1, <1>4 DEF SqlInv, ClosedInTime, InTime
  <1>6. \A e \in ToSet(events) : e \in DOMAIN files
    BY <1>2 DEF ToSet
  <1>7. OnDisk(files') = OnDisk(files)
    BY <1>4 DEF OnDisk
  <1>8. KnowsOldest'
    BY <1>1, <1>4, <1>6, <1>7 DEF SqlInv, KnowsOldest, Knows
  <1>9. Lived /\ terms' \in Nat /\ life' \in Lives
    BY <1>1, EndingLife DEF Terminating
  <1> QED
    BY <1>1, <1>2, <1>4, <1>5, <1>8, <1>9, QuietStep

\* The destructor goes to its next loop.
LEMMA DestructorKeeps ==
    ASSUME TypeOK, SqlInv, WaitsEnd \/ DeletesEnd
    PROVE  TypeOK' /\ SqlInv' /\ LossStep
  <1>1. /\ files' = files /\ Quiet /\ loader' = loader /\ inotify' = inotify
        /\ life \in {"wait", "delete"} /\ life' \in {"delete", "join"}
        /\ terms' = terms /\ events' = events /\ qload' = qload /\ writeError' = writeError
    BY DEF WaitsEnd, DeletesEnd, cache, counters, Quiet, config
  <1>2. files \in Seq(File) /\ events \in Seq(DOMAIN files) /\ qload \subseteq DOMAIN files
        /\ writeError \in BOOLEAN
    BY DEF TypeOK
  <1>3. SameContents(files, files')
    BY <1>1, <1>2, SameFiles
  <1>4. ClosedInTime'
    BY <1>1 DEF SqlInv, ClosedInTime, InTime
  <1>5. KnowsOldest'
    BY <1>1 DEF SqlInv, KnowsOldest, Knows
  <1>6. Lived /\ terms' \in Nat /\ life' \in Lives
    BY <1>1, EndingLife DEF Terminating
  <1> QED
    BY <1>1, <1>2, <1>3, <1>4, <1>5, <1>6, QuietStep

\* Restart keeps the invariant and loses nothing that may not be lost.
LEMMA RestartKeeps ==
    ASSUME TypeOK, SqlInv, Restart
    PROVE  TypeOK' /\ SqlInv' /\ LossStep
  <1>1. /\ files' = files /\ Quiet /\ loader' = loader /\ inotify' = inotify /\ threads' = threads
        /\ life' = "up" /\ life = "down" /\ terms' = terms /\ events' = events /\ qload' = qload
        /\ writeError' = writeError
    BY DEF Restart, cache, counters, Quiet, config
  <1>2. files \in Seq(File) /\ events \in Seq(DOMAIN files) /\ qload \subseteq DOMAIN files /\ terms' \in Nat
        /\ writeError \in BOOLEAN
    BY <1>1 DEF TypeOK
  <1>3. SameContents(files, files')
    BY <1>1, <1>2, SameFiles
  <1>4. loader.pc = "start"
    BY <1>1 DEF SqlInv, LifeInv
  <1>5. ClosedInTime' /\ KnowsOldest'
    BY <1>1, <1>4 DEF SqlInv, ClosedInTime, InTime, KnowsOldest, Knows
  <1>6. ~Terminating' /\ ~Terminating
    BY <1>1 DEF Terminating
  <1>7. ThreadsInv'
    <2>1. buff' = buff /\ queue' = queue /\ store' = store /\ sqlError' = sqlError
      BY <1>1 DEF Quiet, process
    <2> SUFFICES ASSUME NEW t \in Ids
                 PROVE  ThreadOk(t, buff[t], queue[t], store[t], sqlError[t])'
      BY DEF ThreadsInv
    <2>2. ThreadOk(t, buff[t], queue[t], store[t], sqlError[t])
      BY DEF SqlInv, ThreadsInv
    <2> QED
      BY <1>1, <1>6, <2>1, <2>2 DEF ThreadOk
  <1>8. Lived /\ life' \in Lives
    BY <1>1, <1>6, <1>7 DEF Lived, Lives, LifeInv, Strict, Careful
  <1> QED
    BY <1>1, <1>2, <1>3, <1>5, <1>8, QuietStep

\* Tick keeps the invariant and loses nothing that may not be lost.
LEMMA TickKeeps ==
    ASSUME TypeOK, SqlInv, Tick
    PROVE  TypeOK' /\ SqlInv' /\ LossStep
  <1>1. /\ files' = [f \in DOMAIN files |->
                       [files[f] EXCEPT !.age = IF @ < MaxAge THEN @ + 1 ELSE @]]
        /\ Quiet /\ loader' = loader /\ inotify' = inotify /\ writeError' = writeError
        /\ life' = life /\ terms' = terms /\ events' = events /\ qload' = qload
        /\ life = "up" => \A f \in OpenFiles : ~ Exceeded(f)
    BY DEF Tick, cache, counters, Quiet, config
  <1>2. files \in Seq(File) /\ events \in Seq(DOMAIN files) /\ qload \subseteq DOMAIN files
        /\ DOMAIN files = 1 .. Len(files) /\ Len(files) \in Nat /\ writeError' \in BOOLEAN
    BY <1>1 DEF TypeOK
  <1>3. ASSUME NEW f \in DOMAIN files
        PROVE  /\ files'[f] \in File /\ files'[f].lines = files[f].lines
               /\ files'[f].onDisk = files[f].onDisk /\ files'[f].open = files[f].open
               /\ files'[f].age <= files[f].age + 1 /\ files'[f].age \in Nat /\ files[f].age \in Nat
    <2>1. PICK r \in File : r = files[f]
      BY <1>2
    <2>2. r.age \in 0 .. MaxAge /\ MaxAge \in Nat
      BY FileFields, Constants
    <2>3. PICK a : a = IF r.age < MaxAge THEN r.age + 1 ELSE r.age
      OBVIOUS
    <2>4. a \in 0 .. MaxAge /\ a <= r.age + 1 /\ a \in Nat /\ r.age \in Nat
      BY <2>2, <2>3
    <2>5. PICK t : t = [r EXCEPT !.age = a]
      OBVIOUS
    <2>6. files'[f] = t
      BY <1>1, <2>1, <2>3, <2>5
    <2>7. t \in File /\ t.lines = r.lines /\ t.open = r.open /\ t.onDisk = r.onDisk /\ t.age = a
      BY <2>4, <2>5, SetAge
    <2> QED
      BY <2>1, <2>4, <2>6, <2>7
  <1>4. files' \in [1 .. Len(files) -> File]
    BY <1>1, <1>2, <1>3
  <1>5. files' \in Seq(File) /\ DOMAIN files' = DOMAIN files /\ Len(files') = Len(files)
    BY <1>2, <1>4
  <1>6. SameContents(files, files')
    BY <1>3, <1>5 DEF SameContents
  <1>7. ClosedInTime'
    <2>1. ASSUME life' = "up", NEW f \in DOMAIN files', files'[f].open PROVE files'[f].age <= SavePeriod + 1
      <3>1. f \in OpenFiles /\ f \in DOMAIN files
        BY <1>3, <1>5, <2>1 DEF OpenFiles
      <3>2. ~(files[f].age > SavePeriod)
        BY <1>1, <2>1, <3>1 DEF Exceeded
      <3>3. SavePeriod \in Nat
        BY Constants
      <3> QED
        BY <1>3, <3>1, <3>2, <3>3
    <2>2. life' \in {"wait", "delete", "join", "down"} => \A f \in DOMAIN files' : ~files'[f].open
      BY <1>1, <1>3, <1>5 DEF SqlInv, ClosedInTime, InTime
    <2>3. HasFile(loader') => loader'.file \in DOMAIN files' /\ ~files'[loader'.file].open
      BY <1>1, <1>3, <1>5 DEF SqlInv, ClosedInTime, InTime
    <2> QED
      BY <2>1, <2>2, <2>3 DEF ClosedInTime, InTime
  <1>8. OnDisk(files') = OnDisk(files)
    BY <1>3, <1>5 DEF OnDisk
  <1>9. \A e \in ToSet(events) : e \in DOMAIN files
    BY <1>2 DEF ToSet
  <1>10. \A g \in OnDisk(files) : Finds(files, loader, events, qload, g) => Finds(files', loader, events, qload, g)
    BY <1>3 DEF Finds, OnDisk
  <1>11. KnowsOldest'
    BY <1>1, <1>3, <1>8, <1>9, <1>10 DEF SqlInv, KnowsOldest, Knows
  <1>12. Lived /\ terms' \in Nat /\ life' \in Lives
    BY <1>1, SameLife
  <1> QED
    BY <1>1, <1>2, <1>6, <1>7, <1>11, <1>12, QuietStep

-----------------------------------------------------------------------------
(* The writer *)

\* What a step of the writer leaves alone.
Writes == UNCHANGED <<config, life, qload, loader, process, db, counters>>

\* The types of what it changes.
FileTypes ==
    /\ written \in 0 .. MaxQueries /\ files \in Seq(File) /\ writeError \in BOOLEAN
    /\ events \in Seq(DOMAIN files) /\ failed \subseteq Queries /\ damaged \subseteq Queries

\* What it does to the files.
FilesKept ==
    /\ DOMAIN files \subseteq DOMAIN files' /\ Reading' = Reading
    /\ FilesOrdered(files, written)' /\ ClosedInTime' /\ KnowsOldest'
    /\ failed \subseteq failed' /\ damaged \subseteq damaged'

\* A step that writes a query, or fails to, keeps the invariant; S are the queries written.
LEMMA FileStep ==
    ASSUME TypeOK, SqlInv, Writes, life # "down", FileTypes', FilesKept,
           Path(Waiting', loader.rest, buff, queue, db, crashes + reruns, written'),
           FromOlder(files', InMemory \cup ToSet(db)),
           Strict => Ahead(Waiting' \cup Reading \cup InMemory, db, failed' \cup damaged'),
           NEW S, 1 .. written' \subseteq 1 .. written \cup S,
           Waiting \cup S \subseteq Waiting' \cup failed' \cup damaged'
    PROVE  TypeOK' /\ SqlInv' /\ LossStep
  <1>1. /\ inotify' = inotify /\ threads' = threads /\ life' = life /\ qload' = qload /\ loader' = loader
        /\ buff' = buff /\ queue' = queue /\ store' = store /\ sqlError' = sqlError /\ joined' = joined
        /\ db' = db /\ terms' = terms /\ crashes' = crashes /\ reruns' = reruns
    BY DEF Writes, process, counters, config
  <1>2. Cardinality(OpenFiles') <= 1
    BY AtMostOneOpen DEF OpenFiles, FilesKept
  <1>3. loader' \in [pc : LoaderPc, file : {0} \cup DOMAIN files', rest : Seq(Queries)]
    <2>1. loader \in LoaderState(DOMAIN files)
      BY Types
    <2> QED
      BY <1>1, <2>1 DEF LoaderState, FilesKept
  <1>4. TypeOK'
    <2>1. /\ inotify' \in BOOLEAN /\ threads' \in 1 .. StoreThreads /\ life' \in Lives
          /\ qload' \subseteq DOMAIN files' /\ terms' \in Nat /\ crashes' \in Nat /\ reruns' \in Nat
      BY <1>1 DEF TypeOK, Lives, FilesKept
    <2>2. /\ buff' \in [Ids -> Seq(Queries)] /\ queue' \in [Ids -> Seq(Queries)]
          /\ \A t \in Ids : Len(queue'[t]) <= ConcatLimit
      BY <1>1 DEF TypeOK
    <2>3. /\ store' \in [Ids -> StorePc] /\ sqlError' \in [Ids -> BOOLEAN] /\ joined' \subseteq Ids
          /\ db' \in Seq(Queries)
      BY <1>1 DEF TypeOK
    <2> QED
      BY <1>2, <1>3, <2>1, <2>2, <2>3 DEF TypeOK, FileTypes, Lives
  <1>5. Reading' = Reading /\ InMemory' = InMemory /\ Settled' = ToSet(db) \cup failed'
        /\ failed \subseteq failed' /\ damaged \subseteq damaged'
    BY <1>1 DEF FilesKept, InMemory, AtStores, Settled
  <1>6. PathInv'
    BY <1>1 DEF PathInv, Waiting
  <1>7. OlderInv'
    BY <1>1, <1>5 DEF OlderInv
  <1>8. RestInv'
    BY <1>1, <1>5 DEF SqlInv, RestInv, Reading
  <1>9. AheadInv'
    BY <1>1, <1>5 DEF AheadInv, Waiting, Reading, Strict
  <1>10. ReadInv'
    <2>1. Careful' <=> Careful
      BY <1>1 DEF Careful, Terminating
    <2>2. Careful => Reading \subseteq InMemory \cup Settled \cup damaged
      BY DEF SqlInv, ReadInv, Reading
    <2>3. Settled \subseteq Settled'
      BY <1>5 DEF Settled
    <2> QED
      BY <1>5, <2>1, <2>2, <2>3 DEF ReadInv, Reading
  <1>11. ThreadsInv' /\ LifeInv'
    BY <1>1 DEF SqlInv, ThreadsInv, ThreadOk, LifeInv, Terminating
  <1>12. SqlInv'
    BY <1>6, <1>7, <1>8, <1>9, <1>10, <1>11 DEF SqlInv, FilesKept
  <1>13. Held \cup S \subseteq Held' \cup damaged'
    BY <1>5 DEF Held, Settled
  <1>14. AtFile(loader) => loader.file \in DOMAIN files
    BY Types
  <1>15. (AtFile(loader) => loader.file \in DOMAIN files)'
    BY <1>1, <1>14 DEF FilesKept
  <1>16. LossStep
    BY <1>13, <1>14, <1>15, LossHeld
  <1> QED
    BY <1>4, <1>12, <1>16

\* The next query is in a file, refused, or its line was not written.
LEMMA WriterStep ==
    ASSUME TypeOK, SqlInv, Writes, life # "down", FileTypes', FilesKept,
           NEW v \in Nat, v = written + 1, written' = v,
           FromOlder(files', InMemory \cup ToSet(db)),
           \/ Waiting' = Waiting \cup {v}
           \/ Waiting' = Waiting /\ v \in failed' \cup damaged'
    PROVE  TypeOK' /\ SqlInv' /\ LossStep
  <1>1. /\ written \in Nat /\ crashes + reruns \in Nat /\ db \in Seq(Nat) /\ loader.rest \in Seq(Nat)
        /\ \A t \in Ids : buff[t] \in Seq(Nat) /\ queue[t] \in Seq(Nat)
        /\ InMemory = Memory(loader.rest, buff, queue)
    BY Types
  <1>2. InMemory \cup ToSet(db) \subseteq Nat
    <2>1. ASSUME NEW x \in Memory(loader.rest, buff, queue) PROVE x \in Nat
      BY <1>1, MemoryElement, NatElements
    <2> QED
      BY <1>1, <2>1, NatElements
  <1>3. Path(Waiting, loader.rest, buff, queue, db, crashes + reruns, written)
    BY PathNow
  <1>4. /\ Path(Waiting \cup {v}, loader.rest, buff, queue, db, crashes + reruns, v)
        /\ Path(Waiting, loader.rest, buff, queue, db, crashes + reruns, v)
    <2>1. written < v
      BY <1>1
    <2> QED
      BY <1>1, <1>2, <1>3, <2>1, PathGrows
  <1>5. Path(Waiting', loader.rest, buff, queue, db, crashes + reruns, written')
    BY <1>4
  <1>6. \A y \in ToSet(db) : y < v
    BY <1>1, <1>2, <1>3 DEF Path, UpTo
  <1>7. Strict => Ahead(Waiting' \cup Reading \cup InMemory, db, failed' \cup damaged')
    <2>1. Strict => Ahead(Waiting \cup Reading \cup InMemory, db, failed \cup damaged)
      BY DEF SqlInv, AheadInv, Waiting, Reading
    <2>2. /\ Waiting' \cup Reading \cup InMemory \subseteq (Waiting \cup Reading \cup InMemory) \cup {v}
          /\ failed \cup damaged \subseteq failed' \cup damaged'
      BY DEF FilesKept
    <2> QED
      BY <1>6, <2>1, <2>2, AheadGrows
  <1>8. 1 .. written' \subseteq 1 .. written \cup {v} /\ Waiting \cup {v} \subseteq Waiting' \cup failed' \cup damaged'
    BY <1>1
  <1> QED
    BY <1>5, <1>7, <1>8, FileStep

\* All queries in memory and database were written before the next one.
LEMMA NextIsLast ==
    ASSUME TypeOK, SqlInv, NEW v, v = written + 1
    PROVE  /\ \A y \in InMemory \cup ToSet(db) : y < v
           /\ FromOlder(files, InMemory \cup ToSet(db))
  <1>1. /\ written \in Nat /\ db \in Seq(Nat) /\ loader.rest \in Seq(Nat)
        /\ \A t \in Ids : buff[t] \in Seq(Nat) /\ queue[t] \in Seq(Nat)
        /\ InMemory = Memory(loader.rest, buff, queue)
    BY Types
  <1>2. InMemory \cup ToSet(db) \subseteq Nat
    <2>1. ASSUME NEW x \in Memory(loader.rest, buff, queue) PROVE x \in Nat
      BY <1>1, MemoryElement, NatElements
    <2> QED
      BY <1>1, <2>1, NatElements
  <1>3. \A y \in InMemory \cup ToSet(db) : y <= written
    BY <1>1, PathNow DEF Path, UpTo
  <1> QED
    BY <1>1, <1>2, <1>3 DEF SqlInv, OlderInv

\* WriteFails keeps the invariant and loses nothing that may not be lost.
LEMMA WriteFailsKeeps ==
    ASSUME TypeOK, SqlInv, WriteFails
    PROVE  TypeOK' /\ SqlInv' /\ LossStep
  <1>1. /\ Writes
        /\ life \in {"up", "flush"} /\ written < MaxQueries
        /\ files' = Closed(OpenFiles) /\ events' = CloseEvents(OpenFiles)
        /\ written' = written + 1 /\ failed' = failed \cup {written'} /\ damaged' = damaged
        /\ writeError' = writeError /\ loader' = loader /\ inotify' = inotify /\ life' = life /\ qload' = qload
    BY DEF WriteFails, Writes, config
  <1>2. PICK v \in Nat : v = written + 1
    BY Types
  <1>3. /\ files \in Seq(File) /\ events \in Seq(DOMAIN files) /\ written \in Nat
        /\ (AtFile(loader) => loader.file \in DOMAIN files)
    BY Types DEF TypeOK
  <1>4. ClosedTo(files, OpenFiles, files') /\ ReportedTo(events, inotify, OpenFiles, Len(files), events')
    BY <1>1, ClosedFacts, CloseEventsAre
  <1>5. SameContents(files, files')
    BY <1>4 DEF ClosedTo
  <1>6. /\ InTime(files', loader, life) /\ Knows(files', loader, events', qload, life, inotify)
        /\ events' \in Seq(DOMAIN files)
    BY <1>3, <1>4, OpenIsLast, CloseKnown DEF SqlInv, ClosedInTime, KnowsOldest
  <1>7. ClosedInTime' /\ KnowsOldest'
    BY <1>1, <1>6 DEF ClosedInTime, KnowsOldest
  <1>8. FilesOrdered(files', v)
    <2>1. written <= v
      BY <1>2, <1>3
    <2> QED
      BY <1>3, <1>5, <2>1, SameContentsOrdered DEF SqlInv
  <1>9. Waiting' = Waiting /\ Reading' = Reading
    BY <1>1, <1>3, <1>5, SameContentsLines DEF Waiting, Reading
  <1>10. files' \in Seq(File) /\ DOMAIN files' = DOMAIN files
    BY <1>5 DEF SameContents
  <1>11. v \in Queries /\ v \in 0 .. MaxQueries
    BY <1>1, <1>2, <1>3, Constants DEF Queries
  <1>12. FileTypes'
    BY <1>1, <1>2, <1>6, <1>10, <1>11 DEF FileTypes, TypeOK
  <1>13. FilesKept
    BY <1>1, <1>2, <1>7, <1>8, <1>9, <1>10 DEF FilesKept
  <1>14. FromOlder(files', InMemory \cup ToSet(db))
    BY <1>2, <1>5, NextIsLast, OlderSame
  <1>15. life # "down" /\ written' = v /\ v \in failed'
    BY <1>1, <1>2
  <1> QED
    BY <1>1, <1>2, <1>9, <1>12, <1>13, <1>14, <1>15, WriterStep

\* WriteDropped keeps the invariant and loses the line that is not written only.
LEMMA WriteDroppedKeeps ==
    ASSUME TypeOK, SqlInv, WriteDropped
    PROVE  TypeOK' /\ SqlInv' /\ LossStep
  <1>1. /\ Writes /\ life \in {"up", "flush"} /\ written < MaxQueries /\ files' = files /\ events' = events
        /\ written' = written + 1 /\ damaged' = damaged \cup {written'} /\ failed' = failed
        /\ writeError' = writeError /\ loader' = loader /\ inotify' = inotify /\ life' = life /\ qload' = qload
    BY DEF WriteDropped, Writes, config, cache
  <1>2. PICK v \in Nat : v = written + 1
    BY Types
  <1>3. files \in Seq(File) /\ written \in Nat
    BY Types DEF TypeOK
  <1>4. SameContents(files, files')
    BY <1>1, <1>3, SameFiles
  <1>5. FilesOrdered(files', v)
    <2>1. written <= v
      BY <1>2, <1>3
    <2> QED
      BY <1>2, <1>3, <1>4, <2>1, SameContentsOrdered DEF SqlInv
  <1>6. Waiting' = Waiting /\ Reading' = Reading
    BY <1>1 DEF Waiting, Reading
  <1>7. ClosedInTime' /\ KnowsOldest'
    BY <1>1 DEF SqlInv, ClosedInTime, KnowsOldest
  <1>8. v \in Queries /\ v \in 0 .. MaxQueries
    BY <1>1, <1>2, <1>3, Constants DEF Queries
  <1>9. FileTypes'
    BY <1>1, <1>2, <1>8 DEF FileTypes, TypeOK
  <1>10. FilesKept
    BY <1>1, <1>2, <1>5, <1>6, <1>7 DEF FilesKept
  <1>11. FromOlder(files', InMemory \cup ToSet(db))
    BY <1>1, <1>2, NextIsLast
  <1>12. life # "down" /\ written' = v /\ v \in damaged'
    BY <1>1, <1>2
  <1> QED
    BY <1>1, <1>2, <1>6, <1>9, <1>10, <1>11, <1>12, WriterStep

\* Write keeps the invariant and loses nothing that may not be lost.
LEMMA WriteKeeps ==
    ASSUME TypeOK, SqlInv, Write
    PROVE  TypeOK' /\ SqlInv' /\ LossStep
  <1>1. PICK old : old = {f \in OpenFiles : Exceeded(f)}
    OBVIOUS
  <1>2. PICK cur : cur = OpenFiles \ old
    OBVIOUS
  <1>3. /\ Writes /\ failed' = failed /\ damaged' = damaged /\ writeError' \in BOOLEAN
        /\ life \in {"up", "flush"} /\ written < MaxQueries /\ written' = written + 1
        /\ events' = CloseEvents(old) /\ loader' = loader /\ inotify' = inotify /\ life' = life /\ qload' = qload
    BY <1>1 DEF Write, Writes, config
  <1>4. /\ cur # {} => files' = [f \in DOMAIN files |->
                                   [files[f] EXCEPT !.lines =
                                      IF f \in cur THEN Append(@, written') ELSE @]]
        /\ cur = {} => files' = Append(Closed(old), NewFile(written'))
    BY <1>1, <1>2 DEF Write
  <1>5. PICK v \in Nat : v = written + 1
    BY Types
  <1>6. /\ files \in Seq(File) /\ events \in Seq(DOMAIN files) /\ written \in Nat /\ written < v
        /\ (AtFile(loader) => loader.file \in DOMAIN files)
        /\ qload \subseteq DOMAIN files
    BY <1>5, Types DEF TypeOK
  <1>7. v \in Queries
    BY <1>3, <1>5, <1>6, Constants DEF Queries
  <1>8. /\ OpenFiles \subseteq {Len(files)} /\ OpenFiles \subseteq DOMAIN files
        /\ Len(files) \in Nat /\ DOMAIN files = 1 .. Len(files)
        /\ \A f \in DOMAIN files : files[f].open <=> f \in OpenFiles
    BY OpenIsLast
  <1>9. InTime(files, loader, life) /\ Knows(files, loader, events, qload, life, inotify)
        /\ FilesOrdered(files, written)
    BY DEF SqlInv, ClosedInTime, KnowsOldest
  <1>10. ReportedTo(events, inotify, old, Len(files), events')
    BY <1>1, <1>3, CloseEventsAre
  <1>a. v \in 0 .. MaxQueries
    BY <1>3, <1>5, <1>6, Constants
  <1>11. CASE cur # {}
    <2>1. PICK c \in DOMAIN files : c \in cur
      BY <1>2, <1>8, <1>11
    <2>2. c = Len(files) /\ OpenFiles = {c} /\ cur = {c} /\ old = {} /\ files[c].open
      BY <1>1, <1>2, <1>8, <2>1
    <2>3. events' = events
      BY <1>10, <2>2 DEF ReportedTo
    <2>4. PICK s : s = Append(files[c].lines, v)
      OBVIOUS
    <2>5. files[c] \in File /\ files[c].lines \in Seq(Queries)
      BY <1>6, FileFields
    <2>6. s \in Seq(Queries) /\ Appended(files[c].lines, v, s)
      BY <1>7, <2>4, <2>5 DEF Appended
    <2>7. ASSUME NEW f \in DOMAIN files
          PROVE  /\ files'[f] \in File /\ files'[f].open = files[f].open
                 /\ files'[f].onDisk = files[f].onDisk /\ files'[f].age = files[f].age
                 /\ f # c => files'[f].lines = files[f].lines
                 /\ f = c => files'[f].lines = s
      <3>1. PICK r \in File : r = files[f]
        BY <1>6
      <3>2. PICK z \in Seq(Queries) : z = IF f = c THEN s ELSE r.lines
        BY <2>6, <3>1, FileFields
      <3>3. PICK t : t = [r EXCEPT !.lines = z]
        OBVIOUS
      <3>4. files'[f] = t
        BY <1>3, <1>4, <1>5, <1>11, <2>2, <2>4, <3>1, <3>2, <3>3
      <3>5. t \in File /\ t.lines = z /\ t.open = r.open /\ t.onDisk = r.onDisk /\ t.age = r.age
        BY <3>3, SetLines
      <3> QED
        BY <3>1, <3>2, <3>4, <3>5
    <2>8. files' \in [1 .. Len(files) -> File]
      BY <1>4, <1>8, <1>11, <2>7
    <2>9. files' \in Seq(File) /\ DOMAIN files' = DOMAIN files /\ Len(files') = Len(files)
      BY <1>8, <2>8
    <2>10. Rewritten(files, files', c, s)
      BY <2>1, <2>7, <2>9 DEF Rewritten
    <2>11. AtFile(loader) => loader.file \in DOMAIN files /\ loader.file # c
      BY <1>9, <2>2 DEF InTime, AtFile, HasFile
    <2>12. /\ FilesOrdered(files', v)
           /\ WaitingLines(files', loader) = WaitingLines(files, loader) \cup {v}
           /\ ReadingLines(files', loader) = ReadingLines(files, loader)
      <3>1. files[c].open /\ FilesOrdered(files, written) /\ Appended(files[c].lines, v, s)
        BY <1>9, <2>2, <2>6
      <3>2. files \in Seq(File) /\ written \in Nat /\ written < v
        BY <1>6
      <3>3. FilesOrdered(files', v)
        BY <2>10, <2>11, <3>1, <3>2, WriteToLast
      <3>4. ReadingLines(files', loader) = ReadingLines(files, loader)
        BY <2>7, <2>11 DEF ReadingLines
      <3>5. WaitingLines(files', loader) = WaitingLines(files, loader) \cup {v}
        <4>a. PICK F \in Seq(File) : F = files
          BY <3>2
        <4>b. PICK G : G = files'
          OBVIOUS
        <4>c. PICK w \in Nat : w = written
          BY <3>2
        <4>d. PICK l : l = loader
          OBVIOUS
        <4>1. F = files /\ G = files' /\ w = written /\ l = loader
          BY <4>a, <4>b, <4>c, <4>d
        <4>2. /\ c \in DOMAIN F /\ F[c].open /\ FilesOrdered(F, w) /\ w < v
              /\ Appended(F[c].lines, v, s) /\ Rewritten(F, G, c, s)
              /\ AtFile(l) => l.file \in DOMAIN F /\ l.file # c
          BY <2>10, <2>11, <3>1, <3>2, <4>1
        <4>3. WaitingLines(G, l) = WaitingLines(F, l) \cup {v}
          BY <4>2, WriteToLast
        <4> QED
          BY <4>1, <4>3
      <3> QED
        BY <3>3, <3>4, <3>5
    <2>13. Waiting' = Waiting \cup {v} /\ Reading' = Reading
      BY <1>3, <2>12 DEF Waiting, Reading
    <2>14. InTime(files', loader, life)
      BY <1>9, <2>7, <2>9 DEF InTime
    <2>15. OnDisk(files') = OnDisk(files)
      BY <2>7, <2>9 DEF OnDisk
    <2>16. \A e \in ToSet(events) : e \in DOMAIN files
      BY <1>6 DEF ToSet
    <2>17. \A g \in OnDisk(files) : Finds(files, loader, events, qload, g) => Finds(files', loader, events, qload, g)
      BY <2>7 DEF Finds, OnDisk
    <2>18. Knows(files', loader, events', qload, life, inotify)
      BY <1>9, <2>3, <2>7, <2>15, <2>16, <2>17 DEF Knows
    <2>19. ClosedInTime' /\ KnowsOldest'
      BY <1>3, <2>14, <2>18 DEF ClosedInTime, KnowsOldest
    <2>20. events' \in Seq(DOMAIN files')
      BY <1>6, <2>3, <2>9
    <2>21. FileTypes'
      BY <1>3, <1>5, <1>a, <2>9, <2>20 DEF FileTypes, TypeOK
    <2>22. FilesKept
      BY <1>3, <1>5, <2>9, <2>12, <2>13, <2>19 DEF FilesKept
    <2>23. FromOlder(files', InMemory \cup ToSet(db))
      <3>1. ToSet(s) = ToSet(files[c].lines) \cup {v}
        <4>1. files[c].lines \in Seq(Nat)
          BY <1>6, <2>1, LinesAreNumbers
        <4> QED
          BY <2>6, <4>1, AppendSet
      <3>2. ASSUME NEW f \in OnDisk(files'), NEW x \in ToSet(files'[f].lines), x # v
            PROVE  f \in OnDisk(files) /\ x \in ToSet(files[f].lines)
        BY <2>7, <2>15, <3>1, <3>2 DEF OnDisk
      <3>3. ASSUME NEW f \in OnDisk(files'), ~files[f].open
            PROVE  files'[f].lines = files[f].lines /\ ~files'[f].open
        BY <2>2, <2>7, <2>15, <3>3 DEF OnDisk
      <3> QED
        BY <1>5, <3>2, <3>3, NextIsLast, OlderGrows
    <2>24. life # "down" /\ written' = v
      BY <1>3, <1>5
    <2> QED
      BY <1>3, <1>5, <2>13, <2>21, <2>22, <2>23, <2>24, WriterStep
  <1>12. CASE cur = {}
    <2>1. PICK M : M = Closed(old)
      OBVIOUS
    <2>2. old = OpenFiles
      BY <1>1, <1>2, <1>12
    <2>3. ClosedTo(files, old, M)
      BY <2>1, ClosedFacts
    <2>4. /\ SameContents(files, M) /\ M \in Seq(File) /\ DOMAIN M = DOMAIN files /\ Len(M) = Len(files)
          /\ \A f \in DOMAIN M : ~M[f].open
      BY <1>8, <2>2, <2>3 DEF ClosedTo, SameContents
    <2>5. InTime(M, loader, life) /\ Knows(M, loader, events', qload, life, inotify) /\ events' \in Seq(DOMAIN files)
      BY <1>6, <1>8, <1>9, <1>10, <2>2, <2>3, CloseKnown
    <2>6. FilesOrdered(M, written)
      BY <1>6, <1>9, <2>4, SameContentsOrdered
    <2>7. PICK r : r = NewFile(v)
      OBVIOUS
    <2>8. r \in File /\ r.lines = <<v>> /\ r.open /\ r.onDisk /\ r.age = 0
      BY <1>7, <2>7, Constants DEF NewFile, File
    <2>9. files' = Append(M, r)
      BY <1>3, <1>4, <1>5, <1>12, <2>1, <2>7
    <2>10. /\ files' \in Seq(File) /\ Len(files') = Len(M) + 1 /\ DOMAIN files' = DOMAIN M \cup {Len(M) + 1}
           /\ \A f \in DOMAIN M : files'[f] = M[f] /\ f < Len(M) + 1
           /\ files'[Len(M) + 1] = r
      <3>1. /\ files' \in Seq(File) /\ Len(files') = Len(M) + 1 /\ Len(M) \in Nat
            /\ DOMAIN files' = 1 .. Len(M) + 1 /\ DOMAIN M = 1 .. Len(M)
            /\ \A f \in 1 .. Len(M) : files'[f] = M[f]
            /\ files'[Len(M) + 1] = r
        BY <2>4, <2>8, <2>9
      <3> QED
        BY <3>1
    <2>11. NewLast(M, files', v)
      BY <2>8, <2>10 DEF NewLast
    <2>12. AtFile(loader) => loader.file \in DOMAIN M
      BY <1>6, <2>4
    <2>13. /\ FilesOrdered(files', v)
           /\ WaitingLines(files', loader) = WaitingLines(M, loader) \cup {v}
           /\ ReadingLines(files', loader) = ReadingLines(M, loader)
      <3>1. PICK N, G, w, l : N = M /\ G = files' /\ w = written /\ l = loader
        OBVIOUS
      <3>2. /\ N \in Seq(File) /\ w \in Nat /\ v \in Nat
            /\ w < v /\ FilesOrdered(N, w) /\ (\A f \in DOMAIN N : ~N[f].open) /\ NewLast(N, G, v)
            /\ AtFile(l) => l.file \in DOMAIN N
        BY <1>6, <2>4, <2>6, <2>11, <2>12, <3>1
      <3>3. /\ FilesOrdered(G, v) /\ WaitingLines(G, l) = WaitingLines(N, l) \cup {v}
            /\ ReadingLines(G, l) = ReadingLines(N, l)
        BY <3>2, WriteToNew
      <3> QED
        BY <3>1, <3>3
    <2>14. /\ WaitingLines(M, loader) = WaitingLines(files, loader)
           /\ ReadingLines(M, loader) = ReadingLines(files, loader)
      BY <1>6, <2>4, SameContentsLines
    <2>15. Waiting' = Waiting \cup {v} /\ Reading' = Reading
      BY <1>3, <2>13, <2>14 DEF Waiting, Reading
    <2>16. /\ \A f \in DOMAIN M : files'[f].age = M[f].age
           /\ files'[Len(M) + 1].age = 0
      BY <2>8, <2>10
    <2>17. InTime(files', loader, life) /\ Knows(files', loader, events', qload, life, inotify)
      <3>1. /\ M \in Seq(File) /\ events' \in Seq(DOMAIN M) /\ qload \subseteq DOMAIN M
            /\ life \in {"up", "flush"}
        BY <1>3, <1>6, <2>4, <2>5
      <3> QED
        BY <2>5, <2>11, <2>16, <3>1, NewKnown
    <2>18. ClosedInTime' /\ KnowsOldest'
      BY <1>3, <2>17 DEF ClosedInTime, KnowsOldest
    <2>19. DOMAIN files \subseteq DOMAIN files'
      BY <2>4, <2>10
    <2>20. events' \in Seq(DOMAIN files')
      <3>1. Len(events') \in Nat /\ events' \in [1 .. Len(events') -> DOMAIN files]
        BY <2>5
      <3>2. events' \in [1 .. Len(events') -> DOMAIN files']
        BY <2>19, <3>1
      <3> QED
        BY <3>1, <3>2
    <2>21. FileTypes'
      BY <1>3, <1>5, <1>a, <2>10, <2>20 DEF FileTypes, TypeOK
    <2>22. FilesKept
      BY <1>3, <1>5, <2>13, <2>15, <2>18, <2>19 DEF FilesKept
    <2>23. FromOlder(files', InMemory \cup ToSet(db))
      <3>1. FromOlder(M, InMemory \cup ToSet(db))
        BY <1>5, <2>4, NextIsLast, OlderSame
      <3>2. ASSUME NEW f \in OnDisk(files'), NEW x \in ToSet(files'[f].lines), x # v
            PROVE  f \in OnDisk(M) /\ x \in ToSet(M[f].lines)
        <4>1. f # Len(M) + 1
          <5>1. ToSet(<<v>>) = {v}
            BY OneElement
          <5>2. f = Len(M) + 1 => files'[f].lines = <<v>>
            BY <2>8, <2>10
          <5> QED
            BY <3>2, <5>1, <5>2
        <4> QED
          BY <2>10, <4>1 DEF OnDisk
      <3>3. ASSUME NEW f \in OnDisk(M) PROVE files'[f] = M[f] /\ ~M[f].open
        BY <2>4, <2>10 DEF OnDisk
      <3> QED
        BY <1>5, <3>1, <3>2, <3>3, NextIsLast, OlderGrows
    <2>24. life # "down" /\ written' = v
      BY <1>3, <1>5
    <2> QED
      BY <1>3, <1>5, <2>15, <2>21, <2>22, <2>23, <2>24, WriterStep
  <1> QED
    BY <1>11, <1>12

-----------------------------------------------------------------------------

\* An open file loses its last lines.
LEMMA CutLast ==
    ASSUME NEW F \in Seq(File), NEW w, FilesOrdered(F, w), NEW c \in DOMAIN F, F[c].open, NEW s, NEW z,
           Incr(s), ToSet(F[c].lines) = ToSet(s) \cup ToSet(z), NEW G, Rewritten(F, G, c, s),
           NEW l, AtFile(l) => l.file \in DOMAIN F /\ l.file # c
    PROVE  /\ FilesOrdered(G, w) /\ ReadingLines(G, l) = ReadingLines(F, l)
           /\ WaitingLines(G, l) \subseteq WaitingLines(F, l)
           /\ WaitingLines(F, l) \subseteq WaitingLines(G, l) \cup ToSet(z)
  <1>1. /\ DOMAIN G = DOMAIN F /\ Len(G) = Len(F)
        /\ \A f \in DOMAIN F : /\ G[f].open = F[f].open /\ G[f].onDisk = F[f].onDisk
                               /\ f # c => G[f].lines = F[f].lines
                               /\ f = c => G[f].lines = s
    BY DEF Rewritten
  <1>2. \A f \in DOMAIN F : ToSet(G[f].lines) \subseteq ToSet(F[f].lines)
    BY <1>1
  <1>3. \A f \in DOMAIN F : ToSet(F[f].lines) \subseteq ToSet(G[f].lines) \cup ToSet(z)
    BY <1>1
  <1>4. FilesOrdered(G, w)
    <2>1. ASSUME NEW f \in DOMAIN G
          PROVE  /\ G[f].open => f = Len(G) /\ G[f].onDisk
                 /\ Incr(G[f].lines) /\ \A x \in ToSet(G[f].lines) : x <= w
      BY <1>1, <1>2 DEF FilesOrdered
    <2>2. ASSUME NEW f \in DOMAIN G, NEW g \in DOMAIN G, f < g PROVE Below(G[f].lines, G[g].lines)
      <3>1. Below(F[f].lines, F[g].lines)
        BY <1>1, <2>2 DEF FilesOrdered
      <3> QED
        BY <1>1, <1>2, <3>1 DEF Below
    <2> QED
      BY <2>1, <2>2 DEF FilesOrdered
  <1>5. ReadingLines(G, l) = ReadingLines(F, l)
    BY <1>1 DEF ReadingLines
  <1>6. ASSUME NEW x \in WaitingLines(G, l) PROVE x \in WaitingLines(F, l)
    BY <1>1, <1>2, WaitingElement
  <1>7. ASSUME NEW x \in WaitingLines(F, l) PROVE x \in WaitingLines(G, l) \cup ToSet(z)
    <2>1. PICK f \in DOMAIN F : /\ F[f].onDisk /\ ~(AtFile(l) /\ f = l.file)
                                /\ x \in ToSet(F[f].lines)
      BY WaitingElement
    <2>2. x \in ToSet(G[f].lines) \/ x \in ToSet(z)
      BY <1>3, <2>1
    <2> QED
      BY <1>1, <2>1, <2>2, WaitingElement
  <1> QED
    BY <1>4, <1>5, <1>6, <1>7

\* FlushFails keeps the invariant and loses the lines that are not written only.
LEMMA FlushFailsKeeps ==
    ASSUME TypeOK, SqlInv, FlushFails
    PROVE  TypeOK' /\ SqlInv' /\ LossStep
  <1>1. /\ Writes /\ life # "down" /\ events' = events /\ written' = written /\ failed' = failed
        /\ writeError' \in BOOLEAN /\ loader' = loader /\ inotify' = inotify /\ life' = life /\ qload' = qload
    BY DEF FlushFails, Writes, config, cache, Running
  <1>2. PICK c \in OpenFiles : \E n \in 0 .. Len(files[c].lines) - 1 :
           /\ files' = [files EXCEPT ![c].lines = SubSeq(@, 1, n)]
           /\ damaged' = damaged \cup ToSet(SubSeq(files[c].lines, n + 1, Len(files[c].lines)))
    BY DEF FlushFails
  <1>3. PICK n \in 0 .. Len(files[c].lines) - 1 :
           /\ files' = [files EXCEPT ![c].lines = SubSeq(@, 1, n)]
           /\ damaged' = damaged \cup ToSet(SubSeq(files[c].lines, n + 1, Len(files[c].lines)))
    BY <1>2
  <1>4. /\ c \in DOMAIN files /\ files[c].open /\ files \in Seq(File) /\ written \in Nat
        /\ Len(files) \in Nat /\ DOMAIN files = 1 .. Len(files) /\ events \in Seq(DOMAIN files)
    BY <1>2, Types, OpenIsLast DEF TypeOK
  <1>5. PICK o, s, z : o = files[c].lines /\ Split(o, n, s, z)
    BY DEF Split
  <1>6. /\ o \in Seq(Queries) /\ o \in Seq(Nat) /\ Incr(o)
    BY <1>4, <1>5, FileFields, LinesAreNumbers DEF SqlInv, FilesOrdered
  <1>7. n \in 0 .. Len(o)
    <2>1. Len(o) \in Nat /\ n \in 0 .. Len(o) - 1
      BY <1>3, <1>5, <1>6
    <2> QED
      BY <2>1
  <1>8. s \in Seq(Queries) /\ z \in Seq(Queries) /\ ToSet(o) = ToSet(s) \cup ToSet(z)
    BY <1>5, <1>6, <1>7, SplitElements
  <1>9. Incr(s)
    BY <1>5, <1>6, <1>7, SplitGrows
  <1>10. damaged' = damaged \cup ToSet(z)
    BY <1>3, <1>5 DEF Split
  <1>11. ASSUME NEW f \in DOMAIN files
         PROVE  /\ files'[f] \in File /\ files'[f].open = files[f].open
                /\ files'[f].onDisk = files[f].onDisk /\ files'[f].age = files[f].age
                /\ f # c => files'[f].lines = files[f].lines
                /\ f = c => files'[f].lines = s
    <2>1. CASE f # c
      <3>1. files'[f] = files[f]
        BY <1>3, <2>1
      <3> QED
        BY <1>4, <2>1, <3>1
    <2>2. CASE f = c
      <3>1. PICK r \in File : r = files[f]
        BY <1>4
      <3>2. PICK t : t = [r EXCEPT !.lines = s]
        OBVIOUS
      <3>3. files'[f] = t
        BY <1>3, <1>4, <1>5, <2>2, <3>1, <3>2 DEF Split
      <3>4. t \in File /\ t.lines = s /\ t.open = r.open /\ t.onDisk = r.onDisk /\ t.age = r.age
        BY <1>8, <3>2, SetLines
      <3> QED
        BY <2>2, <3>1, <3>3, <3>4
    <2> QED
      BY <2>1, <2>2
  <1>12. files' \in [1 .. Len(files) -> File]
    BY <1>3, <1>4, <1>11
  <1>13. files' \in Seq(File) /\ DOMAIN files' = DOMAIN files /\ Len(files') = Len(files)
    <2>1. Len(files) \in Nat /\ DOMAIN files = 1 .. Len(files)
      BY <1>4
    <2>2. DOMAIN files' = 1 .. Len(files) /\ files' \in Seq(File)
      BY <1>12, <2>1
    <2>3. Len(files') = Len(files)
      BY <2>1, <2>2
    <2> QED
      BY <2>1, <2>2, <2>3
  <1>14. Rewritten(files, files', c, s)
    BY <1>4, <1>11, <1>13 DEF Rewritten
  <1>15. InTime(files, loader, life) /\ Knows(files, loader, events, qload, life, inotify)
         /\ FilesOrdered(files, written)
    BY DEF SqlInv, ClosedInTime, KnowsOldest
  <1>16. AtFile(loader) => loader.file \in DOMAIN files /\ loader.file # c
    BY <1>4, <1>15 DEF InTime, AtFile, HasFile
  <1>17. /\ FilesOrdered(files', written) /\ ReadingLines(files', loader) = Reading
         /\ WaitingLines(files', loader) \subseteq Waiting
         /\ Waiting \subseteq WaitingLines(files', loader) \cup ToSet(z)
    <2>1. PICK F, G, w, l : F = files /\ G = files' /\ w = written /\ l = loader
      OBVIOUS
    <2>2. /\ F \in Seq(File) /\ FilesOrdered(F, w) /\ c \in DOMAIN F /\ F[c].open
          /\ ToSet(F[c].lines) = ToSet(s) \cup ToSet(z)
          /\ Rewritten(F, G, c, s) /\ (AtFile(l) => l.file \in DOMAIN F /\ l.file # c)
      BY <1>4, <1>5, <1>8, <1>14, <1>15, <1>16, <2>1
    <2>3. /\ FilesOrdered(G, w) /\ ReadingLines(G, l) = ReadingLines(F, l)
          /\ WaitingLines(G, l) \subseteq WaitingLines(F, l)
          /\ WaitingLines(F, l) \subseteq WaitingLines(G, l) \cup ToSet(z)
      BY <1>9, <2>2, CutLast
    <2> QED
      BY <2>1, <2>3 DEF Waiting, Reading
  <1>18. /\ Waiting' = WaitingLines(files', loader) /\ Reading' = Reading
    BY <1>1, <1>17 DEF Waiting, Reading
  <1>19. InTime(files', loader, life)
    BY <1>11, <1>13, <1>15 DEF InTime
  <1>20. OnDisk(files') = OnDisk(files)
    BY <1>11, <1>13 DEF OnDisk
  <1>21. \A e \in ToSet(events) : e \in DOMAIN files
    BY <1>4 DEF ToSet
  <1>22. \A g \in OnDisk(files) : Finds(files, loader, events, qload, g) => Finds(files', loader, events, qload, g)
    BY <1>11 DEF Finds, OnDisk
  <1>23. Knows(files', loader, events', qload, life, inotify)
    BY <1>1, <1>11, <1>15, <1>20, <1>21, <1>22 DEF Knows
  <1>24. ClosedInTime' /\ KnowsOldest'
    BY <1>1, <1>19, <1>23 DEF ClosedInTime, KnowsOldest
  <1>25. FileTypes'
    <2>1. ToSet(z) \subseteq Queries
      BY <1>8 DEF ToSet
    <2> QED
      BY <1>1, <1>4, <1>10, <1>13, <2>1 DEF FileTypes, TypeOK
  <1>26. FilesKept
    BY <1>1, <1>10, <1>13, <1>17, <1>18, <1>24 DEF FilesKept
  <1>27. Path(Waiting', loader.rest, buff, queue, db, crashes + reruns, written')
    <2>1. Path(Waiting, loader.rest, buff, queue, db, crashes + reruns, written)
      BY PathNow
    <2>2. Ordered(Waiting', loader.rest, buff, queue)
      BY <1>17, <1>18, <2>1 DEF Path, Ordered, OrderedAt
    <2>3. Path(Waiting', loader.rest, buff, queue, db, crashes + reruns, written)
      BY <1>17, <1>18, <2>1, <2>2 DEF Path, UpTo, SentOften
    <2> QED
      BY <1>1, <2>3
  <1>28. FromOlder(files', InMemory \cup ToSet(db))
    <2>1. ASSUME NEW f \in OnDisk(files')
          PROVE  /\ ToSet(files'[f].lines) \subseteq ToSet(files[f].lines)
                 /\ files[f].open \/ (ToSet(files'[f].lines) = ToSet(files[f].lines) /\ ~files'[f].open)
      <3>1. f \in DOMAIN files
        BY <1>20 DEF OnDisk
      <3>2. CASE f = c
        BY <1>4, <1>5, <1>8, <1>11, <3>1, <3>2
      <3>3. CASE f # c
        BY <1>11, <3>1, <3>3
      <3> QED
        BY <3>2, <3>3
    <2> QED
      BY <1>20, <2>1, NextIsLast, OlderShrinks
  <1>29. Strict => Ahead(Waiting' \cup Reading \cup InMemory, db, failed' \cup damaged')
    <2>1. Strict => Ahead(Waiting \cup Reading \cup InMemory, db, failed \cup damaged)
      BY DEF SqlInv, AheadInv, Waiting, Reading
    <2>2. /\ Waiting' \cup Reading \cup InMemory \subseteq Waiting \cup Reading \cup InMemory
          /\ failed \cup damaged \subseteq failed' \cup damaged'
      BY <1>17, <1>18, <1>26 DEF FilesKept
    <2> QED
      BY <2>1, <2>2, AheadLess
  <1>30. 1 .. written' \subseteq 1 .. written \cup {} /\ Waiting \cup {} \subseteq Waiting' \cup failed' \cup damaged'
    BY <1>1, <1>10, <1>17, <1>18
  <1> QED
    BY <1>1, <1>25, <1>26, <1>27, <1>28, <1>29, <1>30, FileStep

-----------------------------------------------------------------------------
(* The loader *)

\* The same file being read, or none, leaves what waits.
LEMMA SameReading ==
    ASSUME NEW F, NEW l, NEW m, ~AtFile(l), ~AtFile(m)
    PROVE  WaitingLines(F, m) = WaitingLines(F, l) /\ ReadingLines(F, m) = {} /\ ReadingLines(F, l) = {}
  BY DEF WaitingLines, ReadingLines

\* What a step of the loader alone leaves alone.
LoaderOnly == UNCHANGED <<config, life, written, writeError, events, process, db, failed, damaged, counters>>

\* The types after such a step, and what it does not touch.
LEMMA LoaderFrame ==
    ASSUME TypeOK, SqlInv, LoaderOnly, Running, files' \in Seq(File), DOMAIN files' = DOMAIN files,
           FilesOrdered(files', written), loader' \in LoaderState(DOMAIN files), qload' \subseteq DOMAIN files
    PROVE  /\ TypeOK' /\ ThreadsInv' /\ LifeInv' /\ (Strict' <=> Strict) /\ (Careful' <=> Careful)
           /\ Settled' = Settled /\ AtStores' = AtStores /\ db' = db /\ failed' = failed /\ damaged' = damaged
           /\ inotify' = inotify /\ life' = life /\ written' = written /\ events' = events
           /\ buff' = buff /\ queue' = queue /\ crashes' = crashes /\ reruns' = reruns
  <1>1. /\ inotify' = inotify /\ threads' = threads /\ life' = life /\ written' = written /\ events' = events
        /\ buff' = buff /\ queue' = queue /\ store' = store /\ sqlError' = sqlError /\ joined' = joined
        /\ db' = db /\ failed' = failed /\ damaged' = damaged /\ writeError' = writeError
        /\ terms' = terms /\ crashes' = crashes /\ reruns' = reruns
    BY DEF LoaderOnly, process, counters, config
  <1>2. Cardinality(OpenFiles') <= 1
    BY AtMostOneOpen DEF OpenFiles
  <1>3. TypeOK'
    <2>1. /\ inotify' \in BOOLEAN /\ threads' \in 1 .. StoreThreads /\ life' \in Lives
          /\ written' \in 0 .. MaxQueries /\ writeError' \in BOOLEAN /\ events' \in Seq(DOMAIN files')
          /\ terms' \in Nat /\ crashes' \in Nat /\ reruns' \in Nat
      BY <1>1 DEF TypeOK, Lives
    <2>2. /\ buff' \in [Ids -> Seq(Queries)] /\ queue' \in [Ids -> Seq(Queries)]
          /\ \A u \in Ids : Len(queue'[u]) <= ConcatLimit
      BY <1>1 DEF TypeOK
    <2>3. /\ store' \in [Ids -> StorePc] /\ sqlError' \in [Ids -> BOOLEAN] /\ joined' \subseteq Ids
          /\ db' \in Seq(Queries) /\ failed' \subseteq Queries /\ damaged' \subseteq Queries
      BY <1>1 DEF TypeOK
    <2> QED
      BY <1>2, <2>1, <2>2, <2>3 DEF TypeOK, LoaderState, Lives
  <1>4. ThreadsInv' /\ LifeInv'
    BY <1>1 DEF SqlInv, ThreadsInv, ThreadOk, LifeInv, Terminating, Running
  <1>5. (Strict' <=> Strict) /\ (Careful' <=> Careful)
    BY <1>1 DEF Strict, Careful, Terminating
  <1>6. Settled' = Settled /\ AtStores' = AtStores
    BY <1>1 DEF Settled, AtStores
  <1> QED
    BY <1>1, <1>3, <1>4, <1>5, <1>6

\* The loader moves without reading: LoaderFill, LoaderNext, LoaderDone.
LEMMA LoaderMoves ==
    ASSUME TypeOK, SqlInv, LoaderOnly, files' = files, ~AtFile(loader), ~AtFile(loader'),
           loader' \in LoaderState(DOMAIN files), loader'.rest = loader.rest,
           qload' \subseteq DOMAIN files, ClosedInTime', KnowsOldest', Running
    PROVE  TypeOK' /\ SqlInv' /\ LossStep
  <1>1. /\ TypeOK' /\ ThreadsInv' /\ LifeInv' /\ (Strict' <=> Strict) /\ (Careful' <=> Careful)
        /\ Settled' = Settled /\ AtStores' = AtStores /\ db' = db /\ failed' = failed /\ damaged' = damaged
        /\ written' = written /\ buff' = buff /\ queue' = queue /\ crashes' = crashes /\ reruns' = reruns
    <2>1. files \in Seq(File) /\ FilesOrdered(files, written)
      BY DEF TypeOK, SqlInv
    <2> QED
      BY <2>1, LoaderFrame
  <1>2. Waiting' = Waiting /\ Reading' = {} /\ Reading = {}
    BY SameReading DEF Waiting, Reading
  <1>3. InMemory' = InMemory
    BY <1>1 DEF InMemory
  <1>4. PathInv'
    BY <1>1, <1>2, PathNow DEF PathInv, Waiting
  <1>5. OlderInv' /\ FilesOrdered(files, written)'
    BY <1>1, <1>3 DEF SqlInv, OlderInv
  <1>6. RestInv'
    BY <1>2 DEF SqlInv, RestInv, Reading
  <1>7. AheadInv'
    BY <1>1, <1>2, <1>3 DEF SqlInv, AheadInv, Waiting, Reading
  <1>8. ReadInv'
    BY <1>2 DEF ReadInv, Reading
  <1>9. SqlInv'
    BY <1>1, <1>4, <1>5, <1>6, <1>7, <1>8 DEF SqlInv
  <1>10. Held \cup {} \subseteq Held' \cup damaged' /\ 1 .. written' \subseteq 1 .. written \cup {}
    BY <1>1, <1>2, <1>3 DEF Held
  <1>11. LossStep
    BY <1>10, LossHeld
  <1> QED
    BY <1>1, <1>9, <1>11

\* LoaderFill keeps the invariant and loses nothing that may not be lost.
LEMMA LoaderFillKeeps ==
    ASSUME TypeOK, SqlInv, LoaderFill
    PROVE  TypeOK' /\ SqlInv' /\ LossStep
  <1>1. /\ LoaderOnly /\ files' = files /\ inotify' = inotify /\ life' = life /\ events' = events
        /\ Running /\ loader.pc = "start" /\ loader' = [loader EXCEPT !.pc = "head"] /\ qload' = Filled
    BY DEF LoaderFill, LoaderOnly, config
  <1>2. loader \in LoaderState(DOMAIN files)
    BY Types
  <1>3. Loads(loader', DOMAIN files, "head", loader.file, loader.rest)
    BY <1>1, <1>2, SetPc DEF LoaderPc
  <1>4. loader' \in LoaderState(DOMAIN files) /\ loader'.pc = "head" /\ loader'.rest = loader.rest
    BY <1>3 DEF Loads
  <1>5. qload' \subseteq DOMAIN files /\ (inotify => OnDisk(files) \subseteq qload')
    BY <1>1 DEF TypeOK, Filled, OnDisk
  <1>6. ClosedInTime'
    BY <1>1, <1>4 DEF SqlInv, ClosedInTime, InTime, HasFile
  <1>7. KnowsOldest'
    BY <1>1, <1>4, <1>5 DEF SqlInv, KnowsOldest, Knows, Finds, HasFile, AtFile
  <1> QED
    BY <1>1, <1>4, <1>5, <1>6, <1>7, LoaderMoves DEF AtFile


\* LoaderDone keeps the invariant and loses nothing that may not be lost.
LEMMA LoaderDoneKeeps ==
    ASSUME TypeOK, SqlInv, LoaderDone
    PROVE  TypeOK' /\ SqlInv' /\ LossStep
  <1>1. /\ LoaderOnly /\ files' = files /\ inotify' = inotify /\ life' = life /\ events' = events
        /\ Terminating /\ loader.pc \in {"head", "drain"} /\ loader' = [loader EXCEPT !.pc = "done"]
        /\ qload' = qload
    BY DEF LoaderDone, cache, LoaderOnly, config
  <1>2. loader \in LoaderState(DOMAIN files)
    BY Types
  <1>3. Loads(loader', DOMAIN files, "done", loader.file, loader.rest)
    BY <1>1, <1>2, SetPc DEF LoaderPc
  <1>4. loader' \in LoaderState(DOMAIN files) /\ loader'.pc = "done" /\ loader'.rest = loader.rest
    BY <1>3 DEF Loads
  <1>5. qload' \subseteq DOMAIN files /\ life # "up" /\ Running
    BY <1>1 DEF TypeOK, Terminating, Running
  <1>6. ClosedInTime'
    BY <1>1, <1>4 DEF SqlInv, ClosedInTime, InTime, HasFile
  <1>7. KnowsOldest'
    BY <1>1, <1>4, <1>5 DEF SqlInv, KnowsOldest, Knows, HasFile, AtFile
  <1> QED
    BY <1>1, <1>4, <1>5, <1>6, <1>7, LoaderMoves DEF AtFile


\* LoaderNext keeps the invariant and loses nothing that may not be lost.
LEMMA LoaderNextKeeps ==
    ASSUME TypeOK, SqlInv, LoaderNext
    PROVE  TypeOK' /\ SqlInv' /\ LossStep
  <1>1. /\ LoaderOnly /\ files' = files /\ inotify' = inotify /\ life' = life /\ events' = events
        /\ Running /\ ~Terminating /\ loader.pc = "head"
    BY DEF LoaderNext, LoaderOnly, config
  <1>2. PICK f \in MinQFile : loader' = [loader EXCEPT !.pc = "drain", !.file = f] /\ qload' = qload \ {f}
    BY DEF LoaderNext
  <1>3. life = "up"
    BY <1>1 DEF TypeOK, Running, Terminating
  <1>4. PICK known : known = IF inotify THEN qload ELSE OnDisk(files)
    OBVIOUS
  <1>5. f \in known /\ (\A g \in known : f <= g) /\ files[f].age > 2 * LoadPeriod
    BY <1>2, <1>4 DEF MinQFile, OldEnough, OnDisk
  <1>6. f \in DOMAIN files /\ files \in Seq(File) /\ DOMAIN files = 1 .. Len(files) /\ Len(files) \in Nat
        /\ qload \subseteq DOMAIN files
    BY <1>4, <1>5 DEF TypeOK, OnDisk
  <1>7. Knows(files, loader, events, qload, life, inotify) /\ InTime(files, loader, life)
    BY DEF SqlInv, KnowsOldest, ClosedInTime
  <1>8. ~files[f].open
    <2>1. files[f].open => files[f].age <= SavePeriod + 1
      BY <1>3, <1>6, <1>7 DEF InTime
    <2>2. files[f] \in File
      BY <1>6
    <2>3. PICK a \in Nat : a = files[f].age
      BY <2>2, FileFields, Constants
    <2>4. PICK k \in Nat : k = 2 * LoadPeriod
      BY Constants
    <2>5. SavePeriod \in Nat /\ SavePeriod < k
      BY <2>4, Constants
    <2>6. a > k
      BY <1>5, <2>3, <2>4
    <2> QED
      BY <2>1, <2>3, <2>5, <2>6
  <1>9. ASSUME NEW g \in OnDisk(files) PROVE f <= g
    <2>1. CASE ~inotify
      BY <1>4, <1>5, <2>1
    <2>2. CASE inotify
      <3>1. Finds(files, loader, events, qload, g) /\ f \in qload /\ known = qload /\ g \in DOMAIN files
        BY <1>1, <1>3, <1>4, <1>5, <1>7, <2>2 DEF Knows, OnDisk
      <3>2. g \in qload \/ f < g
        BY <1>1, <3>1 DEF Finds, HasFile
      <3> QED
        BY <1>5, <1>6, <3>1, <3>2
    <2> QED
      BY <2>1, <2>2 DEF TypeOK
  <1>10. loader \in LoaderState(DOMAIN files)
    BY Types
  <1>11. Loads(loader', DOMAIN files, "drain", f, loader.rest)
    BY <1>2, <1>6, <1>10, SetPcFile DEF LoaderPc
  <1>12. /\ loader' \in LoaderState(DOMAIN files) /\ loader'.pc = "drain" /\ loader'.rest = loader.rest
         /\ loader'.file = f
    BY <1>11 DEF Loads
  <1>13. qload' \subseteq DOMAIN files
    BY <1>2, <1>6
  <1>14. ClosedInTime'
    BY <1>1, <1>6, <1>7, <1>8, <1>12 DEF ClosedInTime, InTime, HasFile
  <1>15. ASSUME inotify, NEW g \in OnDisk(files) PROVE Finds(files, loader', events, qload', g)
    <2>1. Finds(files, loader, events, qload, g)
      BY <1>1, <1>3, <1>7, <1>15 DEF Knows
    <2> QED
      BY <1>1, <1>2, <1>12, <2>1 DEF Finds, HasFile
  <1>16. KnowsOldest'
    BY <1>1, <1>7, <1>9, <1>12, <1>15 DEF KnowsOldest, Knows, AtFile, HasFile
  <1> QED
    BY <1>1, <1>12, <1>13, <1>14, <1>16, LoaderMoves DEF AtFile

\* LoaderOpen keeps the invariant and loses nothing that may not be lost.
LEMMA LoaderOpenKeeps ==
    ASSUME TypeOK, SqlInv, LoaderOpen
    PROVE  TypeOK' /\ SqlInv' /\ LossStep
  <1>1. /\ LoaderOnly /\ Running /\ files' = files /\ qload' = qload /\ ~Terminating /\ loader.pc = "drain"
        /\ AllEmpty(buff)
    BY DEF LoaderOpen, LoaderOnly, cache, AllEmpty
  <1>2. PICK lines \in Readable(loader.file) : loader' = [loader EXCEPT !.pc = "read", !.rest = lines]
    BY DEF LoaderOpen
  <1>3. PICK f \in DOMAIN files : f = loader.file /\ ~files[f].open
    BY <1>1 DEF SqlInv, ClosedInTime, InTime, HasFile
  <1>4. files \in Seq(File) /\ files[f] \in File /\ files[f].lines \in Seq(Queries) /\ files[f].lines \in Seq(Nat)
        /\ qload \subseteq DOMAIN files
    BY FileFields, LinesAreNumbers DEF TypeOK
  <1>5. \/ ~files[f].onDisk /\ lines = << >>
        \/ files[f].onDisk /\ lines = files[f].lines
    BY <1>2, <1>3 DEF Readable
  <1>6. lines \in Seq(Queries) /\ lines \in Seq(Nat) /\ Incr(lines) /\ UpTo(ToSet(lines), written)
    BY <1>4, <1>5, EmptyElements DEF SqlInv, FilesOrdered, UpTo
  <1>7. Loads(loader', DOMAIN files, "read", f, lines)
    <2>1. loader \in LoaderState(DOMAIN files)
      BY Types
    <2> QED
      BY <1>2, <1>3, <1>6, <2>1, SetPcRest DEF LoaderPc
  <1>8. /\ loader' \in LoaderState(DOMAIN files) /\ loader'.pc = "read" /\ loader'.file = f
        /\ loader'.rest = lines /\ AtFile(loader') /\ HasFile(loader') /\ ~AtFile(loader) /\ HasFile(loader)
    BY <1>1, <1>7 DEF Loads, AtFile, HasFile
  <1>9. /\ TypeOK' /\ ThreadsInv' /\ LifeInv' /\ (Strict' <=> Strict) /\ (Careful' <=> Careful)
        /\ Settled' = Settled /\ AtStores' = AtStores /\ db' = db /\ failed' = failed /\ damaged' = damaged
        /\ inotify' = inotify /\ life' = life /\ written' = written /\ events' = events
        /\ buff' = buff /\ queue' = queue /\ crashes' = crashes /\ reruns' = reruns
    <2>1. FilesOrdered(files, written)
      BY DEF SqlInv
    <2> QED
      BY <1>1, <1>4, <1>8, <2>1, LoaderFrame
  <1>10. Reading' = ToSet(lines)
    BY <1>1, <1>5, <1>8, EmptyElements DEF Reading, ReadingLines
  <1>11. Reading = {}
    BY <1>8 DEF Reading, ReadingLines
  <1>12. ASSUME NEW x PROVE x \in Waiting <=> \E g \in OnDisk(files) : x \in ToSet(files[g].lines)
    BY <1>8, WaitingElement DEF Waiting, OnDisk
  <1>13. ASSUME NEW x PROVE x \in Waiting' <=> \E g \in OnDisk(files) : g # f /\ x \in ToSet(files[g].lines)
    BY <1>1, <1>8, WaitingElement DEF Waiting, OnDisk
  <1>14. Waiting' \subseteq Waiting
    BY <1>12, <1>13
  <1>15. ToSet(lines) \subseteq Waiting
    <2>1. CASE lines = << >>
      BY <2>1, EmptyElements
    <2>2. CASE files[f].onDisk /\ lines = files[f].lines
      BY <1>12, <2>2 DEF OnDisk
    <2> QED
      BY <1>5, <2>1, <2>2
  <1>16. Waiting \subseteq Waiting' \cup ToSet(lines)
    BY <1>5, <1>12, <1>13 DEF OnDisk
  <1>17. \A g \in OnDisk(files) : f <= g
    BY <1>3, <1>8 DEF SqlInv, KnowsOldest, Knows
  <1>18. ASSUME NEW x \in ToSet(lines), NEW y \in Waiting' PROVE x < y
    <2>1. PICK g \in OnDisk(files) : g # f /\ y \in ToSet(files[g].lines)
      BY <1>13
    <2>2. f <= g /\ g \in DOMAIN files
      BY <1>17, <2>1 DEF OnDisk
    <2>3. f < g
      BY <1>4, <2>1, <2>2
    <2>4. x \in ToSet(files[f].lines)
      BY <1>5, EmptyElements
    <2> QED
      BY <2>1, <2>2, <2>3, <2>4 DEF SqlInv, FilesOrdered, Below
  <1>19. /\ Path(Waiting', lines, buff, queue, db, crashes + reruns, written)
         /\ Memory(lines, buff, queue) \subseteq Memory(loader.rest, buff, queue) \cup ToSet(lines)
    <2>1. Path(Waiting, loader.rest, buff, queue, db, crashes + reruns, written) /\ written \in Nat
      BY PathNow, Types
    <2> QED
      BY <1>1, <1>6, <1>14, <1>15, <1>18, <2>1, PathOpens
  <1>20. PathInv'
    BY <1>8, <1>9, <1>19 DEF PathInv, Waiting
  <1>21. ToSet(loader.rest) = {} /\ InMemory' = InMemory \cup ToSet(lines)
    <2>1. loader.rest = << >>
      BY <1>8 DEF SqlInv, KnowsOldest, Knows
    <2> QED
      BY <1>8, <1>9, <2>1, EmptyElements DEF InMemory
  <1>22. OlderInv'
    <2>1. FromOlder(files, InMemory \cup ToSet(db))
      BY DEF SqlInv, OlderInv
    <2>2. CASE files[f].onDisk
      <3>1. f \in OnDisk(files) /\ FilesOrdered(files, written) /\ DOMAIN files \subseteq Nat
        BY <1>4, <2>2 DEF OnDisk, SqlInv
      <3>2. InMemory' \cup ToSet(db) \subseteq (InMemory \cup ToSet(db)) \cup ToSet(files[f].lines)
        BY <1>5, <1>21, EmptyElements
      <3>3. FromOlder(files, InMemory' \cup ToSet(db))
        BY <1>3, <1>17, <2>1, <3>1, <3>2, OlderOpens
      <3> QED
        BY <1>1, <1>9, <3>3 DEF OlderInv
    <2>3. CASE ~files[f].onDisk
      <3>1. ToSet(lines) = {}
        BY <1>5, <2>3, EmptyElements
      <3> QED
        BY <1>1, <1>9, <1>21, <2>1, <3>1 DEF OlderInv
    <2> QED
      BY <2>2, <2>3
  <1>23. RestInv'
    BY <1>8, <1>10 DEF RestInv, Reading
  <1>24. AheadInv'
    <2>1. Strict => Ahead(Waiting \cup Reading \cup InMemory, db, failed \cup damaged)
      BY DEF SqlInv, AheadInv, Waiting, Reading
    <2>2. Waiting' \cup Reading' \cup InMemory' \subseteq Waiting \cup Reading \cup InMemory
      BY <1>10, <1>14, <1>15, <1>21
    <2>3. Strict => Ahead(Waiting' \cup Reading' \cup InMemory', db, failed \cup damaged)
      BY <2>1, <2>2, AheadLess
    <2> QED
      BY <1>9, <2>3 DEF AheadInv, Waiting, Reading
  <1>25. ReadInv'
    BY <1>10, <1>21 DEF ReadInv, Reading
  <1>26. ClosedInTime'
    BY <1>1, <1>3, <1>8, <1>9 DEF SqlInv, ClosedInTime, InTime
  <1>27. \A g \in OnDisk(files) : Finds(files, loader, events, qload, g) => Finds(files, loader', events, qload, g)
    BY <1>3, <1>8 DEF Finds
  <1>28. KnowsOldest'
    BY <1>1, <1>3, <1>8, <1>9, <1>27 DEF SqlInv, KnowsOldest, Knows
  <1>29. SqlInv'
    BY <1>1, <1>9, <1>20, <1>22, <1>23, <1>24, <1>25, <1>26, <1>28 DEF SqlInv
  <1>30. Held \cup {} \subseteq Held' \cup damaged' /\ 1 .. written' \subseteq 1 .. written \cup {}
    BY <1>9, <1>10, <1>11, <1>16, <1>21 DEF Held
  <1>31. LossStep
    BY <1>1, <1>8, <1>30, LossHeld
  <1> QED
    BY <1>9, <1>29, <1>31

\* LoaderUnlink keeps the invariant and loses nothing that may not be lost.
LEMMA LoaderUnlinkKeeps ==
    ASSUME TypeOK, SqlInv, LoaderUnlink
    PROVE  TypeOK' /\ SqlInv' /\ LossStep
  <1>1. /\ LoaderOnly /\ qload' = qload /\ Running /\ loader.pc = "read" /\ loader.rest = << >>
    BY DEF LoaderUnlink, LoaderOnly, cache
  <1>2. PICK f \in DOMAIN files : f = loader.file /\ ~files[f].open
    BY <1>1 DEF SqlInv, ClosedInTime, InTime, HasFile
  <1>3. /\ files \in Seq(File) /\ Len(files) \in Nat /\ DOMAIN files = 1 .. Len(files)
        /\ loader \in LoaderState(DOMAIN files) /\ events \in Seq(DOMAIN files)
    BY Types DEF TypeOK
  <1>4. Loads(loader', DOMAIN files, "head", f, << >>)
    BY <1>1, <1>2, <1>3, SetPc DEF LoaderUnlink, LoaderPc
  <1>5. /\ loader' \in LoaderState(DOMAIN files) /\ loader'.pc = "head" /\ loader'.rest = << >>
        /\ ~AtFile(loader') /\ ~HasFile(loader') /\ AtFile(loader) /\ HasFile(loader)
    BY <1>1, <1>4 DEF Loads, AtFile, HasFile
  <1>6. PICK r \in File : r = files[f]
    BY <1>3
  <1>7. PICK d \in BOOLEAN : d = FALSE
    OBVIOUS
  <1>8. PICK e \in Seq(Queries) : e = << >>
    BY EmptyElements
  <1>9. PICK t : t = [r EXCEPT !.onDisk = d, !.lines = e]
    OBVIOUS
  <1>10. t \in File /\ t.lines = e /\ t.open = r.open /\ t.onDisk = d /\ t.age = r.age
    <2>1. DiskLinesSet(r, d, e, t)
      BY <1>9 DEF DiskLinesSet
    <2> QED
      BY <2>1, SetDiskLines
  <1>11. files' = [files EXCEPT ![f] = t]
    BY <1>2, <1>3, <1>6, <1>7, <1>8, <1>9 DEF LoaderUnlink, Unlinked
  <1>12. files' \in Seq(File) /\ Len(files') = Len(files) /\ DOMAIN files' = DOMAIN files
         /\ files'[f] = t /\ \A g \in DOMAIN files : g # f => files'[g] = files[g]
    BY <1>3, <1>10, <1>11
  <1>13. ~files'[f].open /\ ~files'[f].onDisk /\ files'[f].lines = << >>
    BY <1>2, <1>6, <1>7, <1>8, <1>10, <1>12
  <1>14. FilesOrdered(files, written)
    BY DEF SqlInv
  <1>15. FilesOrdered(files', written)
    <2>1. ASSUME NEW g \in DOMAIN files'
          PROVE  /\ files'[g].open => g = Len(files') /\ files'[g].onDisk
                 /\ Incr(files'[g].lines)
                 /\ \A x \in ToSet(files'[g].lines) : x <= written
      <3>1. CASE g = f
        BY <1>13, <3>1, EmptyElements
      <3>2. CASE g # f
        BY <1>12, <1>14, <3>2 DEF FilesOrdered
      <3> QED
        BY <3>1, <3>2
    <2>2. ASSUME NEW g \in DOMAIN files', NEW k \in DOMAIN files', g < k
          PROVE  Below(files'[g].lines, files'[k].lines)
      <3>1. CASE g = f \/ k = f
        BY <1>13, <3>1, EmptyElements DEF Below
      <3>2. CASE g # f /\ k # f
        BY <1>12, <1>14, <2>2, <3>2 DEF FilesOrdered
      <3> QED
        BY <3>1, <3>2
    <2> QED
      BY <2>1, <2>2 DEF FilesOrdered
  <1>16. qload' \subseteq DOMAIN files
    BY <1>1 DEF TypeOK
  <1>17. /\ TypeOK' /\ ThreadsInv' /\ LifeInv' /\ (Strict' <=> Strict) /\ (Careful' <=> Careful)
         /\ Settled' = Settled /\ AtStores' = AtStores /\ db' = db /\ failed' = failed /\ damaged' = damaged
         /\ inotify' = inotify /\ life' = life /\ written' = written /\ events' = events
         /\ buff' = buff /\ queue' = queue /\ crashes' = crashes /\ reruns' = reruns
    BY <1>1, <1>5, <1>12, <1>15, <1>16, LoaderFrame
  <1>18. ASSUME NEW x PROVE x \in Waiting' <=> x \in Waiting
    <2>1. x \in Waiting' <=> \E g \in DOMAIN files' : files'[g].onDisk /\ x \in ToSet(files'[g].lines)
      BY <1>5, WaitingElement DEF Waiting
    <2>2. x \in Waiting <=> \E g \in DOMAIN files : files[g].onDisk /\ g # f /\ x \in ToSet(files[g].lines)
      BY <1>2, <1>5, WaitingElement DEF Waiting
    <2> QED
      BY <1>12, <1>13, <2>1, <2>2
  <1>19. Waiting' = Waiting /\ Reading' = {}
    BY <1>5, <1>18 DEF Reading, ReadingLines
  <1>20. PathInv'
    BY <1>1, <1>5, <1>17, <1>19, PathNow DEF PathInv, Waiting
  <1>21. InMemory' = InMemory
    BY <1>1, <1>5, <1>17 DEF InMemory
  <1>22. ReadInv' /\ RestInv'
    BY <1>5, <1>19, EmptyElements DEF ReadInv, RestInv, Reading
  <1>23. AheadInv'
    <2>1. Strict => Ahead(Waiting \cup Reading \cup InMemory, db, failed \cup damaged)
      BY DEF SqlInv, AheadInv, Waiting, Reading
    <2>2. Waiting' \cup Reading' \cup InMemory' \subseteq Waiting \cup Reading \cup InMemory
      BY <1>19, <1>21
    <2>3. Strict => Ahead(Waiting' \cup Reading' \cup InMemory', db, failed \cup damaged)
      BY <2>1, <2>2, AheadLess
    <2> QED
      BY <1>17, <2>3 DEF AheadInv, Waiting, Reading
  <1>24. ClosedInTime'
    BY <1>5, <1>12, <1>13, <1>17 DEF SqlInv, ClosedInTime, InTime
  <1>25. OnDisk(files') = OnDisk(files) \ {f}
    BY <1>12, <1>13 DEF OnDisk
  <1>26. \A x \in ToSet(events) : x \in DOMAIN files
    BY <1>3 DEF ToSet
  <1>27. ASSUME NEW g \in OnDisk(files'), Finds(files, loader, events, qload, g)
         PROVE  Finds(files', loader', events, qload, g)
    <2>1. g # f /\ g \in DOMAIN files
      BY <1>25 DEF OnDisk
    <2> QED
      BY <1>2, <1>12, <1>27, <2>1 DEF Finds
  <1>28. KnowsOldest'
    <2>1. Knows(files, loader, events, qload, life, inotify)
      BY DEF SqlInv, KnowsOldest
    <2>2. \A x \in ToSet(events) : ~files'[x].open
      BY <1>12, <1>13, <1>26, <2>1 DEF Knows
    <2>3. life = "up" /\ inotify => \A g \in OnDisk(files') : Finds(files', loader', events, qload, g)
      BY <1>1, <1>25, <1>27, <2>1 DEF Knows
    <2> QED
      BY <1>1, <1>5, <1>17, <2>1, <2>2, <2>3 DEF KnowsOldest, Knows
  <1>29. OlderInv'
    <2>1. FromOlder(files, InMemory \cup ToSet(db))
      BY DEF SqlInv, OlderInv
    <2>2. ASSUME NEW g \in OnDisk(files') PROVE files'[g] = files[g]
      BY <1>12, <1>25 DEF OnDisk
    <2>3. FromOlder(files', InMemory \cup ToSet(db))
      BY <1>25, <2>1, <2>2, OlderShrinks
    <2> QED
      BY <1>17, <1>21, <2>3 DEF OlderInv
  <1>30. SqlInv'
    BY <1>15, <1>17, <1>20, <1>22, <1>23, <1>24, <1>28, <1>29 DEF SqlInv
  <1>31. LossStep
    <2>1. CASE Terminating
      BY <2>1 DEF LossStep
    <2>2. CASE ~Terminating
      <3>1. Reading \subseteq InMemory \cup Settled \cup damaged
        BY <2>2 DEF SqlInv, ReadInv, Reading, Careful
      <3>2. Held \cup {} \subseteq Held' \cup damaged' /\ 1 .. written' \subseteq 1 .. written \cup {}
        BY <1>17, <1>19, <1>21, <3>1 DEF Held
      <3>3. (AtFile(loader) => loader.file \in DOMAIN files) /\ (AtFile(loader) => loader.file \in DOMAIN files)'
        BY <1>2, <1>5
      <3> QED
        BY <3>2, <3>3, LossHeld
    <2> QED
      BY <2>1, <2>2
  <1> QED
    BY <1>17, <1>30, <1>31

-----------------------------------------------------------------------------
(* The end of the program *)

\* Of the files remains what files' holds; memory is lost.
LEMMA MemoryLostStep ==
    ASSUME TypeOK, SqlInv, MemoryLost, files' \in Seq(File), DOMAIN files' = DOMAIN files,
           FilesOrdered(files', written), \A f \in DOMAIN files' : ~files'[f].open,
           FromOlder(files', ToSet(db)),
           WaitingLines(files', Idle) \subseteq Waiting \cup Reading, terms' = terms, crashes' \in Nat,
           \/ crashes' = crashes /\ WaitingLines(files', Idle) \subseteq Waiting
           \/ crashes' = crashes + 1
    PROVE  TypeOK' /\ SqlInv' /\ LossStep
  <1>1. /\ inotify' = inotify /\ threads' = threads /\ written' = written /\ db' = db /\ failed' = failed
        /\ damaged' = damaged /\ reruns' = reruns /\ writeError' = FALSE /\ joined' = {}
        /\ life' = "down" /\ events' = << >> /\ qload' = {} /\ loader' = Idle
        /\ buff' = [t \in Ids |-> << >>] /\ queue' = [t \in Ids |-> << >>]
        /\ store' = [t \in Ids |-> "none"] /\ sqlError' = [t \in Ids |-> FALSE]
    BY DEF MemoryLost, config
  <1>2. Loads(loader', DOMAIN files', "start", 0, << >>)
    BY <1>1, IdleLoads
  <1>3. /\ loader' \in LoaderState(DOMAIN files') /\ loader'.pc = "start" /\ loader'.rest = << >>
        /\ ~AtFile(loader') /\ ~HasFile(loader')
    BY <1>2 DEF Loads, AtFile, HasFile
  <1>4. Cardinality(OpenFiles') <= 1
    BY AtMostOneOpen DEF OpenFiles
  <1>5. TypeOK'
    <2>1. << >> \in Seq(Queries) /\ << >> \in Seq(DOMAIN files') /\ Len(<< >>) <= ConcatLimit
      BY Constants
    <2>2. buff' \in [Ids -> Seq(Queries)]
      BY <1>1, <2>1
    <2>3. queue' \in [Ids -> Seq(Queries)] /\ \A u \in Ids : Len(queue'[u]) <= ConcatLimit
      BY <1>1, <2>1
    <2>4. store' \in [Ids -> StorePc]
      BY <1>1 DEF StorePc
    <2>5. sqlError' \in [Ids -> BOOLEAN]
      BY <1>1
    <2>6. /\ inotify' \in BOOLEAN /\ threads' \in 1 .. StoreThreads /\ life' \in Lives
          /\ written' \in 0 .. MaxQueries /\ writeError' \in BOOLEAN /\ events' \in Seq(DOMAIN files')
          /\ terms' \in Nat /\ reruns' \in Nat /\ joined' \subseteq Ids /\ qload' \subseteq DOMAIN files'
      BY <1>1, <2>1 DEF TypeOK, Lives
    <2>7. db' \in Seq(Queries) /\ failed' \subseteq Queries /\ damaged' \subseteq Queries
      BY <1>1 DEF TypeOK
    <2> QED
      BY <1>3, <1>4, <2>2, <2>3, <2>4, <2>5, <2>6, <2>7 DEF TypeOK, LoaderState, Lives
  <1>6. Waiting' = WaitingLines(files', Idle) /\ Reading' = {}
    BY <1>1, <1>3 DEF Waiting, Reading, ReadingLines
  <1>7. Path(Waiting, loader.rest, buff, queue, db, crashes + reruns, written)
    BY PathNow
  <1>8. /\ db \in Seq(Nat) /\ written \in Nat /\ crashes + reruns \in Nat
        /\ Waiting \subseteq Nat /\ Reading \subseteq Nat
    BY Types
  <1>9. PICK m \in Nat : m = crashes' + reruns' /\ (crashes' = crashes => m = crashes + reruns)
                         /\ (crashes' = crashes + 1 => m = (crashes + reruns) + 1)
    <2>1. crashes \in Nat /\ reruns \in Nat
      BY DEF TypeOK
    <2>2. \A i, j, k \in Nat : k + j \in Nat /\ (k = i + 1 => k + j = (i + j) + 1)
      BY SMTT(20)
    <2>3. crashes' + reruns \in Nat /\ (crashes' = crashes + 1 => crashes' + reruns = (crashes + reruns) + 1)
      BY <2>1, <2>2, ZenonT(40)
    <2> QED
      BY <1>1, <2>3
  <1>10. AllEmpty(buff') /\ AllEmpty(queue')
    BY <1>1 DEF AllEmpty
  <1>11. Path(Waiting', << >>, buff', queue', db, m, written)
    <2>1. PICK C, P, V : C = buff' /\ P = queue' /\ V = Waiting'
      OBVIOUS
    <2>2. PICK W, R, r, B, Q, may : /\ W = Waiting /\ R = Reading /\ r = loader.rest /\ B = buff /\ Q = queue
                                    /\ may = crashes + reruns
      OBVIOUS
    <2>3. PICK d, w : d = db /\ w = written
      OBVIOUS
    <2>4. /\ d \in Seq(Nat) /\ may \in Nat /\ w \in Nat /\ W \subseteq Nat /\ R \subseteq Nat
          /\ Forgets(V, C, P, m, W, R, may)
      BY <1>6, <1>8, <1>9, <1>10, <2>1, <2>2, <2>3 DEF Forgets
    <2>5. Path(W, r, B, Q, d, may, w)
      BY <1>7, <2>2, <2>3
    <2>6. Path(V, << >>, C, P, d, m, w)
      BY <2>4, <2>5, PathForgets
    <2> QED
      BY <2>1, <2>3, <2>6
  <1>12. PathInv'
    BY <1>1, <1>3, <1>9, <1>11 DEF PathInv, Waiting
  <1>13. InMemory' = {}
    <2>1. InMemory' = Memory(<< >>, buff', queue')
      BY <1>3 DEF InMemory, AtStores, Memory
    <2> QED
      BY <1>10, <2>1, EmptyMemory, EmptyElements
  <1>14. OlderInv'
    BY <1>1, <1>13 DEF OlderInv
  <1>15. RestInv' /\ ReadInv'
    BY <1>3, <1>6, EmptyElements DEF RestInv, ReadInv, Reading
  <1>16. AheadInv'
    <2>1. Strict => Ahead(Waiting \cup Reading \cup InMemory, db, failed \cup damaged)
      BY DEF SqlInv, AheadInv, Waiting, Reading
    <2>2. Waiting' \cup Reading' \cup InMemory' \subseteq Waiting \cup Reading \cup InMemory
      BY <1>6, <1>13
    <2>3. Strict => Ahead(Waiting' \cup Reading' \cup InMemory', db, failed \cup damaged)
      BY <2>1, <2>2, AheadLess
    <2> QED
      BY <1>1, <2>3 DEF AheadInv, Waiting, Reading, Strict
  <1>17. ClosedInTime' /\ KnowsOldest'
    BY <1>1, <1>3, EmptyElements DEF ClosedInTime, InTime, KnowsOldest, Knows
  <1>18. LifeInv'
    BY <1>1, <1>3 DEF LifeInv, Terminating
  <1>19. ThreadsInv'
    <2> SUFFICES ASSUME NEW t \in Ids
                 PROVE  ThreadOk(t, buff[t], queue[t], store[t], sqlError[t])'
      BY DEF ThreadsInv
    <2>1. buff'[t] = << >> /\ queue'[t] = << >> /\ store'[t] = "none"
      BY <1>1
    <2> QED
      BY <1>1, <2>1 DEF ThreadOk
  <1>20. SqlInv'
    BY <1>1, <1>12, <1>14, <1>15, <1>16, <1>17, <1>18, <1>19 DEF SqlInv
  <1>21. LossStep
    BY <1>1 DEF LossStep
  <1> QED
    BY <1>5, <1>20, <1>21


\* With an idle loader everything on the disk waits.
LEMMA IdleWaits ==
    ASSUME NEW F, NEW x
    PROVE  x \in WaitingLines(F, Idle) <=> \E f \in DOMAIN F : F[f].onDisk /\ x \in ToSet(F[f].lines)
  BY WaitingElement DEF Idle, AtFile

\* JoinLoader keeps the invariant and loses nothing that may not be lost.
LEMMA JoinLoaderKeeps ==
    ASSUME TypeOK, SqlInv, JoinLoader
    PROVE  TypeOK' /\ SqlInv' /\ LossStep
  <1>1. MemoryLost /\ files' = files /\ terms' = terms /\ crashes' = crashes /\ life = "join"
        /\ loader.pc = "done" /\ written' = written
    BY DEF JoinLoader, MemoryLost
  <1>2. /\ files' \in Seq(File) /\ DOMAIN files' = DOMAIN files /\ FilesOrdered(files', written)
        /\ \A f \in DOMAIN files' : ~files'[f].open
        /\ FromOlder(files', ToSet(db)) /\ crashes' \in Nat
    BY <1>1 DEF TypeOK, SqlInv, ClosedInTime, InTime, OlderInv, FromOlder
  <1>3. WaitingLines(files', Idle) = Waiting
    BY <1>1, SameReading DEF Waiting, Idle, AtFile
  <1> QED
    BY <1>1, <1>2, <1>3, MemoryLostStep


\* Crash keeps the invariant and loses nothing that may not be lost.
LEMMA CrashKeeps ==
    ASSUME TypeOK, SqlInv, Crash
    PROVE  TypeOK' /\ SqlInv' /\ LossStep
  <1>1. MemoryLost /\ terms' = terms /\ crashes' = crashes + 1 /\ written' = written
    BY DEF Crash, MemoryLost
  <1>2. PICK n \in 0 .. MaxQueries :
           files' = [f \in DOMAIN files |->
                      [files[f] EXCEPT !.open = FALSE,
                         !.lines = IF files[f].open /\ n < Len(@)
                                   THEN SubSeq(@, 1, n) ELSE @]]
    BY DEF Crash
  <1>3. files \in Seq(File) /\ Len(files) \in Nat /\ DOMAIN files = 1 .. Len(files)
    BY DEF TypeOK
  <1>4. FilesOrdered(files, written)
    BY DEF SqlInv
  <1>5. ASSUME NEW f \in DOMAIN files
        PROVE  /\ files'[f] \in File /\ ~files'[f].open /\ files'[f].onDisk = files[f].onDisk
               /\ Incr(files'[f].lines) /\ (~files[f].open => files'[f].lines = files[f].lines)
               /\ \A x \in ToSet(files'[f].lines) : x \in ToSet(files[f].lines)
    <2>1. PICK r \in File : r = files[f]
      BY <1>3
    <2>2. r.lines \in Seq(Queries) /\ r.lines \in Seq(Nat) /\ Incr(r.lines)
      BY <1>3, <1>4, <2>1, FileFields, LinesAreNumbers DEF FilesOrdered
    <2>3. PICK o \in BOOLEAN : o = FALSE
      OBVIOUS
    <2>4. PICK z : z = IF files[f].open /\ n < Len(r.lines) THEN SubSeq(r.lines, 1, n) ELSE r.lines
      OBVIOUS
    <2>5. z \in Seq(Queries) /\ Incr(z) /\ \A x \in ToSet(z) : x \in ToSet(r.lines)
      <3>1. CASE files[f].open /\ n < Len(r.lines)
        <4>1. PICK y : y = SubSeq(r.lines, n + 1, Len(r.lines))
          OBVIOUS
        <4>2. n \in 0 .. Len(r.lines)
          BY <2>2, <3>1, Constants
        <4>3. z = SubSeq(r.lines, 1, n)
          BY <2>4, <3>1
        <4>4. Split(r.lines, n, z, y)
          BY <4>1, <4>3 DEF Split
        <4>5. z \in Seq(Queries) /\ ToSet(r.lines) = ToSet(z) \cup ToSet(y)
          BY <2>2, <4>2, <4>4, SplitElements
        <4>6. Incr(z)
          BY <2>2, <4>2, <4>4, SplitGrows
        <4> QED
          BY <4>5, <4>6
      <3>2. CASE ~(files[f].open /\ n < Len(r.lines))
        <4>1. z = r.lines
          BY <2>4, <3>2
        <4> QED
          BY <2>2, <4>1
      <3> QED
        BY <3>1, <3>2
    <2>6. PICK t : t = [r EXCEPT !.open = o, !.lines = z]
      OBVIOUS
    <2>7. files'[f] = t
      BY <1>2, <2>1, <2>3, <2>4, <2>6
    <2>8. t \in File /\ t.lines = z /\ t.open = o /\ t.onDisk = r.onDisk
      <3>1. OpenLinesSet(r, o, z, t)
        BY <2>6 DEF OpenLinesSet
      <3> QED
        BY <2>5, <3>1, SetOpenLines
    <2> QED
      BY <2>1, <2>3, <2>4, <2>5, <2>7, <2>8
  <1>6. files' \in [1 .. Len(files) -> File]
    BY <1>2, <1>3, <1>5
  <1>7. files' \in Seq(File) /\ DOMAIN files' = DOMAIN files /\ Len(files') = Len(files)
    BY <1>3, <1>6
  <1>8. FilesOrdered(files', written)
    <2>1. ASSUME NEW f \in DOMAIN files', NEW g \in DOMAIN files', f < g
          PROVE  Below(files'[f].lines, files'[g].lines)
      <3>1. Below(files[f].lines, files[g].lines)
        BY <1>4, <1>7, <2>1 DEF FilesOrdered
      <3> QED
        BY <1>5, <1>7, <3>1 DEF Below
    <2>2. \A f \in DOMAIN files' : \A x \in ToSet(files'[f].lines) : x <= written
      BY <1>4, <1>5, <1>7 DEF FilesOrdered
    <2> QED
      BY <1>5, <1>7, <2>1, <2>2 DEF FilesOrdered
  <1>9. ASSUME NEW x \in WaitingLines(files', Idle) PROVE x \in Waiting \cup Reading
    <2>1. PICK f \in DOMAIN files' : files'[f].onDisk /\ x \in ToSet(files'[f].lines)
      BY IdleWaits
    <2>2. f \in DOMAIN files /\ files[f].onDisk /\ x \in ToSet(files[f].lines)
      BY <1>5, <1>7, <2>1
    <2>3. CASE AtFile(loader) /\ f = loader.file
      BY <2>2, <2>3 DEF Reading, ReadingLines
    <2>4. CASE ~(AtFile(loader) /\ f = loader.file)
      BY <2>2, <2>4, WaitingElement DEF Waiting
    <2> QED
      BY <2>3, <2>4
  <1>10. crashes' \in Nat
    BY <1>1 DEF TypeOK
  <1>11. \A f \in DOMAIN files' : ~files'[f].open
    BY <1>5, <1>7
  <1>12. FromOlder(files', ToSet(db))
    <2>1. FromOlder(files, InMemory \cup ToSet(db))
      BY DEF SqlInv, OlderInv
    <2>2. OnDisk(files') = OnDisk(files)
      BY <1>5, <1>7 DEF OnDisk
    <2>3. ASSUME NEW f \in OnDisk(files')
          PROVE  /\ ToSet(files'[f].lines) \subseteq ToSet(files[f].lines)
                 /\ files[f].open \/ (ToSet(files'[f].lines) = ToSet(files[f].lines) /\ ~files'[f].open)
      BY <1>5, <2>2 DEF OnDisk
    <2> QED
      BY <2>1, <2>2, <2>3, OlderShrinks
  <1> QED
    BY <1>1, <1>7, <1>8, <1>9, <1>10, <1>11, <1>12, MemoryLostStep

-----------------------------------------------------------------------------
(* The theorems *)

\* The initial state satisfies the invariant.
LEMMA InitSql == Init => TypeOK /\ SqlInv
  <1> SUFFICES ASSUME Init PROVE TypeOK /\ SqlInv
    OBVIOUS
  <1>1. /\ written = 0 /\ db = << >> /\ failed = {} /\ damaged = {} /\ reruns = 0 /\ crashes = 0
        /\ terms = 0 /\ life = "up" /\ events = << >> /\ qload = {} /\ loader = Idle /\ files = << >>
        /\ buff = [t \in Ids |-> << >>] /\ queue = [t \in Ids |-> << >>] /\ joined = {}
        /\ store = [t \in Ids |-> "none"] /\ sqlError = [t \in Ids |-> FALSE] /\ writeError = FALSE
    BY DEF Init
  <1>2. inotify \in BOOLEAN /\ threads \in 1 .. StoreThreads
    <2>1. PICK s \in Setups : inotify = s.inotify /\ threads = s.threads
      BY DEF Init
    <2>2. s \in [inotify : BOOLEAN, threads : 1 .. StoreThreads]
      BY <2>1, ThreadsAssumption
    <2> QED
      BY <2>1, <2>2
  <1>3. Loads(loader, DOMAIN files, "start", 0, << >>)
    BY <1>1, IdleLoads
  <1>4. /\ loader \in LoaderState(DOMAIN files) /\ loader.pc = "start" /\ loader.rest = << >>
        /\ ~AtFile(loader) /\ ~HasFile(loader)
    BY <1>3 DEF Loads, AtFile, HasFile
  <1>5. files \in Seq(File) /\ DOMAIN files = {}
    BY <1>1
  <1>6. FilesOrdered(files, written)
    BY <1>5 DEF FilesOrdered
  <1>7. Cardinality(OpenFiles) <= 1
    BY <1>6, AtMostOneOpen DEF OpenFiles
  <1>8. TypeOK
    <2>1. << >> \in Seq(Queries) /\ << >> \in Seq(DOMAIN files) /\ Len(<< >>) <= ConcatLimit /\ 0 \in 0 .. MaxQueries
      BY Constants
    <2>2. buff \in [Ids -> Seq(Queries)]
      BY <1>1, <2>1
    <2>3. queue \in [Ids -> Seq(Queries)] /\ \A t \in Ids : Len(queue[t]) <= ConcatLimit
      BY <1>1, <2>1
    <2>4. store \in [Ids -> StorePc]
      BY <1>1 DEF StorePc
    <2>5. sqlError \in [Ids -> BOOLEAN]
      BY <1>1
    <2>6. /\ life \in Lives /\ written \in 0 .. MaxQueries /\ writeError \in BOOLEAN
          /\ events \in Seq(DOMAIN files) /\ qload \subseteq DOMAIN files /\ joined \subseteq Ids
          /\ db \in Seq(Queries) /\ failed \subseteq Queries /\ damaged \subseteq Queries
          /\ terms \in Nat /\ crashes \in Nat /\ reruns \in Nat
      BY <1>1, <2>1 DEF Lives
    <2> QED
      BY <1>2, <1>4, <1>5, <1>7, <2>2, <2>3, <2>4, <2>5, <2>6 DEF TypeOK, LoaderState, Lives
  <1>9. Waiting = {} /\ Reading = {}
    <2>1. \A x : x \notin Waiting
      BY <1>5, WaitingElement DEF Waiting
    <2> QED
      BY <1>4, <2>1 DEF Reading, ReadingLines
  <1>10. AllEmpty(buff) /\ AllEmpty(queue)
    BY <1>1 DEF AllEmpty
  <1>11. InMemory = {} /\ Memory(<< >>, buff, queue) = {} /\ ToSet(<< >>) = {}
    <2>1. InMemory = Memory(<< >>, buff, queue)
      BY <1>4 DEF InMemory, AtStores, Memory
    <2> QED
      BY <1>10, <2>1, EmptyMemory, EmptyElements
  <1>12. PathInv
    <2>1. SentOften({} \cup Memory(<< >>, buff, queue), << >>, 0)
      <3>1. \A x : x \notin ToSet(<< >>)
        BY <1>11
      <3>2. \A x : Occ(<< >>, x) = 0
        BY <3>1, OccNone
      <3> QED
        BY <1>11, <3>2 DEF SentOften
    <2>2. Ordered({}, << >>, buff, queue)
      BY <1>10, EmptyElements DEF Ordered, OrderedAt, Apart, Below, AllEmpty
    <2>3. UpTo(Memory(<< >>, buff, queue) \cup ToSet(<< >>), 0)
      BY <1>11 DEF UpTo
    <2>4. Path({}, << >>, buff, queue, << >>, 0, 0)
      BY <2>1, <2>2, <2>3 DEF Path
    <2>5. crashes + reruns = 0
      BY <1>1
    <2> QED
      BY <1>1, <1>4, <1>9, <2>4, <2>5 DEF PathInv, Waiting
  <1>13. OlderInv
    BY <1>5 DEF OlderInv, FromOlder, OnDisk
  <1>14. RestInv /\ ReadInv
    BY <1>4, <1>9, <1>11 DEF RestInv, ReadInv, Reading
  <1>15. AheadInv
    BY <1>1, <1>11 DEF AheadInv, Ahead
  <1>16. ClosedInTime /\ KnowsOldest
    BY <1>1, <1>4, <1>5, EmptyElements DEF ClosedInTime, InTime, KnowsOldest, Knows, OnDisk
  <1>17. LifeInv
    BY <1>1 DEF LifeInv, Terminating
  <1>18. ThreadsInv
    <2> SUFFICES ASSUME NEW t \in Ids PROVE ThreadOk(t, buff[t], queue[t], store[t], sqlError[t])
      BY DEF ThreadsInv
    <2>1. buff[t] = << >> /\ queue[t] = << >> /\ store[t] = "none"
      BY <1>1
    <2> QED
      BY <2>1 DEF ThreadOk
  <1> QED
    BY <1>6, <1>8, <1>12, <1>13, <1>14, <1>15, <1>16, <1>17, <1>18 DEF SqlInv

\* A stuttering step keeps the invariant.
LEMMA StutterSql ==
    ASSUME TypeOK, SqlInv, UNCHANGED vars
    PROVE  TypeOK' /\ SqlInv' /\ LossStep
  <1>1. /\ files' = files /\ Quiet /\ life' = life /\ terms' = terms /\ events' = events /\ qload' = qload
        /\ writeError' = writeError /\ loader' = loader /\ inotify' = inotify
    BY DEF vars, Quiet, config, process
  <1>2. /\ files \in Seq(File) /\ events' \in Seq(DOMAIN files) /\ qload' \subseteq DOMAIN files
        /\ writeError' \in BOOLEAN
    BY <1>1 DEF TypeOK
  <1>3. SameContents(files, files')
    BY <1>1, <1>2, SameFiles
  <1>4. ClosedInTime' /\ KnowsOldest'
    BY <1>1 DEF SqlInv, ClosedInTime, KnowsOldest
  <1>5. Lived /\ terms' \in Nat /\ life' \in Lives
    BY <1>1, SameLife
  <1> QED
    BY <1>1, <1>2, <1>3, <1>4, <1>5, QuietStep

\* Every step keeps the invariant and loses queries only at an end or with a damaged line.
LEMMA StepSql == TypeOK /\ SqlInv /\ [Next]_vars => TypeOK' /\ SqlInv' /\ LossStep
  <1> SUFFICES ASSUME TypeOK, SqlInv, [Next]_vars PROVE TypeOK' /\ SqlInv' /\ LossStep
    OBVIOUS
  <1>1. CASE Writer
    BY <1>1, WriteKeeps, WriteFailsKeeps, WriteDroppedKeeps, CloseExceededKeeps DEF Writer
  <1>2. CASE INotify
    BY <1>2, INotifyKeeps
  <1>3. CASE Loader
    BY <1>3, LoaderFillKeeps, LoaderNextKeeps, LoaderOpenKeeps, LoaderPushKeeps, LoaderPushFreedKeeps,
       LoaderUnlinkKeeps, LoaderDoneKeeps DEF Loader
  <1>4. CASE IoFails
    BY <1>4, FlushFailsKeeps, LoaderBadLineKeeps, LoaderReadFailsKeeps DEF IoFails
  <1>5. ASSUME NEW t \in Ids, StoreSucceeds(t) PROVE TypeOK' /\ SqlInv' /\ LossStep
    BY <1>5, StorePopKeeps, StorePacketFullKeeps, StoreEmptyKeeps, StoreCreateKeeps, StoreCallKeeps,
       StoreCheckKeeps DEF StoreSucceeds
  <1>6. ASSUME NEW t \in Ids, StoreFails(t) PROVE TypeOK' /\ SqlInv' /\ LossStep
    BY <1>6, StoreCreateFailsKeeps, StoreCallFailsKeeps, StoreCallRefusedKeeps DEF StoreFails
  <1>7. CASE Terminate
    BY <1>7, TerminateKeeps
  <1>8. CASE Destroy
    BY <1>8, DeleteSqlStoreKeeps, DestructorKeeps, JoinLoaderKeeps, WaitProcessKeeps, DeleteProcessKeeps DEF Destroy
  <1>9. CASE Crash \/ Restart \/ Tick
    BY <1>9, CrashKeeps, RestartKeeps, TickKeeps
  <1>10. CASE UNCHANGED vars
    BY <1>10, StutterSql
  <1> QED
    BY <1>1, <1>2, <1>3, <1>4, <1>5, <1>6, <1>7, <1>8, <1>9, <1>10 DEF Next

\* The types of the cache's state: at most one file is open, no batch exceeds
\* concatLimit, and events and known files name files that exist.
THEOREM SqlTypes == Spec => []TypeOK
  BY InitSql, StepSql, PTL DEF Spec

\* The inductive invariant of the store holds: files are in the order of writing and closed before
\* the loader may take them, the loader knows the oldest, the store threads share no query and each
\* has its queries in order, and what was read from a file is in memory, settled or damaged
\* (MySqlStore::loadFromQFile and MySqlStore_process::store, sql_db.cpp).
THEOREM SqlInvariance == Spec => [](TypeOK /\ SqlInv)
  BY InitSql, StepSql, PTL DEF Spec

\* In normal operation the cache (query_to_file, loadFromQFile, store) loses a query only when its
\* line could not be written or read, for every number of queries, files, store threads and failed
\* calls and every length of the periods.
THEOREM SqlLoss == Spec => LossOnlyAtEnd
  <1>1. TypeOK /\ SqlInv /\ [Next]_vars
           => [Lost' \subseteq Lost \cup damaged' \/ Terminating \/ life' = "down"]_vars
    BY StepSql DEF LossStep
  <1> QED
    BY <1>1, SqlInvariance, PTL DEF Spec, LossOnlyAtEnd

\* However loadFromQFile deals queries out to any number of store threads, and across crashes and
\* restarts, a query in the database has overtaken at most queries that are with the store threads
\* or in its own file, and with one store thread none.
THEOREM SqlOrder == Spec => []NoOvertaking
  <1>1. TypeOK /\ SqlInv => NoOvertaking
    <2> SUFFICES ASSUME TypeOK, SqlInv, NEW r \in ToSet(db),
                        NEW q \in (1 .. r) \ (Settled \cup Lost \cup damaged)
                 PROVE  /\ threads > 1 \/ (terms > 0 /\ ConcatLimit = 1)
                        /\ \/ q \in AtStores
                           \/ \E f \in DOMAIN files : files[f].onDisk /\ {q, r} \subseteq ToSet(files[f].lines)
      BY DEF NoOvertaking
    <2>1. Path(Waiting, loader.rest, buff, queue, db, crashes + reruns, written)
      BY PathNow
    <2>2. /\ db \in Seq(Nat) /\ written \in Nat
          /\ (AtFile(loader) => loader.file \in DOMAIN files)
      BY Types
    <2>3. r \in Nat /\ r <= written
      BY <2>1, <2>2, NatElements DEF Path, UpTo
    <2>4. q \in 1 .. written /\ ~(r < q)
      BY <2>2, <2>3
    <2>5. q \in Held /\ q \notin Settled /\ q \notin damaged
      BY <2>2, <2>4, LostNow
    <2>6. q \in Waiting \cup Reading \cup InMemory /\ q \notin ToSet(db) \cup (failed \cup damaged)
      BY <2>5 DEF Held, Settled
    <2>7. ~Strict
      BY <2>4, <2>6 DEF SqlInv, AheadInv, Ahead, Waiting, Reading
    <2>8. threads > 1 \/ (terms > 0 /\ ConcatLimit = 1)
      <3>1. threads \in Nat \ {0} /\ terms \in Nat /\ ConcatLimit \in Nat \ {0}
        BY Constants DEF TypeOK
      <3> QED
        BY <2>7, <3>1 DEF Strict
    <2>9. CASE q \in AtStores
      BY <2>8, <2>9
    <2>10. CASE q \notin AtStores
      <3>1. q \in Waiting \cup Reading
        BY <2>6, <2>10 DEF InMemory, SqlInv, RestInv, Reading
      <3>2. PICK f \in OnDisk(files) : q \in ToSet(files[f].lines)
        <4>1. CASE q \in Waiting
          BY <4>1, WaitingElement DEF Waiting, OnDisk
        <4>2. CASE q \in Reading
          BY <2>2, <4>2 DEF Reading, ReadingLines, OnDisk
        <4> QED
          BY <3>1, <4>1, <4>2
      <3>3. r \in ToSet(files[f].lines)
        BY <2>4, <3>2 DEF SqlInv, OlderInv, FromOlder
      <3> QED
        BY <2>8, <3>2, <3>3 DEF OnDisk
    <2> QED
      BY <2>9, <2>10
  <1> QED
    BY <1>1, SqlInvariance, PTL

\* A query is executed at most once more than crashes and repeated calls account for.
THEOREM SqlOnce == Spec => []StoredOnce
  <1>1. TypeOK /\ SqlInv => StoredOnce
    <2> SUFFICES ASSUME TypeOK, SqlInv, NEW q \in ToSet(db)
                 PROVE  Cardinality({i \in DOMAIN db : db[i] = q}) <= 1 + crashes + reruns
      BY DEF StoredOnce
    <2>1. Path(Waiting, loader.rest, buff, queue, db, crashes + reruns, written)
      BY PathNow
    <2>2. db \in Seq(Nat) /\ crashes \in Nat /\ reruns \in Nat
      BY Types DEF TypeOK
    <2>3. q \in Nat
      BY <2>2, NatElements
    <2>4. Occ(db, q) <= (crashes + reruns) + 1 /\ Occ(db, q) \in Nat
      BY <2>1, <2>2, <2>3, OccType DEF Path, SentOften
    <2>5. PICK o \in Nat : o = Occ(db, q)
      BY <2>4
    <2>6. o <= 1 + crashes + reruns
      BY <2>2, <2>4, <2>5
    <2> QED
      BY <2>5, <2>6 DEF Occ
  <1> QED
    BY <1>1, SqlInvariance, PTL
=============================================================================
