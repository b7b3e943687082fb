-------------------------- MODULE TensorLoadsProofs --------------------------
(***************************************************************************)
(* For every set of names, every capacity, all sizes of requests, and all  *)
(* widths of addresses and of the offset field: the buffer stays divided   *)
(* among live tensors, free list and losses; a request is refused only     *)
(* when no hole of its size exists; and every live tensor stays whole.     *)
(*                                                                         *)
(* The free list is the difficult part: `free' sorts and merges it anew.   *)
(* What merging returns is shown by the principle of the least number      *)
(* (Climb): the list joined so far is gapped, ends where the last segment  *)
(* ends, and has the units of the segments so far.  A gapped list has each *)
(* row of free units in one segment, which is why a refusal is justified.  *)
(***************************************************************************)
EXTENDS TensorLoads, FiniteSetTheorems, WellFoundedInduction, SequenceTheorems, TLAPS

-----------------------------------------------------------------------------
(* Numbers, and sequences one step at a time.                              *)

\* Of some natural numbers one is the least: what is not so of all numbers
\* fails for a first time.
LEMMA Least ==
  ASSUME NEW T \in SUBSET Nat, T # {}
  PROVE  \E m \in T : \A k \in T : m <= k
<1> DEFINE R == OpToRel(<, Nat)
<1>1. IsWellFoundedOn(R, Nat)
  BY NatLessThanWellFounded
<1>2. \A a, b \in Nat : a < b => <<a, b>> \in R
  BY DEF OpToRel
<1> HIDE DEF R
<1>3. PICK m \in T : \A k \in T : ~ (<<k, m>> \in R)
  BY <1>1, WFMin
<1>4. \A k \in T : ~ (k < m)
  BY <1>2, <1>3
<1> QED
  BY <1>4

\* Hence what holds of 0, and of each number up to n if of the one before,
\* holds of n.
LEMMA Climb ==
  ASSUME NEW n \in Nat, NEW Good, 0 \in Good,
         \A k \in 1 .. n : k - 1 \in Good => k \in Good
  PROVE  n \in Good
<1> DEFINE Bad == {k \in 0 .. n : k \notin Good}
<1>1. CASE Bad = {}
  BY <1>1
<1>2. CASE Bad # {}
  <2>0. Bad \in SUBSET Nat
    OBVIOUS
  <2>1. PICK m \in Bad : \A k \in Bad : m <= k
    <3> HIDE DEF Bad
    <3> QED
      BY <1>2, <2>0, Least
  <2>2. m \in 1 .. n /\ m - 1 \in 0 .. n /\ m - 1 \notin Bad
    BY <2>1
  <2> QED
    BY <2>1, <2>2
<1> QED
  BY <1>1, <1>2

-----------------------------------------------------------------------------
(* Segments and lists of them.                                             *)

Segs == [start : Nat, size : Nat \ {0}]
EndOf(s) == s.start + s.size

\* Segments with different units.
Apart(segs) ==
  \A s, t \in segs : s # t => Buffer!UnitsOf(s) \intersect Buffer!UnitsOf(t) = {}

\* A sorted list of segments no two of which touch.
Gapped(list) ==
  \A i, j \in 1 .. Len(list) : i < j => EndOf(list[i]) < list[j].start

\* The units of a list.
Covered(list) == UNION {Buffer!UnitsOf(list[k]) : k \in DOMAIN list}

\* The units of a segment.
LEMMA SegUnits ==
  ASSUME NEW s \in Segs
  PROVE  /\ s.start \in Nat /\ s.size \in Nat /\ 0 < s.size /\ EndOf(s) \in Nat
         /\ s = Buffer!Seg(s.start, s.size)
         /\ \A u : u \in Buffer!UnitsOf(s) <=> u \in Int /\ s.start <= u /\ u < EndOf(s)
         /\ s.start \in Buffer!UnitsOf(s) /\ EndOf(s) - 1 \in Buffer!UnitsOf(s)
BY DEF Segs, EndOf, Buffer!UnitsOf, Buffer!Seg

\* A segment made of a start and a size.
LEMMA MakeSeg ==
  ASSUME NEW a \in Nat, NEW b \in Nat \ {0}
  PROVE  /\ Buffer!Seg(a, b) \in Segs
         /\ Buffer!Seg(a, b).start = a /\ Buffer!Seg(a, b).size = b
         /\ EndOf(Buffer!Seg(a, b)) = a + b
BY DEF Segs, EndOf, Buffer!Seg

\* Segments that are apart are one behind the other.
LEMMA Ordered ==
  ASSUME NEW s \in Segs, NEW t \in Segs,
         Buffer!UnitsOf(s) \intersect Buffer!UnitsOf(t) = {}
  PROVE  /\ s.start # t.start
         /\ s.start < t.start => EndOf(s) <= t.start
<1>1. /\ s.start \in Int /\ t.start \in Int /\ EndOf(s) \in Int /\ EndOf(t) \in Int
      /\ s.start < EndOf(s) /\ t.start < EndOf(t)
  BY SegUnits DEF EndOf
<1>2. \A u \in Int : ~(s.start <= u /\ u < EndOf(s) /\ t.start <= u /\ u < EndOf(t))
  BY SegUnits
<1> QED
  BY <1>1, <1>2

\* A unit of a list is one of some segment.
LEMMA CoveredUnit ==
  ASSUME NEW list, NEW u
  PROVE  u \in Covered(list) <=> \E k \in DOMAIN list : u \in Buffer!UnitsOf(list[k])
BY DEF Covered

-----------------------------------------------------------------------------
(* Sorting.                                                                *)

\* What is in front of a segment, and of a later one.
LEMMA Ranks ==
  ASSUME NEW segs, segs \subseteq Segs, IsFiniteSet(segs), Apart(segs)
  PROVE  /\ \A s \in segs : Cardinality(Buffer!InFront(segs, s)) \in 0 .. Cardinality(segs) - 1
         /\ \A s, t \in segs : s.start < t.start =>
              Cardinality(Buffer!InFront(segs, s)) < Cardinality(Buffer!InFront(segs, t))
<1>1. \A s \in segs : s.start \in Int
  BY SegUnits
<1>2. \A s \in segs : /\ Buffer!InFront(segs, s) \subseteq segs /\ s \notin Buffer!InFront(segs, s)
                      /\ IsFiniteSet(Buffer!InFront(segs, s))
                      /\ Cardinality(Buffer!InFront(segs, s)) \in Nat
                      /\ Cardinality(Buffer!InFront(segs, s) \union {s})
                           = Cardinality(Buffer!InFront(segs, s)) + 1
  <2> SUFFICES ASSUME NEW s \in segs
               PROVE  /\ Buffer!InFront(segs, s) \subseteq segs /\ s \notin Buffer!InFront(segs, s)
                      /\ IsFiniteSet(Buffer!InFront(segs, s))
                      /\ Cardinality(Buffer!InFront(segs, s)) \in Nat
                      /\ Cardinality(Buffer!InFront(segs, s) \union {s})
                           = Cardinality(Buffer!InFront(segs, s)) + 1
    OBVIOUS
  <2>1. Buffer!InFront(segs, s) \subseteq segs /\ s \notin Buffer!InFront(segs, s)
    BY <1>1 DEF Buffer!InFront
  <2>2. IsFiniteSet(Buffer!InFront(segs, s))
    BY <2>1, FS_Subset
  <2> QED
    BY <2>1, <2>2, FS_CardinalityType, FS_AddElement
<1>3. Cardinality(segs) \in Nat
  BY FS_CardinalityType
<1>4. ASSUME NEW s \in segs
      PROVE  Cardinality(Buffer!InFront(segs, s)) \in 0 .. Cardinality(segs) - 1
  <2>1. Buffer!InFront(segs, s) \union {s} \in SUBSET segs
    BY <1>2
  <2>2. Cardinality(Buffer!InFront(segs, s) \union {s}) <= Cardinality(segs)
    BY <2>1, FS_Subset
  <2> DEFINE c == Cardinality(Buffer!InFront(segs, s))
  <2>3. c \in Nat /\ c + 1 <= Cardinality(segs)
    BY <1>2, <2>2
  <2> HIDE DEF c
  <2>4. c \in 0 .. Cardinality(segs) - 1
    BY <1>3, <2>3
  <2> QED
    BY <2>4 DEF c
<1>5. ASSUME NEW s \in segs, NEW t \in segs, s.start < t.start
      PROVE  Cardinality(Buffer!InFront(segs, s)) < Cardinality(Buffer!InFront(segs, t))
  <2>1. Buffer!InFront(segs, s) \union {s} \in SUBSET Buffer!InFront(segs, t)
    BY <1>1, <1>5 DEF Buffer!InFront
  <2>2. Cardinality(Buffer!InFront(segs, s) \union {s}) <= Cardinality(Buffer!InFront(segs, t))
    BY <1>2, <2>1, FS_Subset
  <2> DEFINE c == Cardinality(Buffer!InFront(segs, s))
             d == Cardinality(Buffer!InFront(segs, t))
  <2>3. c \in Nat /\ d \in Nat /\ c + 1 <= d
    BY <1>2, <2>2
  <2> HIDE DEF c, d
  <2>4. c < d
    BY <2>3
  <2> QED
    BY <2>4 DEF c, d
<1> QED
  BY <1>4, <1>5

\* Each place of the sorted list has its segment.
LEMMA Placement ==
  ASSUME NEW segs, segs \subseteq Segs, IsFiniteSet(segs), Apart(segs),
         NEW k \in 1 .. Cardinality(segs)
  PROVE  \E s \in segs : Cardinality(Buffer!InFront(segs, s)) = k - 1
<1> DEFINE n == Cardinality(segs)
           Rank(s) == Cardinality(Buffer!InFront(segs, s))
           rank == [s \in segs |-> Rank(s)]
<1>1. n \in Nat
  BY FS_CardinalityType
<1>2. rank \in [segs -> 0 .. n - 1]
  BY Ranks
<1>3. \A s, t \in segs : rank[s] = rank[t] => s = t
  <2> SUFFICES ASSUME NEW s \in segs, NEW t \in segs, Rank(s) = Rank(t), s # t
               PROVE  FALSE
    OBVIOUS
  <2>1. s \in Segs /\ t \in Segs /\ s.start # t.start
    BY Ordered DEF Apart
  <2>2. s.start < t.start \/ t.start < s.start
    BY <2>1, SegUnits
  <2>3. Rank(s) < Rank(t) \/ Rank(t) < Rank(s)
    BY <2>2, Ranks
  <2>4. Rank(s) \in Int /\ Rank(t) \in Int
    BY <1>1, Ranks
  <2> QED
    BY <2>3, <2>4
<1>4. IsFiniteSet(0 .. n - 1) /\ Cardinality(0 .. n - 1) = n
  <2> HIDE DEF n
  <2>1. 0 \in Int /\ n - 1 \in Int
    BY <1>1
  <2>2. /\ IsFiniteSet(0 .. n - 1)
        /\ Cardinality(0 .. n - 1) = IF 0 > n - 1 THEN 0 ELSE (n - 1) - 0 + 1
    BY <2>1, FS_Interval
  <2> QED
    BY <1>1, <2>2
<1> HIDE DEF n, rank
<1>5. rank \in Injection(segs, 0 .. n - 1)
  BY <1>2, <1>3 DEF Injection, IsInjective
<1>6. rank \in Surjection(segs, 0 .. n - 1)
  BY <1>4, <1>5, FS_Injection DEF n
<1>7. k - 1 \in 0 .. n - 1
  BY <1>1 DEF n
<1>8. \E s \in segs : rank[s] = k - 1
  BY <1>6, <1>7 DEF Surjection
<1> QED
  BY <1>8 DEF rank

\* The sorted list of segments that are apart: each once, one behind the
\* other.
LEMMA SortedList ==
  ASSUME NEW segs, segs \subseteq Segs, IsFiniteSet(segs), Apart(segs)
  PROVE  LET sorted == Buffer!Sorted(segs) IN
         /\ sorted \in Seq(Segs) /\ Len(sorted) = Cardinality(segs) /\ Len(sorted) \in Nat
         /\ \A s : s \in segs <=> \E k \in 1 .. Len(sorted) : s = sorted[k]
         /\ \A k \in 2 .. Len(sorted) : EndOf(sorted[k - 1]) <= sorted[k].start
<1> DEFINE n == Cardinality(segs)
           Rank(s) == Cardinality(Buffer!InFront(segs, s))
           sorted == Buffer!Sorted(segs)
<1>1. n \in Nat
  BY FS_CardinalityType
<1>2. sorted = [k \in 1 .. n |-> CHOOSE s \in segs : Rank(s) = k - 1]
  <2>1. \A set : Buffer!Cardinality(set) = Cardinality(set)
    BY DEF Buffer!Cardinality, Cardinality
  <2> QED
    BY <2>1 DEF Buffer!Sorted
<1>3. ASSUME NEW k \in 1 .. n
      PROVE  sorted[k] \in segs /\ Rank(sorted[k]) = k - 1
  <2>1. \E s \in segs : Rank(s) = k - 1
    BY Placement
  <2>2. sorted[k] = CHOOSE s \in segs : Rank(s) = k - 1
    BY <1>2
  <2> QED
    BY <2>1, <2>2
<1> HIDE DEF sorted
<1>4. sorted \in Seq(Segs) /\ Len(sorted) = n
  <2>1. sorted = [k \in 1 .. n |-> sorted[k]] /\ \A k \in 1 .. n : sorted[k] \in Segs
    <3> HIDE DEF n
    <3> QED
      BY <1>2, <1>3
  <2> HIDE DEF n
  <2> QED
    BY <1>1, <2>1
<1>5. \A s, t \in segs : Rank(s) < Rank(t) => EndOf(s) <= t.start
  <2> SUFFICES ASSUME NEW s \in segs, NEW t \in segs, Rank(s) < Rank(t)
               PROVE  EndOf(s) <= t.start
    OBVIOUS
  <2>1. Rank(s) \in Int /\ Rank(t) \in Int
    BY <1>1, Ranks
  <2>2. s # t
    BY <2>1
  <2>3. s \in Segs /\ t \in Segs /\ s.start # t.start /\ (s.start < t.start => EndOf(s) <= t.start)
    BY <2>2, Ordered DEF Apart
  <2>4. ~(t.start < s.start)
    <3>1. t.start < s.start => Rank(t) < Rank(s)
      BY Ranks
    <3> QED
      BY <2>1, <3>1
  <2> QED
    BY <2>3, <2>4, SegUnits
<1>6. ASSUME NEW s \in segs
      PROVE  \E k \in 1 .. n : s = sorted[k]
  <2>1. Rank(s) \in 0 .. n - 1
    BY Ranks
  <2> DEFINE k == Rank(s) + 1
  <2>2. k \in 1 .. n /\ k - 1 = Rank(s)
    <3>1. \A r \in 0 .. n - 1 : r + 1 \in 1 .. n /\ (r + 1) - 1 = r
      BY <1>1
    <3> QED
      BY <2>1, <3>1
  <2>3. sorted[k] \in segs /\ Rank(sorted[k]) = Rank(s)
    <3> HIDE DEF k
    <3> QED
      BY <1>3, <2>2
  <2>4. sorted[k] = s
    <3> SUFFICES ASSUME sorted[k] # s PROVE FALSE
      OBVIOUS
    <3> DEFINE t == sorted[k]
    <3> HIDE DEF t
    <3>1. t \in segs /\ t # s /\ Rank(t) = Rank(s)
      BY <2>3 DEF t
    <3>2. t \in Segs /\ s \in Segs /\ t.start # s.start
      BY <3>1, Ordered DEF Apart
    <3>3. t.start < s.start \/ s.start < t.start
      BY <3>2, SegUnits
    <3>4. Rank(t) < Rank(s) \/ Rank(s) < Rank(t)
      BY <3>1, <3>3, Ranks
    <3>5. Rank(s) \in Int
      BY <1>1, <2>1
    <3> QED
      BY <3>1, <3>4, <3>5
  <2> QED
    BY <2>2, <2>4
<1>7. ASSUME NEW k \in 2 .. n
      PROVE  EndOf(sorted[k - 1]) <= sorted[k].start
  <2>1. k \in 1 .. n /\ k - 1 \in 1 .. n /\ (k - 1) - 1 < k - 1
    BY <1>1
  <2>2. /\ sorted[k] \in segs /\ Rank(sorted[k]) = k - 1
        /\ sorted[k - 1] \in segs /\ Rank(sorted[k - 1]) = (k - 1) - 1
    BY <1>3, <2>1
  <2>3. Rank(sorted[k - 1]) < Rank(sorted[k])
    BY <2>1, <2>2
  <2> QED
    BY <1>5, <2>2, <2>3
<1> QED
  BY <1>1, <1>3, <1>4, <1>6, <1>7 DEF sorted

-----------------------------------------------------------------------------
(* Joining.                                                                *)

\* A segment behind the last one of a list is joined to it or follows it.
LEMMA JoinStep ==
  ASSUME NEW list \in Seq(Segs), Gapped(list), NEW s \in Segs,
         list # <<>> => EndOf(list[Len(list)]) <= s.start
  PROVE  LET new == Buffer!Join(list, s) IN
         /\ new \in Seq(Segs) /\ new # <<>> /\ Gapped(new)
         /\ EndOf(new[Len(new)]) = EndOf(s)
         /\ Covered(new) = Covered(list) \union Buffer!UnitsOf(s)
<1> DEFINE n == Len(list)
           last == list[n]
           new == Buffer!Join(list, s)
<1>1. n \in Nat /\ DOMAIN list = 1 .. n /\ \A k \in 1 .. n : list[k] \in Segs
  OBVIOUS
<1>2. list = <<>> <=> n = 0
  OBVIOUS
<1>3. /\ s.start \in Nat /\ s.size \in Nat /\ 0 < s.size /\ EndOf(s) = s.start + s.size
      /\ EndOf(s) \in Nat
      /\ \A u : u \in Buffer!UnitsOf(s) <=> u \in Int /\ s.start <= u /\ u < EndOf(s)
  BY SegUnits DEF EndOf
<1>4. \A i, j \in 1 .. n : i < j => EndOf(list[i]) < list[j].start
  BY DEF Gapped
<1>5. CASE list # <<>> /\ last.start + last.size = s.start
  <2> DEFINE long == Buffer!Seg(last.start, last.size + s.size)
  <2>1. n \in 1 .. n /\ last \in Segs
    BY <1>1, <1>2, <1>5
  <2>2. /\ last.start \in Nat /\ last.size \in Nat /\ 0 < last.size
        /\ EndOf(last) = last.start + last.size
        /\ \A u : u \in Buffer!UnitsOf(last) <=> u \in Int /\ last.start <= u /\ u < EndOf(last)
    BY <2>1, SegUnits DEF EndOf
  <2>3. /\ long \in Segs /\ long.start = last.start
        /\ EndOf(long) = last.start + (last.size + s.size)
    <3>1. last.size + s.size \in Nat \ {0}
      BY <1>3, <2>2
    <3> QED
      BY <2>2, <3>1, MakeSeg
  <2>4. EndOf(long) = EndOf(s)
    BY <1>3, <1>5, <2>2, <2>3
  <2>5. new = [list EXCEPT ![n] = long]
    BY <1>5 DEF Buffer!Join, Buffer!Last
  <2> HIDE DEF long
  <2>6. /\ new \in Seq(Segs) /\ Len(new) = n /\ new[n] = long
        /\ \A k \in 1 .. n : k # n => new[k] = list[k]
    BY <1>1, <2>1, <2>3, <2>5
  <2>7. Gapped(new)
    <3> SUFFICES ASSUME NEW i \in 1 .. n, NEW j \in 1 .. n, i < j
                 PROVE  EndOf(new[i]) < new[j].start
      BY <2>6 DEF Gapped
    <3>1. i # n /\ EndOf(list[i]) < list[j].start
      <4>1. i # n
        BY <1>1
      <4>2. EndOf(list[i]) < list[j].start
        BY <1>4
      <4> QED
        BY <4>1, <4>2
    <3>2. new[i] = list[i] /\ new[j].start = list[j].start
      BY <2>3, <2>6, <3>1
    <3> QED
      BY <3>1, <3>2
  <2>8. ASSUME NEW u
        PROVE  u \in Buffer!UnitsOf(long) <=>
                 u \in Buffer!UnitsOf(last) \/ u \in Buffer!UnitsOf(s)
    <3>1. u \in Buffer!UnitsOf(long) <=> u \in Int /\ last.start <= u /\ u < EndOf(s)
      BY <2>3, <2>4, SegUnits
    <3>2. /\ u \in Buffer!UnitsOf(last) <=> u \in Int /\ last.start <= u /\ u < s.start
          /\ u \in Buffer!UnitsOf(s) <=> u \in Int /\ s.start <= u /\ u < EndOf(s)
      BY <1>3, <1>5, <2>2
    <3>3. last.start <= s.start /\ s.start <= EndOf(s)
      BY <1>3, <1>5, <2>2
    <3> QED
      BY <1>3, <2>2, <3>1, <3>2, <3>3
  <2>9. Covered(new) = Covered(list) \union Buffer!UnitsOf(s)
    <3> SUFFICES ASSUME NEW u
                 PROVE  u \in Covered(new) <=> u \in Covered(list) \/ u \in Buffer!UnitsOf(s)
      OBVIOUS
    <3>1. u \in Covered(new) <=> \E k \in 1 .. n : u \in Buffer!UnitsOf(new[k])
      BY <2>6, CoveredUnit
    <3>2. u \in Covered(list) <=> \E k \in 1 .. n : u \in Buffer!UnitsOf(list[k])
      BY <1>1, CoveredUnit
    <3> QED
      BY <2>1, <2>6, <2>8, <3>1, <3>2
  <2>10. new # <<>>
    BY <1>2, <2>1, <2>6
  <2> QED
    BY <2>4, <2>6, <2>7, <2>9, <2>10
<1>6. CASE ~(list # <<>> /\ last.start + last.size = s.start)
  <2>1. new = Append(list, s)
    BY <1>6 DEF Buffer!Join, Buffer!Last
  <2>2. /\ new \in Seq(Segs) /\ Len(new) = n + 1 /\ new[n + 1] = s /\ new # <<>>
        /\ \A k \in 1 .. n : new[k] = list[k]
    BY <1>1, <2>1
  <2>3. ASSUME NEW i \in 1 .. n
        PROVE  EndOf(list[i]) < s.start
    <3>1. last \in Segs /\ list[i] \in Segs /\ EndOf(last) <= s.start /\ EndOf(last) # s.start
      BY <1>1, <1>2, <1>6 DEF EndOf
    <3>2. EndOf(last) < s.start
      BY <1>3, <3>1, SegUnits
    <3>3. CASE i = n
      BY <3>2, <3>3
    <3>4. CASE i # n
      <4>1. EndOf(list[i]) < last.start
        <5>1. n \in 1 .. n /\ i < n
          <6>1. n \in Nat
            BY <1>1
          <6> HIDE DEF n
          <6> QED
            BY <3>4, <6>1
        <5> QED
          BY <1>4, <5>1
      <4>2. EndOf(list[i]) \in Nat /\ EndOf(last) \in Nat /\ last.start \in Nat
        <5> HIDE DEF last
        <5> QED
          BY <3>1, SegUnits
      <4>3. last.start < EndOf(last)
        <5>1. last.start \in Nat /\ last.size \in Nat /\ 0 < last.size
          BY <3>1, SegUnits
        <5> QED
          BY <5>1 DEF EndOf
      <4> QED
        BY <1>3, <3>2, <4>1, <4>2, <4>3
    <3> QED
      BY <3>3, <3>4
  <2>4. Gapped(new)
    <3> SUFFICES ASSUME NEW i \in 1 .. n + 1, NEW j \in 1 .. n + 1, i < j
                 PROVE  EndOf(new[i]) < new[j].start
      BY <2>2 DEF Gapped
    <3>1. i \in 1 .. n /\ new[i] = list[i]
      BY <1>1, <2>2
    <3>2. CASE j = n + 1
      BY <2>2, <2>3, <3>1, <3>2
    <3>3. CASE j # n + 1
      <4>1. j \in 1 .. n /\ new[j] = list[j]
        BY <1>1, <2>2, <3>3
      <4> QED
        BY <3>1, <4>1 DEF Gapped
    <3> QED
      BY <3>2, <3>3
  <2>5. Covered(new) = Covered(list) \union Buffer!UnitsOf(s)
    <3> SUFFICES ASSUME NEW u
                 PROVE  u \in Covered(new) <=> u \in Covered(list) \/ u \in Buffer!UnitsOf(s)
      OBVIOUS
    <3>1. u \in Covered(new) <=> \E k \in 1 .. n + 1 : u \in Buffer!UnitsOf(new[k])
      BY <2>2, CoveredUnit
    <3>2. u \in Covered(list) <=> \E k \in 1 .. n : u \in Buffer!UnitsOf(list[k])
      BY <1>1, CoveredUnit
    <3>3. \A k : k \in 1 .. n + 1 <=> k \in 1 .. n \/ k = n + 1
      BY <1>1
    <3> QED
      BY <2>2, <3>1, <3>2, <3>3
  <2> QED
    BY <2>2, <2>4, <2>5
<1> QED
  BY <1>5, <1>6

\* The lists that joining goes through, one for each segment joined.
LEMMA JoinedLists ==
  ASSUME NEW sorted, NEW n \in Nat
  PROVE  \E f : f = [k \in 0 .. n |-> IF k = 0 THEN <<>>
                                      ELSE Buffer!Join(f[k - 1], sorted[k])]
<1> DEFINE Fits(f, m) == f = [k \in 0 .. m |-> IF k = 0 THEN <<>>
                                               ELSE Buffer!Join(f[k - 1], sorted[k])]
           Good == {m \in 0 .. n : \E f : Fits(f, m)}
<1>1. 0 \in Good
  <2> DEFINE f == [k \in 0 .. 0 |-> <<>>]
  <2>1. \A k \in 0 .. 0 : k = 0
    OBVIOUS
  <2>2. Fits(f, 0)
    BY <2>1
  <2> HIDE DEF f, Fits
  <2> QED
    BY <2>2
<1>2. ASSUME NEW m \in 1 .. n, m - 1 \in Good
      PROVE  m \in Good
  <2> DEFINE p == m - 1
  <2>1. PICK f : Fits(f, p)
    BY <1>2
  <2> DEFINE g == [k \in 0 .. m |-> IF k \in 0 .. p THEN f[k] ELSE Buffer!Join(f[p], sorted[m])]
             h == [k \in 0 .. m |-> IF k = 0 THEN <<>> ELSE Buffer!Join(g[k - 1], sorted[k])]
  <2>2. \A k \in 0 .. p : f[k] = IF k = 0 THEN <<>> ELSE Buffer!Join(f[k - 1], sorted[k])
    BY <2>1
  <2>3. ASSUME NEW k \in 0 .. m
        PROVE  g[k] = IF k = 0 THEN <<>> ELSE Buffer!Join(g[k - 1], sorted[k])
    <3>1. CASE k \in 0 .. p
      <4>1. g[k] = f[k]
        BY <3>1
      <4>2. k # 0 => k - 1 \in 0 .. p /\ k - 1 \in 0 .. m
        BY <3>1
      <4>3. k # 0 => g[k - 1] = f[k - 1]
        BY <4>2
      <4> QED
        BY ONLY <2>2, <3>1, <4>1, <4>3
    <3>2. CASE k \notin 0 .. p
      <4>1. k = m /\ p \in 0 .. p /\ p \in 0 .. m /\ k - 1 = p /\ k # 0
        BY <3>2
      <4>2. g[k] = Buffer!Join(f[p], sorted[m]) /\ g[k - 1] = f[p]
        BY <3>2, <4>1
      <4> QED
        BY ONLY <4>1, <4>2
    <3> QED
      BY <3>1, <3>2
  <2>4. g = h
    <3>1. DOMAIN g = 0 .. m /\ DOMAIN h = 0 .. m
      OBVIOUS
    <3>2. \A k \in 0 .. m : g[k] = h[k]
      <4> HIDE DEF g
      <4> QED
        BY <2>3
    <3>3. g = [k \in 0 .. m |-> g[k]] /\ h = [k \in 0 .. m |-> h[k]]
      OBVIOUS
    <3> HIDE DEF g, h
    <3> QED
      BY <3>2, <3>3
  <2> HIDE DEF g
  <2>5. Fits(g, m)
    BY <2>4
  <2> HIDE DEF Fits
  <2> QED
    BY <2>5
<1>3. n \in Good
  <2> HIDE DEF Good
  <2> QED
    BY <1>1, <1>2, Climb
<1> QED
  BY <1>3

\* What merging goes through and where it ends.
LEMMA MergedIsLast ==
  ASSUME NEW segs, Len(Buffer!Sorted(segs)) \in Nat
  PROVE  LET sorted == Buffer!Sorted(segs)
             n == Len(sorted)
         IN  \E f : /\ f = [k \in 0 .. n |-> IF k = 0 THEN <<>>
                                             ELSE Buffer!Join(f[k - 1], sorted[k])]
                    /\ Buffer!Merged(segs) = f[n]
<1> DEFINE sorted == Buffer!Sorted(segs)
           n == Len(sorted)
           Fits(f) == f = [k \in 0 .. n |-> IF k = 0 THEN <<>>
                                            ELSE Buffer!Join(f[k - 1], sorted[k])]
           f == CHOOSE g : Fits(g)
<1>1. \E g : Fits(g)
  BY JoinedLists
<1>2. Buffer!Merged(segs) = f[n]
  BY DEF Buffer!Merged
<1> HIDE DEF Fits
<1>3. Fits(f)
  BY <1>1
<1> QED
  BY <1>2, <1>3 DEF Fits

\* Merging segments that are apart keeps their units, and leaves no two
\* segments that touch.
LEMMA MergedList ==
  ASSUME NEW segs, segs \subseteq Segs, IsFiniteSet(segs), Apart(segs)
  PROVE  /\ Buffer!Merged(segs) \in Seq(Segs)
         /\ Gapped(Buffer!Merged(segs))
         /\ Covered(Buffer!Merged(segs)) = UNION {Buffer!UnitsOf(s) : s \in segs}
<1> DEFINE sorted == Buffer!Sorted(segs)
           n == Len(sorted)
<1>1. /\ n \in Nat
      /\ \A s : s \in segs <=> \E k \in 1 .. n : s = sorted[k]
      /\ \A k \in 2 .. n : EndOf(sorted[k - 1]) <= sorted[k].start
  BY SortedList
<1>2. PICK f : /\ f = [k \in 0 .. n |-> IF k = 0 THEN <<>> ELSE Buffer!Join(f[k - 1], sorted[k])]
               /\ Buffer!Merged(segs) = f[n]
  BY <1>1, MergedIsLast
<1> HIDE DEF sorted, n
<1>3. \A k \in 0 .. n : f[k] = IF k = 0 THEN <<>> ELSE Buffer!Join(f[k - 1], sorted[k])
  BY <1>2
<1> DEFINE Upto(k) == UNION {Buffer!UnitsOf(sorted[i]) : i \in 1 .. k}
           Good == {k \in 0 .. n :
                      /\ f[k] \in Seq(Segs) /\ Gapped(f[k]) /\ Covered(f[k]) = Upto(k)
                      /\ k = 0 => f[k] = <<>>
                      /\ k # 0 => EndOf(f[k][Len(f[k])]) = EndOf(sorted[k])}
<1>4. 0 \in Good
  <2>1. 0 \in 0 .. n /\ f[0] = <<>>
    BY <1>1, <1>3
  <2>2. Gapped(<<>>)
    BY DEF Gapped
  <2>3. Covered(<<>>) = Upto(0)
    BY DEF Covered
  <2> HIDE DEF Upto
  <2>4. <<>> \in Seq(Segs)
    OBVIOUS
  <2>5. f[0] \in Seq(Segs) /\ Gapped(f[0]) /\ Covered(f[0]) = Upto(0)
    BY <2>1, <2>2, <2>3, <2>4
  <2> QED
    BY <2>1, <2>5
<1>5. ASSUME NEW k \in 1 .. n, k - 1 \in Good
      PROVE  k \in Good
  <2> DEFINE p == k - 1
             list == f[p]
             s == sorted[k]
             new == Buffer!Join(list, s)
  <2>1. /\ list \in Seq(Segs) /\ Gapped(list) /\ Covered(list) = Upto(p)
        /\ p = 0 => list = <<>>
        /\ p # 0 => EndOf(list[Len(list)]) = EndOf(sorted[p])
    BY <1>5
  <2>2. s \in Segs
    BY <1>1
  <2>3. list # <<>> => EndOf(list[Len(list)]) <= s.start
    <3> SUFFICES ASSUME list # <<>>
                 PROVE  EndOf(list[Len(list)]) <= s.start
      OBVIOUS
    <3>1. p # 0 /\ k \in 2 .. n
      BY <1>1, <2>1
    <3>2. EndOf(sorted[k - 1]) <= sorted[k].start
      BY <1>1, <3>1
    <3> QED
      BY <2>1, <3>1, <3>2
  <2>4. f[k] = new
    BY <1>3
  <2>5. Upto(k) = Upto(p) \union Buffer!UnitsOf(s)
    <3>1. \A i : i \in 1 .. k <=> i \in 1 .. p \/ i = k
      BY <1>1
    <3> QED
      BY <3>1
  <2> HIDE DEF Upto, list, s
  <2>6. /\ new \in Seq(Segs) /\ new # <<>> /\ Gapped(new)
        /\ EndOf(new[Len(new)]) = EndOf(s)
        /\ Covered(new) = Covered(list) \union Buffer!UnitsOf(s)
    BY <2>1, <2>2, <2>3, JoinStep
  <2> HIDE DEF new
  <2>7. k \in 0 .. n /\ k # 0
    BY <1>1
  <2>8. /\ f[k] \in Seq(Segs) /\ Gapped(f[k]) /\ EndOf(f[k][Len(f[k])]) = EndOf(s)
        /\ Covered(f[k]) = Upto(k)
    BY <2>1, <2>4, <2>5, <2>6
  <2> QED
    BY <2>7, <2>8 DEF s
<1>6. n \in Good
  <2> HIDE DEF Good
  <2> QED
    BY <1>1, <1>4, <1>5, Climb
<1>7. Upto(n) = UNION {Buffer!UnitsOf(s) : s \in segs}
  BY <1>1
<1> QED
  BY <1>2, <1>6, <1>7

-----------------------------------------------------------------------------
(* Requests.                                                               *)

\* Where there is a hole for a request the first of them is one.
LEMMA FirstFits ==
  ASSUME NEW list \in Seq(Segs), NEW size \in Nat, Buffer!FitsIn(list, size) # {}
  PROVE  /\ Buffer!FirstFit(list, size) \in 1 .. Len(list)
         /\ list[Buffer!FirstFit(list, size)].size >= size
<1> DEFINE S == Buffer!FitsIn(list, size)
<1>1. \A k : k \in S <=> k \in 1 .. Len(list) /\ list[k].size >= size
  BY DEF Buffer!FitsIn
<1>2. S \in SUBSET Nat
  BY <1>1
<1>3. \E k \in S : \A j \in S : k <= j
  <2> HIDE DEF S
  <2> QED
    BY <1>2, Least DEF S
<1>4. Buffer!FirstFit(list, size) = CHOOSE k \in S : \A j \in S : k <= j
  BY DEF Buffer!FirstFit
<1> HIDE DEF S
<1>5. Buffer!FirstFit(list, size) \in S
  BY <1>3, <1>4
<1> QED
  BY <1>1, <1>5

\* Segments of a list have no unit in common.
LEMMA GappedApart ==
  ASSUME NEW list \in Seq(Segs), Gapped(list), NEW i \in 1 .. Len(list), NEW j \in 1 .. Len(list),
         NEW u, u \in Buffer!UnitsOf(list[i]), u \in Buffer!UnitsOf(list[j])
  PROVE  i = j
<1>1. list[i] \in Segs /\ list[j] \in Segs
  OBVIOUS
<1>2. /\ list[i].start \in Nat /\ list[j].start \in Nat
      /\ EndOf(list[i]) \in Nat /\ EndOf(list[j]) \in Nat
      /\ u \in Int /\ list[i].start <= u /\ u < EndOf(list[i])
      /\ list[j].start <= u /\ u < EndOf(list[j])
  BY <1>1, SegUnits
<1>3. i < j => EndOf(list[i]) < list[j].start
  BY DEF Gapped
<1>4. j < i => EndOf(list[j]) < list[i].start
  BY DEF Gapped
<1>5. ~(i < j) /\ ~(j < i)
  BY <1>2, <1>3, <1>4
<1> QED
  BY <1>5

\* A sequence without its element k.
LEMMA Removed ==
  ASSUME NEW list \in Seq(Segs), NEW k \in 1 .. Len(list)
  PROVE  LET new == Buffer!RemoveAt(list, k) IN
         /\ new \in Seq(Segs) /\ Len(new) = Len(list) - 1
         /\ \A i \in 1 .. Len(new) : new[i] = IF i < k THEN list[i] ELSE list[i + 1]
<1> DEFINE n == Len(list)
           a == SubSeq(list, 1, k - 1)
           b == SubSeq(list, k + 1, n)
           new == Buffer!RemoveAt(list, k)
<1>1. n \in Nat
  OBVIOUS
<1>2. a \in Seq(Segs) /\ Len(a) = k - 1 /\ \A i \in 1 .. k - 1 : a[i] = list[i]
  OBVIOUS
<1>3. b \in Seq(Segs) /\ Len(b) = n - k /\ \A i \in 1 .. n - k : b[i] = list[i + k]
  OBVIOUS
<1>4. new = a \o b
  BY DEF Buffer!RemoveAt
<1> HIDE DEF a, b
<1>5. new \in Seq(Segs) /\ Len(new) = n - 1
  BY <1>1, <1>2, <1>3, <1>4
<1>6. ASSUME NEW i \in 1 .. n - 1
      PROVE  new[i] = IF i < k THEN list[i] ELSE list[i + 1]
  <2>1. CASE i < k
    <3>1. i \in 1 .. k - 1
      BY <1>1, <2>1
    <3>2. (a \o b)[i] = a[i]
      BY <1>2, <1>3, <3>1
    <3> QED
      BY <1>2, <1>4, <2>1, <3>1, <3>2
  <2>2. CASE ~(i < k)
    <3>1. i - (k - 1) \in 1 .. n - k /\ (i - (k - 1)) + k = i + 1
      BY <1>1, <2>2
    <3>2. (a \o b)[i] = b[i - (k - 1)]
      BY <1>2, <1>3, <2>2, <3>1
    <3> QED
      BY <1>3, <1>4, <2>2, <3>1, <3>2
  <2> QED
    BY <2>1, <2>2
<1> QED
  BY <1>5, <1>6

\* A request takes the low end of a hole, and nothing else.
LEMMA TakeList ==
  ASSUME NEW list \in Seq(Segs), Gapped(list), NEW k \in 1 .. Len(list),
         NEW size \in Nat \ {0}, list[k].size >= size
  PROVE  LET new == Buffer!Take(list, k, size)
             taken == list[k].start .. list[k].start + size - 1
         IN  /\ new \in Seq(Segs) /\ Gapped(new)
             /\ taken \subseteq Covered(list)
             /\ Covered(new) = Covered(list) \ taken
<1> DEFINE n == Len(list)
           s == list[k]
           new == Buffer!Take(list, k, size)
           taken == s.start .. s.start + size - 1
<1>1. n \in Nat /\ DOMAIN list = 1 .. n /\ \A i \in 1 .. n : list[i] \in Segs
  OBVIOUS
<1>2. /\ s \in Segs /\ s.start \in Nat /\ s.size \in Nat /\ EndOf(s) = s.start + s.size
      /\ \A u : u \in Buffer!UnitsOf(s) <=> u \in Int /\ s.start <= u /\ u < EndOf(s)
  BY <1>1, SegUnits DEF EndOf
<1>3. \A i, j \in 1 .. n : i < j => EndOf(list[i]) < list[j].start
  BY DEF Gapped
<1>4. taken \subseteq Buffer!UnitsOf(s)
  BY <1>2
<1>5. taken \subseteq Covered(list)
  BY <1>1, <1>4, CoveredUnit
<1>6. ASSUME NEW i \in 1 .. n, i # k, NEW u \in Buffer!UnitsOf(list[i])
      PROVE  u \notin taken
  BY <1>4, <1>6, GappedApart
<1>7. CASE s.size > size
  <2> DEFINE rest == Buffer!Seg(s.start + size, s.size - size)
  <2>1. new = [list EXCEPT ![k] = rest]
    BY <1>7 DEF Buffer!Take
  <2>2. /\ rest \in Segs /\ rest.start = s.start + size
        /\ EndOf(rest) = (s.start + size) + (s.size - size)
    <3>1. s.start + size \in Nat /\ s.size - size \in Nat \ {0}
      BY <1>2, <1>7
    <3> QED
      BY <3>1, MakeSeg
  <2>3. EndOf(rest) = EndOf(s) /\ rest.start > s.start
    BY <1>2, <2>2
  <2> HIDE DEF rest
  <2>4. /\ new \in Seq(Segs) /\ Len(new) = n /\ DOMAIN new = 1 .. n /\ new[k] = rest
        /\ \A i \in 1 .. n : i # k => new[i] = list[i]
    BY <1>1, <2>1, <2>2
  <2>5. Gapped(new)
    <3> SUFFICES ASSUME NEW i \in 1 .. n, NEW j \in 1 .. n, i < j
                 PROVE  EndOf(new[i]) < new[j].start
      BY <2>4 DEF Gapped
    <3>1. EndOf(list[i]) < list[j].start
      BY <1>3
    <3>2. EndOf(new[i]) = EndOf(list[i])
      BY <2>3, <2>4
    <3>3. new[j].start >= list[j].start
      <4>1. CASE j = k
        BY <1>2, <2>2, <2>3, <2>4, <4>1
      <4>2. CASE j # k
        <5>1. new[j] = list[j] /\ list[j].start \in Nat
          BY <1>1, <2>4, <4>2, SegUnits
        <5> QED
          BY <5>1
      <4> QED
        BY <4>1, <4>2
    <3>4. /\ EndOf(list[i]) \in Nat /\ list[j].start \in Nat /\ new[j].start \in Nat
      BY <1>1, <2>4, SegUnits
    <3> QED
      BY <3>1, <3>2, <3>3, <3>4
  <2>6. ASSUME NEW u
        PROVE  u \in Buffer!UnitsOf(rest) <=> u \in Buffer!UnitsOf(s) /\ u \notin taken
    <3>1. u \in Buffer!UnitsOf(rest) <=> u \in Int /\ s.start + size <= u /\ u < EndOf(s)
      BY <2>2, <2>3, SegUnits
    <3> QED
      BY <1>2, <3>1
  <2>7. Covered(new) = Covered(list) \ taken
    <3> SUFFICES ASSUME NEW u
                 PROVE  u \in Covered(new) <=> u \in Covered(list) /\ u \notin taken
      OBVIOUS
    <3>1. u \in Covered(new) <=> \E i \in 1 .. n : u \in Buffer!UnitsOf(new[i])
      BY <2>4, CoveredUnit
    <3>2. u \in Covered(list) <=> \E i \in 1 .. n : u \in Buffer!UnitsOf(list[i])
      BY <1>1, CoveredUnit
    <3> HIDE DEF taken, new, s
    <3>3. \A i \in 1 .. n : u \in Buffer!UnitsOf(new[i]) <=>
                              u \in Buffer!UnitsOf(list[i]) /\ u \notin taken
      BY <1>6, <2>4, <2>6 DEF s
    <3> QED
      BY <3>1, <3>2, <3>3
  <2> QED
    BY <1>5, <2>4, <2>5, <2>7
<1>8. CASE ~(s.size > size)
  <2>1. new = Buffer!RemoveAt(list, k)
    BY <1>8 DEF Buffer!Take
  <2>2. s.size = size
    BY <1>2, <1>8
  <2>3. /\ new \in Seq(Segs) /\ Len(new) = n - 1 /\ DOMAIN new = 1 .. n - 1
        /\ \A i \in 1 .. n - 1 : new[i] = IF i < k THEN list[i] ELSE list[i + 1]
    BY <2>1, Removed
  <2>4. Gapped(new)
    <3> SUFFICES ASSUME NEW i \in 1 .. n - 1, NEW j \in 1 .. n - 1, i < j
                 PROVE  EndOf(new[i]) < new[j].start
      BY <2>3 DEF Gapped
    <3>1. PICK p \in 1 .. n : p = (IF i < k THEN i ELSE i + 1) /\ new[i] = list[p]
      <4>1. (IF i < k THEN i ELSE i + 1) \in 1 .. n
        BY <1>1
      <4> QED
        BY <2>3, <4>1
    <3>2. PICK q \in 1 .. n : q = (IF j < k THEN j ELSE j + 1) /\ new[j] = list[q]
      <4>1. (IF j < k THEN j ELSE j + 1) \in 1 .. n
        BY <1>1
      <4> QED
        BY <2>3, <4>1
    <3>3. p < q
      BY <3>1, <3>2
    <3> QED
      BY <1>3, <3>1, <3>2, <3>3
  <2>5. \A u : u \in taken <=> u \in Buffer!UnitsOf(s)
    BY <1>2, <2>2
  <2>6. ASSUME NEW i \in 1 .. n - 1
        PROVE  \E p \in 1 .. n : p # k /\ new[i] = list[p]
    <3> DEFINE p == IF i < k THEN i ELSE i + 1
    <3>1. p \in 1 .. n /\ p # k
      BY <1>1
    <3>2. new[i] = list[p]
      BY <2>3
    <3> QED
      BY <3>1, <3>2
  <2>7. ASSUME NEW p \in 1 .. n, p # k
        PROVE  \E i \in 1 .. n - 1 : new[i] = list[p]
    <3> DEFINE i == IF p < k THEN p ELSE p - 1
    <3>1. i \in 1 .. n - 1 /\ (i < k <=> p < k) /\ (~(p < k) => i + 1 = p)
      BY <1>1, <2>7
    <3>2. new[i] = list[p]
      BY <2>3, <3>1
    <3> QED
      BY <3>1, <3>2
  <2>8. Covered(new) = Covered(list) \ taken
    <3> SUFFICES ASSUME NEW u
                 PROVE  u \in Covered(new) <=> u \in Covered(list) /\ u \notin taken
      OBVIOUS
    <3>1. u \in Covered(new) <=> \E i \in 1 .. n - 1 : u \in Buffer!UnitsOf(new[i])
      BY <2>3, CoveredUnit
    <3>2. u \in Covered(list) <=> \E i \in 1 .. n : u \in Buffer!UnitsOf(list[i])
      BY <1>1, CoveredUnit
    <3> HIDE DEF taken, new, s
    <3>3. ASSUME u \in Covered(new)
          PROVE  u \in Covered(list) /\ u \notin taken
      <4>1. PICK p \in 1 .. n : p # k /\ u \in Buffer!UnitsOf(list[p])
        BY <2>6, <3>1, <3>3
      <4> QED
        BY <1>6, <3>2, <4>1
    <3>4. ASSUME u \in Covered(list), u \notin taken
          PROVE  u \in Covered(new)
      <4>1. PICK p \in 1 .. n : u \in Buffer!UnitsOf(list[p])
        BY <3>2, <3>4
      <4>2. p # k
        BY <2>5, <3>4, <4>1 DEF s
      <4> QED
        BY <2>7, <3>1, <4>1, <4>2
    <3> QED
      BY <3>3, <3>4
  <2> QED
    BY <1>5, <2>3, <2>4, <2>8
<1> QED
  BY <1>7, <1>8

\* Units in a row that are all free lie in one segment.
LEMMA OneHole ==
  ASSUME NEW list \in Seq(Segs), Gapped(list), NEW start \in Nat, NEW size \in Nat \ {0},
         start .. start + size - 1 \subseteq Covered(list)
  PROVE  Buffer!FitsIn(list, size) # {}
<1> DEFINE n == Len(list)
<1>1. n \in Nat /\ DOMAIN list = 1 .. n /\ \A i \in 1 .. n : list[i] \in Segs
  OBVIOUS
<1>2. start \in start .. start + size - 1
  OBVIOUS
<1>3. PICK k \in 1 .. n : start \in Buffer!UnitsOf(list[k])
  BY <1>1, <1>2, CoveredUnit
<1>4. /\ list[k].start \in Nat /\ list[k].size \in Nat /\ list[k].start <= start
      /\ start < EndOf(list[k]) /\ EndOf(list[k]) = list[k].start + list[k].size
  BY <1>1, <1>3, SegUnits DEF EndOf
<1>5. list[k].size >= size
  <2> SUFFICES ASSUME list[k].size < size PROVE FALSE
    BY <1>4
  <2> DEFINE e == EndOf(list[k])
  <2>1. e \in start .. start + size - 1 /\ e \in Nat
    BY <1>4
  <2>2. PICK j \in 1 .. n : e \in Buffer!UnitsOf(list[j])
    BY <1>1, <2>1, CoveredUnit
  <2>3. list[j].start \in Nat /\ EndOf(list[j]) \in Nat /\ list[j].start <= e /\ e < EndOf(list[j])
    BY <1>1, <2>2, SegUnits
  <2>4. j # k
    BY <1>4, <2>3
  <2>5. k < j => e < list[j].start
    BY DEF Gapped
  <2>6. j < k => EndOf(list[j]) < list[k].start
    BY DEF Gapped
  <2>7. ~(k < j)
    BY <2>1, <2>3, <2>5
  <2>8. ~(j < k)
    BY <1>4, <2>1, <2>3, <2>6
  <2> QED
    BY <2>4, <2>7, <2>8
<1> QED
  BY <1>1, <1>3, <1>5 DEF Buffer!FitsIn

-----------------------------------------------------------------------------
(* The allocator.                                                          *)

Places == [start : Nat, size : Nat \ {0}, evictable : BOOLEAN]

\* Beside the partition of the buffer: live regions are finitely many and not
\* empty, and the free list is sorted and merged.
BufferInv ==
  /\ IsFiniteSet(DOMAIN allocations)
  /\ allocations \in [DOMAIN allocations -> Places]
  /\ freeList \in Seq(Segs) /\ Gapped(freeList)
  /\ Partition

\* What the partition says, of one unit.
LEMMA PartitionUnits ==
  Partition <=>
    /\ \A n \in DOMAIN allocations : Region(n) \subseteq 0 .. Capacity - 1
    /\ \A m, n \in DOMAIN allocations : m # n => Region(m) \intersect Region(n) = {}
    /\ \A n \in DOMAIN allocations : Region(n) \intersect Covered(freeList) = {}
    /\ LiveUnits \union Covered(freeList) \union leaked = 0 .. Capacity - 1
BY DEF Partition, Buffer!Partition, Buffer!Disjoint, Buffer!Live, Buffer!FreeUnits, Region,
       LiveUnits, Covered

\* A live region as a segment.
LEMMA RegionSeg ==
  ASSUME NEW a \in Places
  PROVE  LET s == Buffer!Seg(a.start, a.size) IN
         s \in Segs /\ Buffer!UnitsOf(s) = Buffer!UnitsOf(a)
<1>1. a.start \in Nat /\ a.size \in Nat \ {0}
  BY DEF Places
<1> QED
  BY <1>1, MakeSeg DEF Buffer!UnitsOf

\* The units of a live region.
LEMMA RegionUnits ==
  ASSUME BufferInv, NEW n \in DOMAIN allocations
  PROVE  /\ allocations[n] \in Places /\ allocations[n].start \in Nat
         /\ allocations[n].size \in Nat /\ 0 < allocations[n].size
         /\ Region(n) = allocations[n].start .. allocations[n].start + allocations[n].size - 1
         /\ allocations[n].start \in Region(n)
<1>1. allocations[n] \in Places
  BY DEF BufferInv
<1>2. allocations[n].start \in Nat /\ allocations[n].size \in Nat /\ 0 < allocations[n].size
  BY <1>1 DEF Places
<1> QED
  BY <1>1, <1>2 DEF Region, Buffer!UnitsOf

\* The free list and the regions that are given back, as segments.
Returned(gone) ==
  Buffer!Range(freeList)
    \union {Buffer!Seg(allocations[n].start, allocations[n].size) : n \in gone}

\* They are finitely many segments, and apart.
LEMMA ReturnedApart ==
  ASSUME BufferInv, NEW gone \in SUBSET DOMAIN allocations
  PROVE  /\ Returned(gone) \subseteq Segs /\ IsFiniteSet(Returned(gone)) /\ Apart(Returned(gone))
         /\ UNION {Buffer!UnitsOf(s) : s \in Returned(gone)}
              = Covered(freeList) \union UNION {Region(n) : n \in gone}
<1> DEFINE S(n) == Buffer!Seg(allocations[n].start, allocations[n].size)
           R == {S(n) : n \in gone}
           N == Len(freeList)
<1>1. /\ freeList \in Seq(Segs) /\ Gapped(freeList) /\ N \in Nat /\ DOMAIN freeList = 1 .. N
      /\ \A k \in 1 .. N : freeList[k] \in Segs
  BY DEF BufferInv
<1>2. \A n \in DOMAIN allocations : S(n) \in Segs /\ Buffer!UnitsOf(S(n)) = Region(n)
  BY RegionUnits, RegionSeg DEF Region
<1> HIDE DEF S
<1>3. Buffer!Range(freeList) = {freeList[k] : k \in 1 .. N}
  BY <1>1 DEF Buffer!Range
<1>4. Returned(gone) = {freeList[k] : k \in 1 .. N} \union R
  BY <1>3 DEF Returned, S
<1>5. Returned(gone) \subseteq Segs
  BY <1>1, <1>2, <1>4
<1>6. IsFiniteSet({freeList[k] : k \in 1 .. N})
  <2> DEFINE f == [k \in 1 .. N |-> freeList[k]]
             T == {freeList[k] : k \in 1 .. N}
  <2>1. f \in Surjection(1 .. N, T)
    BY DEF Surjection
  <2>2. IsFiniteSet(1 .. N)
    BY <1>1, FS_Interval
  <2> HIDE DEF f, T
  <2>3. IsFiniteSet(T)
    BY <2>1, <2>2, FS_Surjection
  <2> QED
    BY <2>3 DEF T
<1>7. IsFiniteSet(R)
  <2> DEFINE f == [n \in gone |-> S(n)]
  <2>1. f \in Surjection(gone, R)
    BY DEF Surjection
  <2>2. IsFiniteSet(gone)
    BY FS_Subset DEF BufferInv
  <2> HIDE DEF f, R
  <2> QED
    BY <2>1, <2>2, FS_Surjection
<1>8. IsFiniteSet(Returned(gone))
  BY <1>4, <1>6, <1>7, FS_Union
<1>9. Apart(Returned(gone))
  <2> SUFFICES ASSUME NEW s \in Returned(gone), NEW t \in Returned(gone),
                      NEW u, u \in Buffer!UnitsOf(s), u \in Buffer!UnitsOf(t)
               PROVE  s = t
    BY DEF Apart
  <2>1. /\ \A m, n \in DOMAIN allocations : m # n => Region(m) \intersect Region(n) = {}
        /\ \A n \in DOMAIN allocations : Region(n) \intersect Covered(freeList) = {}
    BY PartitionUnits DEF BufferInv
  <2>2. \A k \in 1 .. N : Buffer!UnitsOf(freeList[k]) \subseteq Covered(freeList)
    BY <1>1, CoveredUnit
  <2>3. CASE s \in R /\ t \in R
    <3>1. PICK m, n \in DOMAIN allocations : s = S(m) /\ t = S(n)
      BY <2>3
    <3>2. u \in Region(m) /\ u \in Region(n)
      BY <1>2, <3>1
    <3> QED
      BY <2>1, <3>1, <3>2
  <2>4. CASE s \notin R /\ t \notin R
    <3>1. PICK i, j \in 1 .. N : s = freeList[i] /\ t = freeList[j]
      BY <1>4, <2>4
    <3>2. i = j
      BY <1>1, <3>1, GappedApart
    <3> QED
      BY <3>1, <3>2
  <2>5. CASE s \in R /\ t \notin R
    <3>1. PICK m \in DOMAIN allocations, j \in 1 .. N : s = S(m) /\ t = freeList[j]
      BY <1>4, <2>5
    <3>2. u \in Region(m) /\ u \in Covered(freeList)
      BY <1>2, <2>2, <3>1
    <3> QED
      BY <2>1, <3>2
  <2>6. CASE s \notin R /\ t \in R
    <3>1. PICK m \in DOMAIN allocations, j \in 1 .. N : t = S(m) /\ s = freeList[j]
      BY <1>4, <2>6
    <3>2. u \in Region(m) /\ u \in Covered(freeList)
      BY <1>2, <2>2, <3>1
    <3> QED
      BY <2>1, <3>2
  <2> QED
    BY <2>3, <2>4, <2>5, <2>6
<1>10. UNION {Buffer!UnitsOf(s) : s \in Returned(gone)}
         = Covered(freeList) \union UNION {Region(n) : n \in gone}
  <2>1. UNION {Buffer!UnitsOf(s) : s \in R} = UNION {Region(n) : n \in gone}
    BY <1>2
  <2>2. UNION {Buffer!UnitsOf(s) : s \in {freeList[k] : k \in 1 .. N}} = Covered(freeList)
    BY <1>1 DEF Covered
  <2> HIDE DEF R
  <2> QED
    BY <1>4, <2>1, <2>2
<1> QED
  BY <1>5, <1>8, <1>9, <1>10

\* Giving regions back keeps the rest as it is and frees exactly their units.
LEMMA GiveBack ==
  ASSUME BufferInv, NEW gone \in SUBSET DOMAIN allocations,
         allocations' = [n \in (DOMAIN allocations) \ gone |-> allocations[n]],
         freeList' = Buffer!Merged(Returned(gone)),
         leaked' = leaked
  PROVE  /\ BufferInv'
         /\ DOMAIN allocations' = (DOMAIN allocations) \ gone
         /\ \A n \in DOMAIN allocations' : allocations'[n] = allocations[n]
<1>1. /\ DOMAIN allocations' = (DOMAIN allocations) \ gone
      /\ \A n \in DOMAIN allocations' : allocations'[n] = allocations[n]
  OBVIOUS
<1>2. IsFiniteSet(DOMAIN allocations')
  BY <1>1, FS_Subset DEF BufferInv
<1>3. allocations' \in [DOMAIN allocations' -> Places]
  BY <1>1 DEF BufferInv
<1>4. /\ freeList' \in Seq(Segs) /\ Gapped(freeList')
      /\ Covered(freeList') = Covered(freeList) \union UNION {Region(n) : n \in gone}
  BY ReturnedApart, MergedList
<1>5. \A n \in DOMAIN allocations' : Region(n)' = Region(n)
  BY <1>1 DEF Region, Buffer!UnitsOf
<1>6. /\ \A n \in DOMAIN allocations : Region(n) \subseteq 0 .. Capacity - 1
      /\ \A m, n \in DOMAIN allocations : m # n => Region(m) \intersect Region(n) = {}
      /\ \A n \in DOMAIN allocations : Region(n) \intersect Covered(freeList) = {}
      /\ LiveUnits \union Covered(freeList) \union leaked = 0 .. Capacity - 1
  BY PartitionUnits DEF BufferInv
<1>7. LiveUnits = LiveUnits' \union UNION {Region(n) : n \in gone}
  <2>1. LiveUnits' = UNION {Region(n) : n \in (DOMAIN allocations) \ gone}
    <3>1. LiveUnits' = UNION {Region(n)' : n \in DOMAIN allocations'}
      BY DEF LiveUnits
    <3> QED
      BY <1>1, <1>5, <3>1
  <2> QED
    BY <2>1 DEF LiveUnits
<1>8. /\ \A n \in DOMAIN allocations' : Region(n)' \subseteq 0 .. Capacity - 1
      /\ \A m, n \in DOMAIN allocations' : m # n => Region(m)' \intersect Region(n)' = {}
      /\ \A n \in DOMAIN allocations' : Region(n)' \intersect Covered(freeList') = {}
      /\ LiveUnits' \union Covered(freeList') \union leaked' = 0 .. Capacity - 1
  BY <1>1, <1>4, <1>5, <1>6, <1>7
<1>9. Partition'
  BY <1>8 DEF Partition, Buffer!Partition, Buffer!Disjoint, Buffer!Live, Buffer!FreeUnits, Region,
       LiveUnits, Covered
<1> QED
  BY <1>1, <1>2, <1>3, <1>4, <1>9 DEF BufferInv

\* A request that fits takes free units and no others; the region that a live
\* name held before is lost.
LEMMA AllocStep ==
  ASSUME BufferInv, NEW name, NEW size \in Sizes, NEW evictable \in BOOLEAN,
         Buffer!Alloc(name, size, evictable)
  PROVE  /\ BufferInv'
         /\ DOMAIN allocations' = (DOMAIN allocations) \union {name}
         /\ \A n \in DOMAIN allocations : n # name => allocations'[n] = allocations[n]
         /\ allocations'[name].size = size
<1> DEFINE k == Buffer!FirstFit(freeList, size)
           a == [start |-> freeList[k].start, size |-> size, evictable |-> evictable]
           taken == freeList[k].start .. freeList[k].start + size - 1
           live == DOMAIN allocations
<1>1. size \in Nat /\ size \in Nat \ {0}
  BY AllocatorAssumption
<1>2. /\ Buffer!FitsIn(freeList, size) # {}
      /\ allocations' = [n \in live \union {name} |-> IF n = name THEN a ELSE allocations[n]]
      /\ freeList' = Buffer!Take(freeList, k, size)
      /\ leaked' = leaked \union (IF name \in live THEN Region(name) ELSE {})
  BY DEF Buffer!Alloc, Buffer!Fits, Buffer!Live, Region
<1>3. freeList \in Seq(Segs) /\ Gapped(freeList)
  BY DEF BufferInv
<1>4. k \in 1 .. Len(freeList) /\ freeList[k].size >= size
  BY <1>1, <1>2, <1>3, FirstFits
<1>5. freeList[k].start \in Nat
  BY <1>3, <1>4, SegUnits
<1>6. a \in Places /\ a.start = freeList[k].start /\ a.size = size
  BY <1>1, <1>5 DEF Places
<1>7. Buffer!UnitsOf(a) = taken
  BY <1>6 DEF Buffer!UnitsOf
<1>8. /\ freeList' \in Seq(Segs) /\ Gapped(freeList')
      /\ taken \subseteq Covered(freeList)
      /\ Covered(freeList') = Covered(freeList) \ taken
  BY <1>1, <1>2, <1>3, <1>4, TakeList
<1> HIDE DEF k, a, taken
<1>9. /\ DOMAIN allocations' = live \union {name}
      /\ \A n \in live : n # name => allocations'[n] = allocations[n]
      /\ allocations'[name] = a
  BY <1>2
<1>10. IsFiniteSet(DOMAIN allocations')
  BY <1>9, FS_AddElement DEF BufferInv
<1>11. allocations' \in [DOMAIN allocations' -> Places]
  <2>1. \A n \in live \union {name} : (IF n = name THEN a ELSE allocations[n]) \in Places
    BY <1>6 DEF BufferInv
  <2> QED
    BY <1>2, <1>9, <2>1
<1>12. /\ \A n \in live : n # name => Region(n)' = Region(n)
       /\ Region(name)' = taken
  BY <1>7, <1>9 DEF Region, Buffer!UnitsOf
<1>13. /\ \A n \in live : Region(n) \subseteq 0 .. Capacity - 1
       /\ \A m, n \in live : m # n => Region(m) \intersect Region(n) = {}
       /\ \A n \in live : Region(n) \intersect Covered(freeList) = {}
       /\ LiveUnits \union Covered(freeList) \union leaked = 0 .. Capacity - 1
  BY PartitionUnits DEF BufferInv
<1>14. taken \subseteq 0 .. Capacity - 1
  BY <1>8, <1>13
<1>15. \A n \in DOMAIN allocations' : Region(n)' \subseteq 0 .. Capacity - 1
  <2> SUFFICES ASSUME NEW n \in DOMAIN allocations'
               PROVE  Region(n)' \subseteq 0 .. Capacity - 1
    OBVIOUS
  <2>1. CASE n = name
    BY <1>12, <1>14, <2>1
  <2>2. CASE n # name
    BY <1>9, <1>12, <1>13, <2>2
  <2> QED
    BY <2>1, <2>2
<1>16. \A n \in live : Region(n) \intersect taken = {}
  BY <1>8, <1>13
<1>17. ASSUME NEW m \in DOMAIN allocations', NEW n \in DOMAIN allocations', m # n
       PROVE  Region(m)' \intersect Region(n)' = {}
  <2>1. CASE m # name /\ n # name
    BY <1>9, <1>12, <1>13, <1>17, <2>1
  <2>2. CASE m = name
    <3>1. n \in live /\ Region(n)' = Region(n) /\ Region(m)' = taken
      BY <1>9, <1>12, <1>17, <2>2
    <3> QED
      BY <1>16, <3>1
  <2>3. CASE n = name
    <3>1. m \in live /\ Region(m)' = Region(m) /\ Region(n)' = taken
      BY <1>9, <1>12, <1>17, <2>3
    <3> QED
      BY <1>16, <3>1
  <2> QED
    BY <2>1, <2>2, <2>3
<1>18. ASSUME NEW n \in DOMAIN allocations'
       PROVE  Region(n)' \intersect Covered(freeList') = {}
  <2>1. CASE n = name
    <3>1. Region(n)' = taken
      BY <1>12, <2>1
    <3> QED
      BY <1>8, <3>1
  <2>2. CASE n # name
    <3>1. n \in live /\ Region(n)' = Region(n)
      BY <1>9, <1>12, <2>2
    <3> QED
      BY <1>8, <1>13, <3>1
  <2> QED
    BY <2>1, <2>2
<1>19. LiveUnits' \union Covered(freeList') \union leaked' = 0 .. Capacity - 1
  <2>1. LiveUnits' = taken \union UNION {Region(n) : n \in live \ {name}}
    <3>1. LiveUnits' = UNION {Region(n)' : n \in DOMAIN allocations'}
      BY DEF LiveUnits
    <3>2. ASSUME NEW u
          PROVE  u \in LiveUnits' <=> u \in taken \/ \E n \in live \ {name} : u \in Region(n)
      <4>1. u \in LiveUnits' <=> \E n \in live \union {name} : u \in Region(n)'
        BY <1>9, <3>1
      <4> QED
        BY <1>12, <4>1
    <3> QED
      BY <3>2
  <2>2. LiveUnits = (IF name \in live THEN Region(name) ELSE {})
                      \union UNION {Region(n) : n \in live \ {name}}
    BY DEF LiveUnits
  <2>3. leaked' = leaked \union (IF name \in live THEN Region(name) ELSE {})
    BY <1>2
  <2> DEFINE lost == IF name \in live THEN Region(name) ELSE {}
             rest == UNION {Region(n) : n \in live \ {name}}
  <2> HIDE DEF lost, rest
  <2>4. /\ LiveUnits' = taken \union rest
        /\ LiveUnits = lost \union rest
        /\ leaked' = leaked \union lost
    BY <2>1, <2>2, <2>3 DEF lost, rest
  <2> QED
    BY <1>8, <1>13, <2>4
<1>20. Partition'
  BY <1>15, <1>17, <1>18, <1>19
     DEF Partition, Buffer!Partition, Buffer!Disjoint, Buffer!Live, Buffer!FreeUnits, Region,
         LiveUnits, Covered
<1> QED
  BY <1>6, <1>8, <1>9, <1>10, <1>11, <1>20 DEF BufferInv

\* A name is given back with its region.
LEMMA FreeStep ==
  ASSUME BufferInv, NEW name, Buffer!Free(name)
  PROVE  /\ BufferInv'
         /\ DOMAIN allocations' \subseteq DOMAIN allocations
         /\ \A n \in DOMAIN allocations' : allocations'[n] = allocations[n]
<1>1. /\ name \in DOMAIN allocations
      /\ allocations' = [n \in (DOMAIN allocations) \ {name} |-> allocations[n]]
      /\ freeList' = Buffer!Merged(Buffer!Range(freeList)
           \union {Buffer!Seg(allocations[name].start, allocations[name].size)})
      /\ leaked' = leaked
  BY DEF Buffer!Free, Buffer!Live, Buffer!Without
<1>2. Returned({name}) = Buffer!Range(freeList)
           \union {Buffer!Seg(allocations[name].start, allocations[name].size)}
  BY DEF Returned
<1> QED
  BY <1>1, <1>2, GiveBack

\* All evictable names are given back at once.
LEMMA EvictStep ==
  ASSUME BufferInv, Buffer!FreeAllEvictable
  PROVE  /\ BufferInv'
         /\ DOMAIN allocations' \subseteq DOMAIN allocations
         /\ \A n \in DOMAIN allocations' : allocations'[n] = allocations[n]
<1> DEFINE gone == Buffer!Evictable
<1>1. gone \in SUBSET DOMAIN allocations
  BY DEF Buffer!Evictable, Buffer!Live
<1>2. /\ allocations' = [n \in (DOMAIN allocations) \ gone |-> allocations[n]]
      /\ freeList' = Buffer!Merged(Returned(gone))
      /\ leaked' = leaked
  BY DEF Buffer!FreeAllEvictable, Buffer!Live, Returned
<1> HIDE DEF gone
<1> QED
  BY <1>1, <1>2, GiveBack

\* Nothing is live: at the start, and after a reset.
Empty == allocations = <<>> /\ freeList = <<Buffer!Seg(0, Capacity)>> /\ leaked = {}

\* The empty buffer is one free segment.
LEMMA EmptyBuffer == Empty => BufferInv /\ DOMAIN allocations = {}
<1> SUFFICES ASSUME Empty
             PROVE  BufferInv /\ DOMAIN allocations = {}
  OBVIOUS
<1>1. DOMAIN allocations = {}
  BY DEF Empty
<1>2. LiveUnits = {}
  BY <1>1 DEF LiveUnits
<1> DEFINE s == Buffer!Seg(0, Capacity)
<1>3. s \in Segs /\ Buffer!UnitsOf(s) = 0 .. Capacity - 1
  BY AllocatorAssumption, MakeSeg DEF Buffer!UnitsOf, Buffer!Seg
<1> HIDE DEF s
<1>4. freeList = <<s>>
  BY DEF s, Empty
<1>5. freeList \in Seq(Segs) /\ Len(freeList) = 1 /\ DOMAIN freeList = {1} /\ freeList[1] = s
  BY <1>3, <1>4
<1>6. Gapped(freeList)
  BY <1>5 DEF Gapped
<1>7. Covered(freeList) = 0 .. Capacity - 1
  BY <1>3, <1>5 DEF Covered
<1>8. Partition
  BY <1>1, <1>2, <1>7, PartitionUnits DEF Empty
<1>9. allocations \in [DOMAIN allocations -> Places]
  BY <1>1 DEF Empty
<1> QED
  BY <1>1, <1>2, <1>5, <1>6, <1>8, <1>9, FS_EmptySet DEF BufferInv

\* What no segment can hold does not fit between them either.
LEMMA RefusedInv ==
  ASSUME BufferInv
  PROVE  RefusedOnlyWhenFull
<1> SUFFICES ASSUME NEW size \in Sizes, Buffer!Fits(size) = {},
                    NEW start \in 0 .. Capacity - size,
                    start .. start + size - 1 \subseteq Buffer!FreeUnits
             PROVE  FALSE
  BY DEF RefusedOnlyWhenFull, Buffer!RefusedOnlyWhenFull
<1>1. size \in Nat \ {0} /\ start \in Nat
  BY AllocatorAssumption
<1>2. start .. start + size - 1 \subseteq Covered(freeList)
  BY DEF Buffer!FreeUnits, Covered
<1>3. Buffer!FitsIn(freeList, size) = {}
  BY DEF Buffer!Fits
<1> QED
  BY <1>1, <1>2, <1>3, OneHole DEF BufferInv

-----------------------------------------------------------------------------
(* The planner: no step depends on the allocator.                          *)

\* The planner's part of the invariant.
IInv == TypeOK /\ CacheExact /\ AccessHits

\* The units of an address are natural numbers.
LEMMA UnitsNat ==
  ASSUME NEW a \in Addresses
  PROVE  Units(a) \in Nat
  <1>1. a.hi \in Nat /\ a.lo \in Nat
    BY PlannerAssumption DEF Addresses
  <1>2. a.hi * Half \in Nat
    BY <1>1, PlannerAssumption
  <1> QED  BY <1>1, <1>2 DEF Units

\* A number below the modulus is its own remainder.
LEMMA SmallMod ==
  ASSUME NEW o \in 0 .. Window - 1
  PROVE  o % Window = o
  BY PlannerAssumption

\* The empty cache entry is no address.
LEMMA NoneIsNoAddress == None \notin Addresses
  BY PlannerAssumption DEF Addresses

\* An empty cache agrees with any registers.
LEMMA InitIInv == Init => IInv
  BY PlannerAssumption DEF Init, IInv, TypeOK, CacheExact, AccessHits

\* An access within the window of a register moves no register.
LEMMA WalkInv ==
  ASSUME IInv, NEW r \in Regs, NEW a \in Addresses, Walk(r, a)
  PROVE  IInv'
  <1> DEFINE o == Units(a) - Units(cached[r])
  <1>1. /\ cached' = cached /\ regs' = regs /\ cached[r] # None
        /\ o \in 0 .. Window - 1
        /\ want' = Units(a) /\ off' = o /\ got' = Units(regs[r]) + (o % Window)
    BY DEF Walk, InWindow, Access
  <1>2. regs[r] = cached[r] /\ cached[r] \in Addresses
    BY <1>1 DEF IInv, TypeOK, CacheExact
  <1>3. Units(a) \in Nat /\ Units(cached[r]) \in Nat
    BY <1>2, UnitsNat
  <1>4. o % Window = o
    BY <1>1, SmallMod
  <1>5. got' = want'
    <2> HIDE DEF o
    <2>1. got' = Units(cached[r]) + o
      BY <1>1, <1>2, <1>4
    <2> QED  BY <1>1, <1>3, <2>1 DEF o
  <1>6. TypeOK'
    BY <1>1, <1>3, <1>5 DEF IInv, TypeOK
  <1> QED  BY <1>1, <1>5, <1>6 DEF IInv, CacheExact, AccessHits

\* An access outside every window rewrites one register and its entry.
LEMMA RewriteInv ==
  ASSUME IInv, NEW r \in Regs, NEW a \in Addresses, Rewrite(r, a)
  PROVE  IInv'
  <1> DEFINE new == [hi |-> IF NeedsHi(r, a) THEN a.hi ELSE regs[r].hi,
                     lo |-> IF NeedsLo(r, a) THEN a.lo ELSE regs[r].lo]
  <1>1. /\ regs' = [regs EXCEPT ![r] = new]
        /\ cached' = [cached EXCEPT ![r] = a]
        /\ want' = Units(a) /\ off' = 0 /\ got' = Units(regs'[r]) + (0 % Window)
    BY DEF Rewrite, Access
  <1>2. /\ cached \in [Regs -> Addresses \union {None}]
        /\ regs \in [Regs -> Addresses]
        /\ cached[r] # None => regs[r] = cached[r]
    BY DEF IInv, TypeOK, CacheExact
  <1>3. new = a
    <2>1. new.hi = a.hi /\ new.lo = a.lo
      BY <1>2 DEF NeedsHi, NeedsLo
    <2>2. a = [hi |-> a.hi, lo |-> a.lo]
      BY DEF Addresses
    <2> QED  BY <2>1, <2>2
  <1>4. regs'[r] = a
    BY <1>1, <1>2, <1>3
  <1>5. got' = want' /\ want' \in Nat /\ off' \in 0 .. Window - 1
    <2>1. Units(a) \in Nat  BY UnitsNat
    <2>2. 0 % Window = 0  BY SmallMod, PlannerAssumption
    <2> QED  BY <1>1, <1>4, <2>1, <2>2, PlannerAssumption
  <1>6. TypeOK'
    <2> HIDE DEF new
    <2>1. regs' \in [Regs -> Addresses]
      BY <1>1, <1>2, <1>3
    <2>2. cached' \in [Regs -> Addresses \union {None}]
      BY <1>1, <1>2
    <2> QED  BY <1>5, <2>1, <2>2 DEF TypeOK
  <1>7. CacheExact'
    <2> HIDE DEF new
    <2> SUFFICES ASSUME NEW q \in Regs, cached'[q] # None
                 PROVE  regs'[q] = cached'[q]
      BY DEF CacheExact
    <2>1. CASE q = r
      BY <1>1, <1>2, <1>3, <2>1
    <2>2. CASE q # r
      BY <1>1, <1>2, <2>2 DEF IInv, CacheExact
    <2> QED  BY <2>1, <2>2
  <1> QED  BY <1>5, <1>6, <1>7 DEF IInv, AccessHits

\* A reset forgets the cache and leaves the registers.
LEMMA ResetInv ==
  ASSUME IInv, Reset
  PROVE  IInv'
  BY DEF IInv, TypeOK, CacheExact, AccessHits, Reset

\* The planner's invariant holds for all sizes of registers and fields.
THEOREM PlannerInvariance == Spec => []IInv
<1>1. ASSUME IInv, UNCHANGED vars  PROVE IInv'
  BY <1>1 DEF IInv, TypeOK, CacheExact, AccessHits, vars
<1>2. IInv /\ [Next]_vars => IInv'
  BY WalkInv, RewriteInv, ResetInv, <1>1 DEF Next
<1> QED
  BY InitIInv, <1>2, PTL DEF Spec

\* An access reaches the address that was asked for.
LEMMA AccessInv ==
  ASSUME IInv, NEW r \in Regs, NEW a \in Addresses, Walk(r, a) \/ Rewrite(r, a)
  PROVE  IInv' /\ got' = Units(a)
<1>1. IInv'
  BY WalkInv, RewriteInv
<1>2. want' = Units(a)
  BY DEF Walk, Rewrite, Access
<1> QED
  BY <1>1, <1>2 DEF IInv, AccessHits

-----------------------------------------------------------------------------
(* Planner, allocator and buffer together.                                 *)

\* The buffer and its history cover exactly what is live; the rest is what the
\* properties say.
LoadsInv ==
  /\ IInv
  /\ BufferInv
  /\ DOMAIN content = LiveUnits
  /\ DOMAIN source = DOMAIN allocations
  /\ TensorsIntact

\* After a LOAD its tensor is whole, and so are the others: their units are
\* not among those that it filled.
LEMMA LoadInv ==
  ASSUME LoadsInv, NEW name \in Names, NEW size \in Sizes, NEW evictable \in BOOLEAN,
         NEW r \in Regs, NEW a \in Addresses, LoadTensor(name, size, evictable, r, a)
  PROVE  LoadsInv'
<1> DEFINE start == allocations'[name].start
           filled == start .. start + size - 1
<1>1. IInv' /\ got' = Units(a)
  BY AccessInv DEF LoadTensor, LoadsInv
<1>2. /\ BufferInv'
      /\ DOMAIN allocations' = (DOMAIN allocations) \union {name}
      /\ \A n \in DOMAIN allocations : n # name => allocations'[n] = allocations[n]
      /\ allocations'[name].size = size
  BY AllocStep DEF LoadTensor, LoadsInv
<1>3. /\ content' = [u \in LiveUnits' |->
                       IF u \in filled THEN got' + (u - start) ELSE content[u]]
      /\ source' = [n \in DOMAIN allocations' |-> IF n = name THEN Units(a) ELSE source[n]]
  BY DEF LoadTensor, Placed
<1>4. Region(name)' = filled
  BY <1>2 DEF Region, Buffer!UnitsOf
<1> HIDE DEF filled
<1>5. \A n \in DOMAIN allocations' : Region(n)' \subseteq LiveUnits'
  BY DEF LiveUnits
<1>6. \A n \in DOMAIN allocations' : n # name => Region(n)' \intersect filled = {}
  <2>1. \A m, n \in DOMAIN allocations' : m # n => Region(m)' \intersect Region(n)' = {}
    BY <1>2 DEF BufferInv, Partition, Buffer!Partition, Buffer!Disjoint, Buffer!Live, Region
  <2> QED
    BY <1>2, <1>4, <2>1
<1>7. TensorsIntact'
  <2> SUFFICES ASSUME NEW n \in DOMAIN allocations', NEW u \in Region(n)'
               PROVE  content'[u] = source'[n] + (u - allocations'[n].start)
    BY DEF TensorsIntact
  <2>1. u \in LiveUnits'
    BY <1>5
  <2>2. CASE n = name
    BY <1>1, <1>3, <1>4, <2>1, <2>2
  <2>3. CASE n # name
    <3>1. n \in DOMAIN allocations /\ allocations'[n] = allocations[n] /\ u \in Region(n)
      BY <1>2, <2>3 DEF Region, Buffer!UnitsOf
    <3>2. u \notin filled
      BY <1>6, <2>3
    <3>3. content'[u] = content[u] /\ source'[n] = source[n]
      BY <1>3, <2>1, <2>3, <3>2
    <3>4. content[u] = source[n] + (u - allocations[n].start)
      BY <3>1 DEF LoadsInv, TensorsIntact
    <3> QED
      BY <3>1, <3>3, <3>4
  <2> QED
    BY <2>2, <2>3
<1>8. DOMAIN content' = LiveUnits' /\ DOMAIN source' = DOMAIN allocations'
  BY <1>3
<1> QED
  BY <1>1, <1>2, <1>7, <1>8 DEF LoadsInv

\* What stays live when regions are given back is whole as before.
LEMMA KeptInv ==
  ASSUME LoadsInv, Kept, UNCHANGED planner, BufferInv',
         DOMAIN allocations' \subseteq DOMAIN allocations,
         \A n \in DOMAIN allocations' : allocations'[n] = allocations[n]
  PROVE  LoadsInv'
<1>1. IInv'
  BY DEF LoadsInv, IInv, TypeOK, CacheExact, AccessHits, planner
<1>2. /\ content' = [u \in LiveUnits' |-> content[u]]
      /\ source' = [n \in DOMAIN allocations' |-> source[n]]
  BY DEF Kept
<1>3. TensorsIntact'
  <2> SUFFICES ASSUME NEW n \in DOMAIN allocations', NEW u \in Region(n)'
               PROVE  content'[u] = source'[n] + (u - allocations'[n].start)
    BY DEF TensorsIntact
  <2>1. u \in LiveUnits'
    BY DEF LiveUnits
  <2>2. n \in DOMAIN allocations /\ allocations'[n] = allocations[n] /\ u \in Region(n)
    BY DEF Region, Buffer!UnitsOf
  <2>3. content[u] = source[n] + (u - allocations[n].start)
    BY <2>2 DEF LoadsInv, TensorsIntact
  <2> QED
    BY <1>2, <2>1, <2>2, <2>3
<1> QED
  BY <1>1, <1>2, <1>3 DEF LoadsInv

\* A reset of the buffer leaves nothing that could be wrong.
LEMMA ResetBufferInv ==
  ASSUME LoadsInv, ResetBuffer
  PROVE  LoadsInv'
<1>1. (Empty => BufferInv /\ DOMAIN allocations = {})'
  BY EmptyBuffer, PTL
<1>2. Empty'
  BY DEF ResetBuffer, Buffer!Reset, Empty
<1>3. BufferInv' /\ DOMAIN allocations' = {}
  BY <1>1, <1>2
<1> QED
  BY <1>3, KeptInv DEF ResetBuffer

\* Steps that leave the allocator and the buffer alone.
LEMMA PlannerStep ==
  ASSUME LoadsInv, IInv', UNCHANGED <<allocator, content, source>>
  PROVE  LoadsInv'
<1>1. allocations' = allocations /\ freeList' = freeList /\ leaked' = leaked
  BY DEF allocator
<1>2. content' = content /\ source' = source
  OBVIOUS
<1>3. BufferInv'
  <2>1. Partition'
    BY <1>1 DEF LoadsInv, BufferInv, Partition, Buffer!Partition, Buffer!Disjoint, Buffer!Live,
                Buffer!FreeUnits, Buffer!UnitsOf
  <2> QED
    BY <1>1, <2>1 DEF LoadsInv, BufferInv, Gapped, EndOf
<1>4. LiveUnits' = LiveUnits
  BY <1>1 DEF LiveUnits, Region, Buffer!UnitsOf
<1>5. TensorsIntact'
  BY <1>1, <1>2 DEF LoadsInv, TensorsIntact, Region, Buffer!UnitsOf
<1> QED
  BY <1>1, <1>2, <1>3, <1>4, <1>5 DEF LoadsInv

\* Nothing is live before the first request.
LEMMA LoadsInitInv == LoadsInit => LoadsInv
<1> SUFFICES ASSUME LoadsInit
             PROVE  LoadsInv
  OBVIOUS
<1>1. Empty /\ content = <<>> /\ source = <<>>
  BY DEF LoadsInit, Buffer!Init, Empty
<1>2. BufferInv /\ DOMAIN allocations = {}
  BY <1>1, EmptyBuffer
<1>3. LiveUnits = {} /\ TensorsIntact
  BY <1>2 DEF LiveUnits, TensorsIntact
<1>4. DOMAIN content = {} /\ DOMAIN source = {}
  BY <1>1
<1> QED
  BY <1>2, <1>3, <1>4, InitIInv DEF LoadsInit, LoadsInv

\* Every request, refusal, release and reset preserves the invariant.
LEMMA LoadsStep ==
  ASSUME LoadsInv, [LoadsNext]_allVars
  PROVE  LoadsInv'
<1>1. CASE UNCHANGED allVars
  <2>1. UNCHANGED planner /\ UNCHANGED <<allocator, content, source>>
    BY <1>1 DEF allVars
  <2>2. IInv'
    BY <2>1 DEF LoadsInv, IInv, TypeOK, CacheExact, AccessHits, planner
  <2> QED
    BY <2>1, <2>2, PlannerStep
<1>2. ASSUME NEW name \in Names, NEW size \in Sizes, NEW evictable \in BOOLEAN,
             NEW r \in Regs, NEW a \in Addresses, LoadTensor(name, size, evictable, r, a)
      PROVE  LoadsInv'
  BY <1>2, LoadInv
<1>3. ASSUME NEW size \in Sizes, Refused(size)
      PROVE  LoadsInv'
  <2>1. UNCHANGED planner /\ UNCHANGED <<allocator, content, source>>
    BY <1>3 DEF Refused, Buffer!AllocFails, Buffer!vars, allocator
  <2>2. IInv'
    BY <2>1 DEF LoadsInv, IInv, TypeOK, CacheExact, AccessHits, planner
  <2> QED
    BY <2>1, <2>2, PlannerStep
<1>4. ASSUME NEW name \in Names, FreeTensor(name)
      PROVE  LoadsInv'
  BY <1>4, FreeStep, KeptInv DEF FreeTensor, LoadsInv
<1>5. CASE FreeEvictable
  BY <1>5, EvictStep, KeptInv DEF FreeEvictable, LoadsInv
<1>6. CASE ResetBuffer
  BY <1>6, ResetBufferInv
<1>7. CASE ResetPlanner
  <2>1. IInv'
    BY <1>7, ResetInv DEF ResetPlanner, LoadsInv
  <2> QED
    BY <1>7, <2>1, PlannerStep DEF ResetPlanner
<1> QED
  BY <1>1, <1>2, <1>3, <1>4, <1>5, <1>6, <1>7 DEF LoadsNext

\* The inductive invariant of planner, allocator and buffer: for every set of
\* names, every capacity, all sizes of requests and all widths of addresses.
THEOREM LoadsInvariance == LoadsSpec => []LoadsInv
<1>1. LoadsInv /\ [LoadsNext]_allVars => LoadsInv'
  BY LoadsStep
<1> QED
  BY LoadsInitInv, <1>1, PTL DEF LoadsSpec

\* Every unit of the buffer is in one live tensor, or free, or lost with a name
\* that was allocated twice: no request is ever given a unit that is in use.
THEOREM BufferPartition == LoadsSpec => []Partition
<1>1. LoadsInv => Partition
  BY DEF LoadsInv, BufferInv
<1> QED
  BY LoadsInvariance, <1>1, PTL

\* A request is refused only if nowhere in the buffer are as many free units in
\* a row: the list is never fragmented.
THEOREM RefusalJustified == LoadsSpec => []RefusedOnlyWhenFull
<1>1. LoadsInv => RefusedOnlyWhenFull
  BY RefusedInv DEF LoadsInv
<1> QED
  BY LoadsInvariance, <1>1, PTL

\* Every live tensor still holds what was loaded into it.
THEOREM TensorsStayIntact == LoadsSpec => []TensorsIntact
<1>1. LoadsInv => TensorsIntact
  BY DEF LoadsInv
<1> QED
  BY LoadsInvariance, <1>1, PTL

\* The planner's cache is what addr_regs holds, from any initial contents,
\* between the requests to the allocator.
THEOREM PlannerCacheExact == LoadsSpec => []CacheExact
<1>1. LoadsInv => CacheExact
  BY DEF LoadsInv, IInv
<1> QED
  BY LoadsInvariance, <1>1, PTL

\* Base plus offset is the planned address, for every access of every program.
THEOREM EveryAccessHits == LoadsSpec => []AccessHits
<1>1. LoadsInv => AccessHits
  BY DEF LoadsInv, IInv
<1> QED
  BY LoadsInvariance, <1>1, PTL
=============================================================================
