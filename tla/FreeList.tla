------------------------------ MODULE FreeList ------------------------------
(***************************************************************************)
(* The free list of BufferAllocator (memory_alloc.py): segments of units,  *)
(* sorted and merged, cut from the low end by the first request that fits. *)
(***************************************************************************)
EXTENDS Integers, Sequences, FiniteSets, SequencesExt

Seg(start, size) == [start |-> start, size |-> size]
UnitsOf(s) == s.start .. s.start + s.size - 1

-----------------------------------------------------------------------------

\* Definitions named "Mutant..." are defects the properties must notice; no
\* specification uses them.

FitsIn(free, size) == {k \in DOMAIN free : free[k].size >= size}

FirstFit(free, size) ==
  CHOOSE k \in FitsIn(free, size) : \A j \in FitsIn(free, size) : k <= j

MutantTakeAll(free, k, size) == RemoveAt(free, k)     \* the rest is dropped

MutantTakeHigh(free, k, size) ==                       \* the wrong end is kept
  IF free[k].size > size
  THEN [free EXCEPT ![k] = Seg(@.start, @.size - size)]
  ELSE RemoveAt(free, k)

\* A segment is cut at its low end; one used up leaves the list.
Take(free, k, size) ==
  IF free[k].size > size
  THEN [free EXCEPT ![k] = Seg(@.start + size, @.size - size)]
  ELSE RemoveAt(free, k)

\* Segment k of the sorted list: the one with k - 1 in front of it.
InFront(segs, s) == {t \in segs : t.start < s.start}
Sorted(segs) ==
  [k \in 1 .. Cardinality(segs) |-> CHOOSE s \in segs : Cardinality(InFront(segs, s)) = k - 1]

MutantMerged(segs) == Sorted(segs)                     \* neighbours left apart

\* A segment joins the last one of the list when they touch.
Join(list, s) ==
  IF list # <<>> /\ Last(list).start + Last(list).size = s.start
  THEN [list EXCEPT ![Len(list)] = Seg(@.start, @.size + s.size)]
  ELSE Append(list, s)

\* Sort, then join from the front.
Merged(segs) ==
  LET sorted == Sorted(segs)
      joined[k \in 0 .. Len(sorted)] ==
        IF k = 0 THEN <<>> ELSE Join(joined[k - 1], sorted[k])
  IN  joined[Len(sorted)]

=============================================================================
