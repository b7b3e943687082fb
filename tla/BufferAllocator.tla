-------------------------- MODULE BufferAllocator --------------------------
(***************************************************************************)
(* The class BufferAllocator of memory_alloc.py: first-fit placement of    *)
(* named tensors in one SRAM buffer, with a sorted, merged free list.      *)
(* Instructions already emitted hold the offsets it returned, so a live    *)
(* region may neither move nor be handed out twice.                        *)
(***************************************************************************)
EXTENDS FreeList

CONSTANTS
  Names,      \* tensor names
  Capacity,   \* capacity_units
  Sizes       \* size_units of requests: a request has at least one byte

VARIABLES
  allocations,  \* name -> [start, size, evictable], on the live names
  freeList,     \* _free
  leaked        \* history: units whose allocation was overwritten in the dict

vars == <<allocations, freeList, leaked>>

Live == DOMAIN allocations
FreeUnits == UNION {UnitsOf(freeList[k]) : k \in DOMAIN freeList}

-----------------------------------------------------------------------------

Fits(size) == FitsIn(freeList, size)

Without(name) == [n \in Live \ {name} |-> allocations[n]]

\* A name that is still live may be allocated again: its entry is overwritten.
Alloc(name, size, evictable) ==
  /\ Fits(size) # {}
  /\ LET k == FirstFit(freeList, size)
         a == [start |-> freeList[k].start, size |-> size, evictable |-> evictable]
     IN  /\ allocations' = [n \in Live \union {name} |->
                              IF n = name THEN a ELSE allocations[n]]
         /\ freeList' = Take(freeList, k, size)
  /\ leaked' = leaked \union (IF name \in Live THEN UnitsOf(allocations[name]) ELSE {})

\* MemoryError: nothing changes.
AllocFails(size) ==
  /\ Fits(size) = {}
  /\ UNCHANGED vars

Free(name) ==
  /\ name \in Live
  /\ allocations' = Without(name)
  /\ freeList' = Merged(Range(freeList)
                   \union {Seg(allocations[name].start, allocations[name].size)})
  /\ UNCHANGED leaked

Evictable == {n \in Live : allocations[n].evictable}

FreeAllEvictable ==
  /\ allocations' = [n \in Live \ Evictable |-> allocations[n]]
  /\ freeList' = Merged(Range(freeList)
                   \union {Seg(allocations[n].start, allocations[n].size) : n \in Evictable})
  /\ UNCHANGED leaked

Reset ==
  /\ allocations' = <<>>
  /\ freeList' = <<Seg(0, Capacity)>>
  /\ leaked' = {}

Init ==
  /\ allocations = <<>>
  /\ freeList = <<Seg(0, Capacity)>>
  /\ leaked = {}

-----------------------------------------------------------------------------

\* No byte of the buffer is given to two live tensors, nor is it both live and
\* free to be given again, and no tensor reaches past the end of the buffer.
Disjoint ==
  /\ \A n \in Live : UnitsOf(allocations[n]) \subseteq 0 .. Capacity - 1
  /\ \A m, n \in Live :
       m # n => UnitsOf(allocations[m]) \intersect UnitsOf(allocations[n]) = {}
  /\ \A n \in Live : UnitsOf(allocations[n]) \intersect FreeUnits = {}

\* And every unit is live, free, or was lost when a live name was allocated
\* again: that is the only way the buffer can shrink.
Partition ==
  /\ Disjoint
  /\ (UNION {UnitsOf(allocations[n]) : n \in Live}) \union FreeUnits \union leaked
       = 0 .. Capacity - 1

\* The free list is sorted and merged, so a request is refused only when no
\* hole of its size exists: fragmentation is never an artefact of the list.
RefusedOnlyWhenFull ==
  \A s \in Sizes :
    Fits(s) = {} => ~\E start \in 0 .. Capacity - s :
                        start .. start + s - 1 \subseteq FreeUnits

=============================================================================
