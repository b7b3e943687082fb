---------------------------- MODULE TensorLoads ----------------------------
(***************************************************************************)
(* How the code generators bring a tensor into an SRAM buffer: a region    *)
(* from BufferAllocator, an address from AddrPlanner, one LOAD of both     *)
(* (alloc and _emit_dma_load, codegen_w8a16.py:506-511 and 593-597).  A    *)
(* step compiles one such access and runs what it emits; the two orders    *)
(* agree, so the gap in between does not matter.                           *)
(*                                                                         *)
(* The content of a unit of the buffer is the number of the DRAM unit it   *)
(* was loaded from.                                                        *)
(***************************************************************************)
EXTENDS AddrPlanner

CONSTANTS Names, Capacity, Sizes   \* as in BufferAllocator

ASSUME AllocatorAssumption ==
  /\ Capacity \in Nat \ {0} /\ Sizes \subseteq 1 .. Capacity + 1

VARIABLES
  allocations, freeList, leaked,   \* the allocator
  content,                         \* the buffer, where something live is
  source                           \* history: the address each live name was loaded from

Buffer == INSTANCE BufferAllocator

planner   == <<cached, regs, want, off, got>>
allocator == <<allocations, freeList, leaked>>
allVars   == <<planner, allocator, content, source>>

Region(name) == Buffer!UnitsOf(allocations[name])

\* The units and names that are live after a step: what a region held is of no
\* interest once it is given back.
LiveUnits == UNION {Region(n) : n \in DOMAIN allocations}

Kept ==
  /\ content' = [u \in LiveUnits' |-> content[u]]
  /\ source' = [n \in DOMAIN allocations' |-> source[n]]

Placed(name) == allocations'[name].start

\* _emit_dma_load to the region: the size rounds up to whole units and stays
\* below the 65535 units an instruction can move.
LoadTensor(name, size, evictable, r, a) ==
  /\ Buffer!Alloc(name, size, evictable)
  /\ Walk(r, a) \/ Rewrite(r, a)
  /\ LET filled == Placed(name) .. Placed(name) + size - 1
     IN  content' = [u \in LiveUnits' |->
                       IF u \in filled THEN got' + (u - Placed(name)) ELSE content[u]]
  /\ source' = [n \in DOMAIN allocations' |-> IF n = name THEN Units(a) ELSE source[n]]

\* MemoryError ends the compile; another request may follow in a test.
Refused(size) == Buffer!AllocFails(size) /\ UNCHANGED <<planner, content, source>>

FreeTensor(name)  == Buffer!Free(name) /\ Kept /\ UNCHANGED planner
FreeEvictable     == Buffer!FreeAllEvictable /\ Kept /\ UNCHANGED planner
ResetBuffer       == Buffer!Reset /\ Kept /\ UNCHANGED planner
ResetPlanner      == Reset /\ UNCHANGED <<allocator, content, source>>

LoadsInit ==
  /\ Init
  /\ Buffer!Init
  /\ content = <<>>
  /\ source = <<>>

LoadsNext ==
  \/ \E n \in Names, s \in Sizes, e \in BOOLEAN, r \in Regs, a \in Addresses :
       LoadTensor(n, s, e, r, a)
  \/ \E s \in Sizes : Refused(s)
  \/ \E n \in Names : FreeTensor(n)
  \/ FreeEvictable \/ ResetBuffer \/ ResetPlanner

LoadsSpec == LoadsInit /\ [][LoadsNext]_allVars

-----------------------------------------------------------------------------

\* Every live tensor is whole in its region, whatever was loaded and freed
\* around it since: neither the allocator nor the planner has let another
\* LOAD hit it (codegen_w8a16.py:597 beside :621).
TensorsIntact ==
  \A n \in DOMAIN allocations : \A u \in Region(n) :
    content[u] = source[n] + (u - allocations[n].start)

\* Every unit of the buffer belongs to one live tensor, or is free, or was lost
\* when a live name was allocated again (memory_alloc.py:53).
Partition == Buffer!Partition

\* A request is refused only when no hole of its size exists: fragmentation is
\* never an artefact of the free list (memory_alloc.py:77).
RefusedOnlyWhenFull == Buffer!RefusedOnlyWhenFull

=============================================================================
