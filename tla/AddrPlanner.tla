---------------------------- MODULE AddrPlanner ----------------------------
(***************************************************************************)
(* The class AddrPlanner of dma_emitter.py beside the address registers of *)
(* register_file.sv that its instructions write.  The planner remembers,   *)
(* while it compiles, what each register will hold when the program runs,  *)
(* and leaves out the SET_ADDR instructions it believes to be redundant.   *)
(*                                                                         *)
(* A step plans one access and runs what it emits: instructions run in     *)
(* program order and only the planner writes these registers, so the gap   *)
(* between compiling and running does not matter.  Addresses are counted   *)
(* in units of 16 bytes, the alignment plan_access insists on, and come as *)
(* the two halves that SET_ADDR_HI and SET_ADDR_LO write.                  *)
(***************************************************************************)
EXTENDS Integers

CONSTANTS
  Regs,       \* address registers
  Half,       \* values of a half: 2^28, or 2^24 units for the lower one
  Window,     \* values of the dram_off field: 2^16
  None,       \* a register the planner has not written
  Walking     \* FALSE when TACCEL_DISABLE_DRAM_OFF is set

ASSUME PlannerAssumption ==
  /\ Half \in Nat \ {0} /\ Window \in Nat \ {0}
  /\ Walking \in BOOLEAN
  /\ None \notin [hi : 0 .. Half - 1, lo : 0 .. Half - 1]

VARIABLES
  cached,     \* _cached
  regs,       \* addr_regs
  want,       \* the address of the last access
  off,        \* its dram_off
  got         \* the address the DMA engine computed for it

vars == <<cached, regs, want, off, got>>

Addresses == [hi : 0 .. Half - 1, lo : 0 .. Half - 1]
Units(a)  == a.hi * Half + a.lo

-----------------------------------------------------------------------------

\* Definitions named "Mutant..." are defects the properties must notice; no
\* specification uses them.

MutantInWindow(r, a) ==  \* one unit too far
  /\ Walking
  /\ cached[r] # None
  /\ Units(a) - Units(cached[r]) \in 0 .. Window

InWindow(r, a) ==
  /\ Walking
  /\ cached[r] # None
  /\ Units(a) - Units(cached[r]) \in 0 .. Window - 1

NeedsLo(r, a) == cached[r] = None \/ cached[r].lo # a.lo

MutantNeedsHi(r, a) ==   \* trusts the reset value of the register
  cached[r] # None /\ cached[r].hi # a.hi

NeedsHi(r, a) == cached[r] = None \/ cached[r].hi # a.hi

\* dma_engine.sv adds dram_off, a field of 16 bits, to the register.
Access(r, a, o) ==
  /\ want' = Units(a)
  /\ off' = o
  /\ got' = Units(regs'[r]) + (o % Window)

Walk(r, a) ==
  /\ InWindow(r, a)
  /\ UNCHANGED <<cached, regs>>
  /\ Access(r, a, Units(a) - Units(cached[r]))

Rewrite(r, a) ==
  /\ ~InWindow(r, a)
  /\ regs' = [regs EXCEPT ![r] = [hi |-> IF NeedsHi(r, a) THEN a.hi ELSE @.hi,
                                  lo |-> IF NeedsLo(r, a) THEN a.lo ELSE @.lo]]
  /\ cached' = [cached EXCEPT ![r] = a]
  /\ Access(r, a, 0)

\* reset(): the planner forgets, the registers do not.
Reset ==
  /\ cached' = [r \in Regs |-> None]
  /\ UNCHANGED <<regs, want, off, got>>

\* The registers hold whatever an earlier program left in them.
Init ==
  /\ cached = [r \in Regs |-> None]
  /\ regs \in [Regs -> Addresses]
  /\ want = 0 /\ off = 0 /\ got = 0

Next ==
  \/ \E r \in Regs, a \in Addresses : Walk(r, a) \/ Rewrite(r, a)
  \/ Reset

Spec == Init /\ [][Next]_vars

-----------------------------------------------------------------------------

\* Type invariant; its strong part is that a planned offset always fits the
\* 16-bit dram_off field (dma_emitter.py:126).
TypeOK ==
  /\ cached \in [Regs -> Addresses \union {None}]
  /\ regs \in [Regs -> Addresses]
  /\ want \in Nat
  /\ off \in 0 .. Window - 1
  /\ got \in Int

\* The planner's cache is what the hardware holds, whatever the registers held
\* before the program and whichever writes were left out.
CacheExact == \A r \in Regs : cached[r] # None => regs[r] = cached[r]

\* Every access reaches the address it was planned for.
AccessHits == got = want

=============================================================================
