------------------------------ MODULE Systolic ------------------------------
(***************************************************************************)
(* The systolic controller with its array of processing elements: one      *)
(* MATMUL walks all tiles of C = A x B.  A step is one clock edge.         *)
(*                                                                         *)
(* An operand is named by the SRAM and the lane it was read from, and a    *)
(* sum by the sequence of products added to it: FP32 addition does not     *)
(* associate, so the order is part of the result.                          *)
(*                                                                         *)
(* The code's array is 16 wide.  A 128-bit SRAM row holds half a tile row  *)
(* of FP16 operands or a quarter of a tile row of FP32 sums.               *)
(***************************************************************************)
EXTENDS Naturals, Sequences

CONSTANTS
  Dim,      \* SYS_DIM
  Jobs,     \* the MATMULs that may be dispatched
  DstRows,  \* the rows of the destination buffer
  MaxJobs,  \* bound: how many are dispatched
  MaxLost   \* bound: how many accesses the controller loses to the DMA engine

ASSUME DimAssumption     == Dim \in Nat \ {0} /\ Dim % 4 = 0
ASSUME BoundAssumption   == MaxJobs \in Nat /\ MaxLost \in Nat

Job == [m : Nat \ {0}, n : Nat \ {0}, k : Nat \ {0},   \* tiles, CONFIG_TILE + 1
        src1 : Nat, src2 : Nat, dst : Nat,
        accumulate : BOOLEAN, toAccum : BOOLEAN]       \* flags[0], dst is ACCUM
ASSUME JobAssumption == Jobs \subseteq Job

VARIABLES
  chained,  \* SYSTOLIC_ARCH_MODE: operands move from PE to PE, or are broadcast
  state,    \* the FSM of the controller
  job,      \* the registers loaded on dispatch
  at,       \* mtile_q, ntile_q, ktile_q
  lane,     \* lane_q
  load,     \* a_load_row_q, a_half_q
  drain,    \* drain_row_q, drain_grp_q
  base,     \* tile_drain_base_q
  rowAddr,  \* drain_row_addr_q
  clearRow, \* dst_clear_row_idx_q
  aTile,    \* a_tile_scratch
  bLo,      \* b_lo_reg
  rdataA,   \* the registered read data of SRAM port A
  rdataB,   \* the registered read data of SRAM port B
  acc,      \* the sums of the PEs
  aOut,     \* the A operand each PE hands to its east neighbour
  bOut,     \* the B operand each PE hands to its south neighbour
  aSkew,    \* the delay lines in front of the west edge
  bSkew,    \* the delay lines in front of the north edge
  dstMem,   \* the destination buffer
  lost,     \* history: accesses lost to the DMA engine
  jobs,     \* history: how many were dispatched
  before    \* history: the sums when the last one was dispatched

array == <<acc, aOut, bOut, aSkew, bSkew>>
input == <<chained, job, jobs, before>>     \* what a running MATMUL never changes
walk  == <<at, base>>
fill  == <<lane, load, aTile, bLo, rdataB>>
empty == <<drain, rowAddr>>
port  == <<rdataA, dstMem, lost>>
vars  == <<input, state, walk, fill, empty, clearRow, port, array>>

Half  == Dim \div 2
Group == Dim \div 4
Idx   == 0 .. Dim - 1
PEs   == Idx \X Idx

Zero  == <<"zero", 0>>      \* an FP16 +0
Stale == <<"other", 0>>     \* a word that was not asked for

\* What port A or B returns for a row: Half operands.
Word(src, row) == [l \in 0 .. Half - 1 |-> <<src, row * Half + l>>]
NoWord         == [l \in 0 .. Half - 1 |-> Stale]

-----------------------------------------------------------------------------
(* The array.                                                              *)

\* A product of two zeros leaves the sum as it is.
Mac(sum, a, b) == IF a = Zero /\ b = Zero THEN sum ELSE Append(sum, <<a, b>>)

\* Row or column i of the mesh is fed i steps late.
Edge(vec, skew, i) == IF i = 0 THEN vec[0] ELSE skew[i][i - 1]

Shift(vec, skew) ==
  [r \in Idx |-> [s \in 0 .. Dim - 2 |-> IF s = 0 THEN vec[r] ELSE skew[r][s - 1]]]

AIn(vec, p) == IF ~chained THEN vec[p[1]]
               ELSE IF p[2] = 0 THEN Edge(vec, aSkew, p[1])
               ELSE aOut[<<p[1], p[2] - 1>>]

BIn(vec, p) == IF ~chained THEN vec[p[2]]
               ELSE IF p[1] = 0 THEN Edge(vec, bSkew, p[2])
               ELSE bOut[<<p[1] - 1, p[2]>>]

\* step_en
Pulse(aVec, bVec) ==
  /\ acc' = [p \in PEs |-> Mac(acc[p], AIn(aVec, p), BIn(bVec, p))]
  /\ aOut' = [p \in PEs |-> AIn(aVec, p)]
  /\ bOut' = [p \in PEs |-> BIn(bVec, p)]
  /\ aSkew' = Shift(aVec, aSkew)
  /\ bSkew' = Shift(bVec, bSkew)

NoOperands == [i \in Idx |-> Zero]

NoSums  == [p \in PEs |-> <<>>]
NoFlow  == [p \in PEs |-> Zero]
NoDelay == [r \in Idx |-> [s \in 0 .. Dim - 2 |-> Zero]]

\* clear_acc
Clear ==
  /\ acc' = NoSums
  /\ aOut' = NoFlow
  /\ bOut' = NoFlow
  /\ aSkew' = NoDelay
  /\ bSkew' = NoDelay

-----------------------------------------------------------------------------
(* SRAM port A, on which the DMA engine comes before the controller.       *)

\* A cycle in which the controller leaves the port alone: a DMA access may
\* replace the read data.
PortFree == rdataA' \in {rdataA, NoWord} /\ UNCHANGED <<dstMem, lost>>

\* A cycle in which both want it: the controller's access never happens, and
\* it is not told.
Loses == lost' \in lost .. IF lost < MaxLost THEN lost + 1 ELSE lost

ReadA(row) ==
  /\ Loses
  /\ rdataA' = IF lost' = lost THEN Word("src2", row) ELSE NoWord
  /\ UNCHANGED dstMem

WriteA(row, sums) ==
  /\ Loses
  /\ dstMem' = IF lost' = lost THEN [dstMem EXCEPT ![row] = sums] ELSE dstMem
  /\ rdataA' = NoWord

-----------------------------------------------------------------------------
(* The controller, one action per state and way out of it.                 *)

ClearRows(j) == j.m * j.n * Dim * 4

Dispatch ==
  /\ state = "IDLE"
  /\ jobs < MaxJobs
  /\ \E j \in Jobs :
       /\ job' = j
       /\ base' = j.dst
       /\ rowAddr' = j.dst
       /\ state' = IF ~j.accumulate /\ j.toAccum THEN "CLEAR_PREP" ELSE "INIT_TILE"
  /\ at' = [m |-> 0, n |-> 0, k |-> 0]
  /\ lane' = 0
  /\ load' = [row |-> 0, half |-> 0]
  /\ drain' = [row |-> 0, grp |-> 0]
  /\ clearRow' = 0
  /\ jobs' = jobs + 1
  /\ before' = acc
  /\ PortFree
  /\ UNCHANGED <<chained, aTile, bLo, rdataB, array>>

\* There is always a row to clear: the tile counts are at least 1.
ClearPrep ==
  /\ state = "CLEAR_PREP"
  /\ state' = "CLEAR"
  /\ clearRow' = 0
  /\ PortFree
  /\ UNCHANGED <<input, walk, fill, empty, array>>

ClearDst ==
  /\ state = "CLEAR"
  /\ WriteA(job.dst + clearRow, [l \in 0 .. Group - 1 |-> <<>>])
  /\ IF clearRow + 1 >= ClearRows(job)
     THEN clearRow' = 0 /\ state' = "INIT_TILE"
     ELSE clearRow' = clearRow + 1 /\ UNCHANGED state
  /\ UNCHANGED <<input, walk, fill, empty, array>>

InitTile ==
  /\ state = "INIT_TILE"
  /\ state' = "A_REQ"
  /\ lane' = 0
  /\ load' = [row |-> 0, half |-> 0]
  /\ IF job.accumulate THEN UNCHANGED array ELSE Clear
  /\ PortFree
  /\ UNCHANGED <<input, walk, empty, clearRow, aTile, bLo, rdataB>>

\* src1_load_row_addr, src2_stream_row_addr
ARow == job.src1 + (at.m * Dim + load.row) * (2 * job.k) + 2 * at.k + load.half
BRow == job.src2 + (at.k * Dim + lane) * (2 * job.n) + 2 * at.n

RequestA ==
  /\ state = "A_REQ"
  /\ state' = "A_LATCH"
  /\ rdataB' = Word("src1", ARow)
  /\ PortFree
  /\ UNCHANGED <<input, walk, empty, clearRow, lane, load, aTile, bLo, array>>

LatchA ==
  /\ state = "A_LATCH"
  /\ aTile' = [p \in PEs |->
                 IF p[1] = load.row /\ p[2] \div Half = load.half
                 THEN rdataB[p[2] % Half] ELSE aTile[p]]
  /\ IF load.half = 0
     THEN load' = [load EXCEPT !.half = 1] /\ state' = "A_REQ" /\ UNCHANGED lane
     ELSE IF load.row < Dim - 1
     THEN load' = [row |-> load.row + 1, half |-> 0] /\ state' = "A_REQ" /\ UNCHANGED lane
     ELSE load' = [load EXCEPT !.half = 0] /\ state' = "B_LO" /\ lane' = 0
  /\ PortFree
  /\ UNCHANGED <<input, walk, empty, clearRow, bLo, rdataB, array>>

RequestBLo ==
  /\ state = "B_LO"
  /\ state' = "B_HI"
  /\ ReadA(BRow)
  /\ UNCHANGED <<input, walk, empty, clearRow, lane, load, aTile, bLo, rdataB, array>>

RequestBHi ==
  /\ state = "B_HI"
  /\ state' = "STEP"
  /\ bLo' = rdataA
  /\ ReadA(BRow + 1)
  /\ UNCHANGED <<input, walk, empty, clearRow, lane, load, aTile, rdataB, array>>

\* A tile of K is through: the next one, or the sums are complete.
TileSummed ==
  IF at.k + 1 < job.k
  THEN /\ at' = [at EXCEPT !.k = @ + 1]
       /\ load' = [row |-> 0, half |-> 0]
       /\ state' = "A_REQ"
       /\ UNCHANGED drain
  ELSE /\ drain' = [row |-> 0, grp |-> 0]
       /\ state' = "DRAIN_PREP"
       /\ UNCHANGED <<at, load>>

\* One column of A and one row of B enter the array.
Step ==
  /\ state = "STEP"
  /\ Pulse([i \in Idx |-> aTile[<<i, lane>>]],
           [i \in Idx |-> IF i < Half THEN bLo[i] ELSE rdataA[i - Half]])
  /\ IF lane < Dim - 1
     THEN lane' = lane + 1 /\ state' = "B_LO" /\ UNCHANGED <<at, load, drain>>
     ELSE IF chained
     THEN lane' = lane + 1 /\ state' = "FLUSH" /\ UNCHANGED <<at, load, drain>>
     ELSE TileSummed /\ UNCHANGED lane
  /\ PortFree
  /\ UNCHANGED <<input, base, rowAddr, clearRow, aTile, bLo, rdataB>>

MutantChainSteps == Dim + (Dim - 1)      \* flushes one dimension only

ChainSteps == Dim + 2 * (Dim - 1)

\* Zeros push the last operands through to the far corner of the mesh.
Flush ==
  /\ state = "FLUSH"
  /\ Pulse(NoOperands, NoOperands)
  /\ IF lane = ChainSteps - 1
     THEN lane' = 0 /\ TileSummed
     ELSE lane' = lane + 1 /\ UNCHANGED <<state, at, load, drain>>
  /\ PortFree
  /\ UNCHANGED <<input, base, rowAddr, clearRow, aTile, bLo, rdataB>>

DrainPrep ==
  /\ state = "DRAIN_PREP"
  /\ state' = "DRAIN"
  /\ rowAddr' = base + 4 * at.n
  /\ PortFree
  /\ UNCHANGED <<input, walk, fill, drain, clearRow, array>>

MutantNextTile ==        \* one column of tiles too many
  IF at.n < job.n
  THEN /\ at' = [at EXCEPT !.n = @ + 1, !.k = 0]
       /\ state' = "INIT_TILE"
       /\ UNCHANGED base
  ELSE /\ at' = [at EXCEPT !.k = 0]
       /\ state' = "IDLE"
       /\ UNCHANGED base

MutantStuckTile ==       \* the column of tiles is not advanced
  IF at.n + 1 < job.n
  THEN at' = [at EXCEPT !.k = 0] /\ state' = "INIT_TILE" /\ UNCHANGED base
  ELSE at' = [at EXCEPT !.k = 0] /\ state' = "IDLE" /\ UNCHANGED base

NextTile ==
  IF at.n + 1 < job.n
  THEN /\ at' = [at EXCEPT !.n = @ + 1, !.k = 0]
       /\ state' = "INIT_TILE"
       /\ UNCHANGED base
  ELSE IF at.m + 1 < job.m
  THEN /\ at' = [m |-> at.m + 1, n |-> 0, k |-> 0]
       /\ state' = "INIT_TILE"
       /\ base' = base + job.n * Dim * 4
  ELSE /\ at' = [at EXCEPT !.k = 0]
       /\ state' = "IDLE"
       /\ UNCHANGED base

MutantRowStep == 4       \* the stride of a matrix one tile wide
RowStep == 4 * job.n

Drain ==
  /\ state = "DRAIN"
  /\ WriteA(rowAddr + drain.grp,
            [l \in 0 .. Group - 1 |-> acc[<<drain.row, drain.grp * Group + l>>]])
  /\ IF drain.grp < 3
     THEN /\ drain' = [drain EXCEPT !.grp = @ + 1]
          /\ UNCHANGED <<state, walk, rowAddr>>
     ELSE IF drain.row < Dim - 1
     THEN /\ drain' = [row |-> drain.row + 1, grp |-> 0]
          /\ rowAddr' = rowAddr + RowStep
          /\ UNCHANGED <<state, walk>>
     ELSE /\ drain' = [drain EXCEPT !.grp = 0]
          /\ NextTile
          /\ UNCHANGED rowAddr
  /\ UNCHANGED <<input, fill, clearRow, array>>

-----------------------------------------------------------------------------

NoJob == [m |-> 1, n |-> 1, k |-> 1, src1 |-> 0, src2 |-> 0, dst |-> 0,
          accumulate |-> FALSE, toAccum |-> FALSE]

Init ==
  /\ chained \in BOOLEAN
  /\ state = "IDLE"
  /\ job = NoJob
  /\ at = [m |-> 0, n |-> 0, k |-> 0]
  /\ lane = 0
  /\ load = [row |-> 0, half |-> 0]
  /\ drain = [row |-> 0, grp |-> 0]
  /\ base = 0
  /\ rowAddr = 0
  /\ clearRow = 0
  /\ aTile = [p \in PEs |-> Zero]
  /\ bLo = [l \in 0 .. Half - 1 |-> Zero]
  /\ rdataA = NoWord
  /\ rdataB = NoWord
  /\ acc = NoSums
  /\ aOut = NoFlow
  /\ bOut = NoFlow
  /\ aSkew = NoDelay
  /\ bSkew = NoDelay
  /\ dstMem = [r \in DstRows |-> [l \in 0 .. Group - 1 |-> <<Stale>>]]
  /\ lost = 0
  /\ jobs = 0
  /\ before = NoSums

Work == \/ ClearPrep \/ ClearDst \/ InitTile \/ RequestA \/ LatchA \/ RequestBLo \/ RequestBHi
        \/ Step \/ Flush \/ DrainPrep \/ Drain

Idle == state = "IDLE" /\ PortFree
          /\ UNCHANGED <<input, state, walk, fill, empty, clearRow, array>>

Next == Idle \/ Dispatch \/ Work

Spec == Init /\ [][Next]_vars

\* The clock ticks while the controller is busy.
FairSpec == Spec /\ WF_vars(Work)

-----------------------------------------------------------------------------
(* Properties.                                                             *)

\* Element (r, c) of A x B, both row-major: the products in the order of k.
Dot(r, c) ==
  LET K == job.k * Dim
      N == job.n * Dim
  IN [i \in 1 .. K |-> << <<"src1", job.src1 * Half + r * K + i - 1>>,
                          <<"src2", job.src2 * Half + (i - 1) * N + c>> >>]

\* The sums the result starts from.  The controller keeps them from whatever
\* the array did last; that is the previous MATMUL on the same tile only if
\* there is one tile.
Start(r, c) == IF job.accumulate THEN before[<<r, c>>] ELSE <<>>
Defined     == job.accumulate => job.m = 1 /\ job.n = 1

\* A tile is drained only when every sum in it is complete: all K tiles are in,
\* in order, nothing of another tile is, and the last operands have reached the
\* far corner of the mesh.  ARITH_CONTRACT.md: both array modes give one result.
DrainedComplete ==
  state \in {"DRAIN_PREP", "DRAIN"} /\ Defined =>
    \A p \in PEs :
      acc[p] = Start(p[1], p[2]) \o Dot(at.m * Dim + p[1], at.n * Dim + p[2])

\* After a MATMUL the destination holds the whole product, row-major, as the
\* helper and SFU engines and the golden model read it.
ProductStored ==
  state = "IDLE" /\ jobs > 0 /\ Defined =>
    \A r \in 0 .. job.m * Dim - 1, c \in 0 .. job.n * Dim - 1 :
      dstMem[job.dst + r * 4 * job.n + c \div Group][c % Group] = Start(r, c) \o Dot(r, c)

\* Clearing and draining write the rows of the destination and no others.
OnlyDestination ==
  [][\A row \in DstRows \ (job.dst .. job.dst + ClearRows(job) - 1) :
       dstMem'[row] = dstMem[row]]_vars

\* Every MATMUL ends, and frees whoever waits in SYNC for sys_busy to fall.
MatmulEnds == (state # "IDLE") ~> (state = "IDLE")

=============================================================================
