# TACCEL: specifications of the ViT accelerator and its compiler

TACCEL is a small tensor accelerator for vision transformers (SystemVerilog,
`rtl/`) with a Python tool chain that compiles a model into a straight-line
program for it (`software/taccel/`).  The ISA has 20 opcodes and no branch: a
program runs from pc 0 to HALT or to a fault.

What is hard in this design is not arithmetic but order.  Three engines (DMA,
systolic array, SFU) run asynchronously behind an in-order control unit; none of
them has a command queue, so a dispatch pulse that meets a busy engine is
dropped without a trace; SYNC is the only barrier the program has; and the
compiler then removes SYNCs, elides address writes and reuses SRAM on the
strength of what the hardware is believed to do.  The specifications here cover
both halves and the contract between them, from the clock edge of the control unit
to the question whether a compiled model computes its logits.

Paths below are relative to the repository; "TLC" results are those of the runs
in `PROJECT.json`.

## Inventory

| Part | State | Operations | Interacts by | Hard because |
|---|---|---|---|---|
| Control unit `control_unit.sv`, decoder `decode_unit.sv` | FSM state, pc, latched SYNC mask, fault code | fetch, issue, reject, stall, dispatch, SYNC wait, helper wait, halt, fault | busy/fault wires of all units, dispatch pulses | busy rises one cycle after a pulse; each opcode has its own stall condition |
| Top level `taccel_top.sv` | SRAM-fault latch, read-channel owner and preference, `obs_*` registers | fault merge, read arbitration, port multiplexing, observation | wires | priorities written down in several places; AR is combinational |
| Fetch unit `fetch_unit.sv` | 4-state FSM | read one word per request | AXI read channel, shared | response errors, early beats |
| DMA engine `dma_engine.sv` | 8-state FSM, row, address, remaining, burst, beat index | LOAD, STORE in bursts of at most 256 beats | AXI, SRAM port A | bounds are checked once; data path has no skid buffer |
| SRAM `sram_dp.sv`, `sram_subsystem.sv`, registers `register_file.sv` | memory, registered read data, buffer select | read, write, bounds check | ports A and B | read data is valid for one cycle |
| Systolic controller and array `systolic/*.sv` | tile counters, array sums | MATMUL over tiles, flush, drain | SRAM port A, B | fill and drain timing, port A shared with DMA |
| Helper engine `blocking_helper_engine.sv` | walk counters, tile buffers | BUF_COPY, SCALE_MUL, VADD | SRAM ports, tile registers read live | blocking: relies on exclusion |
| SFU engine `sfu_engine.sv` | row passes | SOFTMAX, LAYERNORM, GELU | SRAM ports | same |
| SYNC coalescing `sync_coalesce.py` | the output list | clear DMA bits | relies on `control_unit.sv` | a wrong removal drops work silently |
| Address planner `dma_emitter.py` | cache of four registers | plan an access, reset | mirrors `register_file.sv` | a stale cache goes to a wrong address |
| SRAM allocator `memory_alloc.py` | live regions, free list | alloc, free, free evictable, reset | offsets are baked into instructions | fragmentation, double use |
| Scale registers `sreg_allocator.py`, `scale_emitter.py` | cursors over pools | single (pair, quad: unused) | constants in instructions | reuse before the last use |
| Compile cache `cache.py` | files | load or compile | file system, other processes | crash and race between write and rename |
| Graph `graph_extract.py`, `ir.py`, `model_config.py` | node list | extract | names of nodes | a name that does not match its reader's |
| Sequence tiling `passes/seq_tiling.py`, `memory_estimate_*.py` | rewritten node list, staging regions | decide, rewrite | attributes in elements, not bytes | a tile's window of a region that two nodes must agree on |
| Code generators `codegen_w8a16.py`, `codegen_w8a32.py` | instruction list, allocators, register cache, staging, deferred loads | emit one IR node after the other, free what is dead | all of the compiler above | lifetimes, strips, the SYNC discipline |
| Compiler `compiler.py`, `isa/encoding.py` | data section, image | collect parameters, patch addresses, encode | the binary | 28-bit halves patched without a carry |
| Golden model `golden_model/*.py` | SRAM, DRAM, registers, pc | load, step, one function per opcode | the same binary | widths and places per mode |
| Floating-point primitives, assembler text, quantizer, frontends, tools, test benches | — | — | — | see "Not modelled" |

What makes each of them correct is stated in the modules below; every hazard
with its line is listed in `PROJECT.json`.

## Modules

### The machine

* `Isa` — opcodes, legality (`decode_unit.sv`) and reject codes.  Only what a
  control decision reads is kept: the opcode, the SYNC mask, "a buffer field is
  0b11", "SET_SCALE is indirect".
* `Accelerator` — one step is one clock edge.  The control unit's FSM is written
  out (`Start` ... `Hold`, one action per outcome of the `case (state)`); the
  five units around it appear with what the control unit can observe of them:
  idle, busy, or holding a fault code.  How long an engine works and whether it
  faults is nondeterministic; that a busy engine ignores a dispatch is not.  The
  program is nondeterministic too: each fetch returns any word of `Insns`, which
  for a branch-free ISA is the same as quantifying over all programs.  Three
  history variables carry the properties: `pending`, the engines given work
  since something last waited for them; `unsynced`, the engines the program used
  without the SYNC that was due; and `lost`, the engines that ignored a pulse.
  The SYNC discipline of the compiler is thus not an assumption but a condition
  the properties name: an engine outside `unsynced` was used in discipline.
* `AcceleratorInv` — the inductive invariant and the refinement mapping, in a module
  TLC can check.
* `Observability` — the `obs_*` registers of `taccel_top.sv` in the same clock:
  retire and control-fault pulses, retired counter, overlap flag, issue pcs and
  the first-fault context.  History variable `job`: which instruction each engine
  really took.
* `IssueOrder` — the abstract machine: instructions retire in order, once each;
  SYNC and helper operations retire only when what they wait for is over;
  nothing retires while a fault stands.  No clock, no fetch, no stalls.
  `AcceleratorInv` gives the mapping under which `Accelerator` implements it.
* `DmaEngine` — both directions of `dma_engine.sv` with SRAM port A of
  `sram_subsystem.sv`/`sram_dp.sv`: the registered read data and the
  registered buffer select are explicit because a STORE sends them straight to
  the bus.  `sysBuf` is the buffer the idle systolic controller selects, which
  the port shows whenever the DMA engine does not drive it.
* `BlockTransfer` — what a transfer promises: the words one after the other, in
  bounds, or a faulted prefix.
* `ReadPath` — the read arbiter of `taccel_top.sv` with the fetch unit, the load
  half of the DMA engine and the memory's read channel, cycle by cycle.
* `Systolic` — `systolic_controller.sv` with the mesh of `systolic_array.sv` and
  `systolic_pe.sv`, in both array modes: skew lines, operands that move from PE to
  PE, the flush, the drain.  A sum is the sequence of products added to it, since
  FP32 addition does not associate.  In any cycle in which the controller leaves
  port A alone the DMA engine may use it, so the shared read register holds
  anything; `MaxLost` says how many accesses of the controller itself the port
  multiplexer may give away.
* `Sram` — the three buffers, both ports with their read registers, how matrices
  lie in rows.  An element is a term: where it came from and what was done to it
  (scaled, summed, rounded to FP16, ...).  A port that was not asked for a row
  shows `NoRow`.
* `HelperEngine` — all of `blocking_helper_engine.sv`: the checks at dispatch,
  flat and transposed BUF_COPY, both VADDs, both SCALE_MULs.
* `SfuEngine` — all of `sfu_engine.sv`: the checks at dispatch, SOFTMAX, LAYERNORM
  and GELU from either width.
* `Datapath` — the two on the same SRAM, one instruction after the other.  For
  each engine `Result` says what an accepted instruction leaves in memory, as a
  function of lines and columns that knows nothing of chunks, halves and blocks.
* `DatapathInv` — the inductive invariants of both engines, in a module TLC can check.

### The compiler

* `SyncCoalesce` — one step is one iteration of the loop of
  `coalesce_dma_syncs`; beside it runs, for the input and the output program,
  the set of engines whose work nothing has waited for yet (the `pending` of
  `Accelerator`), so that the pass is judged by what the hardware will do.
* `AddrPlanner` — `plan_access` beside the address registers the emitted
  instructions write and the addition `dma_engine.sv` makes.
* `BufferAllocator` — `alloc`, `free`, `free_all_evictable`, `reset`.
* `TensorLoads` — the two together, as the code generators use them: a region from
  the allocator, an address from the planner, one LOAD of both, beside the content
  of the buffer.
* `CompileCache` — `load_or_compile` run by several processes over a directory
  with names and inodes; a process may end between any two steps.
* `FreeList` — the segment list under `BufferAllocator`, shared with `Emission`.

### From a model to its logits

These modules are operators on records, composed by the state machine
`CompiledProgram`.

* `VitConfig` — dimensions of a model (`model_config.py`) and `pad_dim`.
* `VitGraph` — the IR and the graph `graph_extract.py` builds, with `LastUse` and
  `DeadAfter`, from which the generators free tensors.
* `SeqTiling` — the policies of `memory_estimate_w8a16.py` and
  `memory_estimate_w8a32.py` and the rewrite of `passes/seq_tiling.py`: every node of
  the residual stream becomes one node per tile, with `tile_load` and `tile_save`
  around it.
* `Encoding` — the instruction formats of `encoding.py` as sets of bits: fields, what
  encoding cuts off, what decoding returns.
* `Emission` — a code generator's state and its elementary steps: allocate, require,
  rename, free (`memory_alloc.py`), take a scale register (`sreg_allocator.py`), resolve
  a staging region, plan an address (`dma_emitter.py`), append an instruction with the
  range checks of its class.  A handler is a *script* of such steps, run in order;
  the first exception stops it.
* `NodeHandlers`, `CodeGenW8A16`, `CodeGenW8A32` — a script for every node type, in the
  two modes; the loop of `generate`; the data section.  The two generators repeat each
  other's text but for the element width and the way out of ACCUM, so what they share
  is stated once.
* `Compiler` — the parameters in the order `compile_w8a16` and `compile_w8a32` lay them
  out, and `_finalize_program`: the data base, the patched addresses, the words.
* `GoldenModel` — what each instruction does to SRAM, DRAM and registers
  (`simulator_w8a16.py`, `simulator_w8a32.py` and what they call), with their errors.
* `VitReference` — what is to come out: the untiled graph evaluated on whole, unpadded
  matrices, with no tile, buffer or address in it.
* `CompiledProgram` — the phases: generate (one node a step), coalesce (the steps of
  `SyncCoalesce`, on the generator's own output), load, run.  While the program runs,
  `flying` holds what each engine was given; an engine's work takes effect at any
  moment before something waits for it, as `control_unit.sv` allows, with the tile
  sizes and addresses of its dispatch.  A dispatch to a busy engine is lost.  Hence a
  SYNC missing anywhere shows in the logits of some interleaving.  `meant` remembers
  the address the generator had in mind for each transfer.

Numbers are residues modulo the prime 16127 and memory is made of cells of two bytes:
an FP16 number is one cell, an FP32 number two, and rounding to FP16 keeps the
leading one.  A wrong, missing, stale or misplaced operand thus changes the result,
while nothing is said about rounding.  Two values are absorbing: NaN, and the large
negative value of the attention mask, whose exponential is 0.  Every element of every
parameter has a value of its own.

`MC*` modules give the constants of a run that a cfg cannot hold.  Definitions
named `Mutant...` are deliberate defects next to the definition they vary: for
every property of a passing run there is one that makes it fail.

## Runs

| Run | Shows | Bound and why it is enough |
|---|---|---|
| `accelerator` | the inductive invariant `IInv`; `NoForbiddenOverlap`, `SyncBarrier`, `SyncedHaltIsClean`, `FaultCodeTruthful`, `NoLostWork`; the observer counts exactly, agrees with the control unit and attributes the faults of disciplined work; `HelperInputsStable`; `ImplementsIssueOrder`; `EventuallyTerminal` | one instruction per way a word can be treated (15), programs of up to 5 instructions (`MaxPC` = 4): enough to give all three engines work, sync a subset, and meet every stall; the theorems remove the bound |
| `dma` | `AccessInBounds`, `ImplementsBlockTransfer`, `TransferEnds` | bursts of 2 words, transfers of 0 to 4 words starting before, at and past the ends of a 3- and a 4-row buffer and of a 5-word memory, two transfers in a row: every boundary of the two comparisons and one, two and more bursts |
| `dma_stall` (violation) | `StoredWordIsSource` | one transfer |
| `read_path` | `OwnersAgree`, `BoundedBypass`, `RequestsServed` | bursts of 3 beats, loads of up to 8: several bursts with a short last one |
| `systolic` | `DrainedComplete`, `ProductStored`, `OnlyDestination`, `MatmulEnds` | an array 4 wide (the width enters the code as `SYS_DIM` only; 4 is the smallest with two halves and one group of sums per row); one and two tiles in each direction, so that every base and stride is used after its first value; two MATMULs in a row, so that leftovers of the first show |
| `systolic_contended` (violation) | `ProductStored` when one access is lost to the DMA engine | one MATMUL |
| `datapath` | `AccessInBounds`, `HelperResult`, `SfuResult`, `OperationEnds` | tiles 8 wide, so that a transpose has several blocks in both directions; 39 instructions over one and two tiles, in place, shifted up and down, filling a buffer to its last row, one row too long, and every unsupported kind; all pairs of them, so that counters one leaves behind meet the other |
| `tensor_loads` | `TensorsIntact`, `Partition`, `RefusedOnlyWhenFull`, `CacheExact`, `AccessHits` | 3 names, a buffer of 5 units, requests of 1, 2 and 4: a hole opens between two live tensors, and a request fails though the free units would suffice.  One address register with halves of 2 values and a window of 2: walks across the edge of a half and of the window; for more registers the planner's properties are proved |
| `compile_cache` | `CacheWhole` with one compiler at a time and crashes anywhere | 3 processes, files of 2 chunks |
| `compile_cache_race` (violation) | `CacheWhole` without that restriction | 2 processes |
| `compiled_program` | `LogitsExact`, `AddressExact`, `CleanStop`, `ImageIntact`, `InputsResident`, `NoLeak`, `ProgramDisciplined`, `CoverKept` | see below |
| `address_carry` (violation) | `AddressExact` when the data section ends near the reach of SET_ADDR_LO | one model, `ImmBits` = 11: the first transfer past the edge fails |

`compiled_program` compiles six models, two of which are refused, and runs the others from SRAM
full of zeros and of NaN (about 23 000 states; the longest program has over two
thousand instructions).  Everything is scaled by the tile: `TILE` is 2 instead of
16 and a unit 2 bytes instead of 16, so a row of a tile in FP16 is two units, as in the
hardware, and one in FP32 four.  Four patches and a class token make 5 rows padded to 6,
in tiles of 2: a first tile with the class token, a middle one, and a last one with a
pad row.  Embeddings of 4 and 6 and 2 or 3 heads
give one and several column tiles per matrix; the weight budget of 40 bytes makes
`fc1`, `fc2` and the output projection come in strips in one model or another; two
blocks make names, staging regions and scale registers come round again.
`ABUF` (136 bytes), `WBUF` (220) and `ACCUM` (64) are so small that regions are reused at
once; `OffBits` = 5 makes the planner's window narrower than a matrix, `ImmBits` = 16 an
address fit SET_ADDR_LO except in `address_carry`.
The last two models are refused, as they would be: one for want of
ABUF (MemoryError), one because it would need no tiling (NotImplementedError).  `Fills` of
NaN shows every read of something not written: it would reach the logits.

`CoverKept` was checked over all short programs before it was proved; here, like
`ProgramDisciplined`, it is about what the generators emit.

`CHECK_DEADLOCK FALSE` appears once, where the system really stops: in `Datapath` an
engine that faulted stays in its fault state, or the bound on instructions is reached.

Names are interchangeable in `tensor_loads`, which checks invariants only, and are
declared symmetric.

## Where the code and its documents disagree

* **STORE under write backpressure** (`dma_stall`).  `dma_w_data` is the SRAM
  port's output; its buffer select is registered from whatever the port carries
  each cycle.  When W stalls, the DMA engine no longer drives the read, the
  select falls back to the systolic controller's buffer and the word changes
  under WVALID.  The backpressure test stores from ABUF, to which the select
  falls back, and does not see it.
* **The carry of a patched address** (`address_carry`).  `plan_access` splits an address
  into halves of 28 bits; `_finalize_program` adds `data_base` to the low half alone and
  cuts the sum.  When the low part and `data_base` together pass 2^28, the transfer goes
  256 MB too low, with no error.  An image of that size is what W8A32 makes of ViT-B
  (about 430 MB), which however is refused for its FC1 tile first; the smaller models
  stay below.
* **Compile-cache staging file** (`compile_cache_race`).  Two processes that
  miss together use the same `.bin.tmp`; the comment promises the opposite.
* **A MATMUL beside a LOAD or STORE** (`systolic_contended`).  The port A
  multiplexer prefers the DMA engine and tells nobody; the comment above it trusts
  the control unit to keep the two apart, and the control unit does not.
  `systolic` shows that everything else about the shared port is sound: traffic in
  cycles the controller does not use does no harm.

Others were met while modelling and are not runs of their own:

* `sync_coalesce.py:92-94` (docstring) says the DMA bit is cleared before LOAD and
  STORE; `sync_coalesce.py:114` keeps it, and has to (`DisciplineKept` fails
  otherwise: that is the mutant of `Strips`).
* HALT does not wait for engines, so a fault raised afterwards is never reported
  although `isa_spec.md:221` promises it (`SyncedHaltIsClean` says when this cannot
  happen).
* `docs/rtl_plan.md:381` asks for legal AXI bursts; `burst_beats` never looks at the
  address, so a burst can cross a 4 KB boundary.
* `isa_spec.md:239` and the golden model (`systolic_w8a16.py:51`) add to what the
  destination holds when the accumulate flag is set.  The array adds to whatever it
  summed last and never reads the destination, nor clears between the tiles of such
  a MATMUL.  The two agree for one tile that directly follows the MATMUL it extends,
  which is all `Systolic` claims (`Defined`, `Start`).
* The arbiter's selection is combinational and prefers DMA, so a request that arrives
  later replaces the one already shown under ARVALID.
* `memory_estimate_w8a32.py:40-44` wants FC1's output within half of ABUF, but line 47
  takes at least 16 rows whatever the bound says (the header speaks of tiles of about 8).
  For ViT-B in W8A32 the output of 16 rows has 196 KB, more than all of ABUF, and the
  code generator ends with a MemoryError; the fifth model of `compiled_program` is such a
  one.
* A graph that fits untiled is left alone by the pass and refused by both generators.
* `sreg_allocator.py`'s docstring speaks of disjoint domains, but its pairs and quads
  overlap; no generator asks for either.
* `ModelConfig` accepts dimensions that are no multiple of 16, for which the windows of
  staging regions (logical columns) and the layout of tiles (padded columns) would
  disagree.  The models of `compiled_program` have the multiples the code relies on.
* The classifier reads a full tile of rows although `_emit_cls_extract` allocates one;
  the rows behind it are whatever ABUF holds there, and `LogitsExact` with NaN shows
  that they do not reach the logits.
* Tiled graphs have padded rows already, so the zero-padding branches of `_emit_qkt` and
  `_emit_attn_v` never run in a program the generators accept.
* Without the SYNC discipline `obs_*_issue_pc_q` names an instruction the engine
  never took (`FaultAttributed` is therefore about engines outside `unsynced`).

## What the datapath properties do not claim

SCALE_MUL, VADD, SOFTMAX, LAYERNORM and GELU write while they still read.  If the
destination begins inside the source and behind its start, they read their own
output; the ISA says nothing about it, and `Defined` leaves those instructions out
of `HelperResult` and `SfuResult` (not out of the bounds and the liveness).
A bias VADD, which walks columns, is claimed for exactly the same place or disjoint
ones.  BUF_COPY is claimed for every overlap.  The factor of SCALE_MUL is one
symbol, and BUF_COPY between ACCUM and an FP16 buffer, which would reinterpret bits,
is not among the instructions of the run.

## Fairness

* `Accelerator`: the clock ticks; the memory answers each read; each engine at
  work stops, because each of its loops counts up to a registered bound; the
  host raises start.  Nothing is assumed about the control unit beyond the
  clock.  A systolic controller that faults runs on to its end, as in the code.
* `DmaEngine`: the memory completes the handshake it owes.
* `Systolic`, `Datapath`: each engine is clocked; weak fairness on its steps.
  Whether another instruction arrives is left open.
* `CompiledProgram` is checked for safety and deadlock only: no step leads back to an
  earlier state, so every program that cannot get stuck ends, and `CleanStop` says how.
* `ReadPath`: the memory accepts a request that stays up and returns the beats
  it owes.  No fairness is assumed between the two clients: that is what the
  arbiter is for.

## Proofs

TLAPS checks each theorem for all values of the constants, from the assumptions
named in the modules.

* `AcceleratorProofs`, for every instruction set, program length and tile set.
  `Invariance` proves `IInv`.  `SyncBarrier` and
  `NoForbiddenOverlap` are not inductive alone.  The argument needs that a
  helper runs only in DISP_WAIT with everything else idle (`OverlapInv`,
  `HelperInv`), that an instruction in the register is one the program may have
  there (`IssueInv`), that no fetch is under way outside FETCH (`FetchInv`), and
  that a latched fault keeps its reason (`FaultInv`).  From it follow `TypeOK`,
  `NoForbiddenOverlap`, `SyncBarrier`, `NoLostWork`, `SyncedHaltIsClean` and
  `FaultCodeTruthful`.
  - `HelperUndisturbed`: the tile registers and the instruction a helper or SFU
    operation reads live do not change under it.
  - `Refinement`: every step of the clocked machine is a step of `IssueOrder` or a
    stutter, under the mapping of `AcceleratorInv`.  What that needs beyond the above is
    `WaitInv`: the mask a SYNC waits under is still its own, an instruction in a wait
    state was not refused, and a helper that has just ended has not been joined by
    another engine.  The one assumption added is that the value `Empty`, which stands for
    "no instruction", is not an instruction.
  - The observer: `ObserverIsPassive` (every behaviour with the `obs_*` registers is one
    of the accelerator, so `IInv` carries over), `CountIsExact`, `ObserverAgrees`,
    `FaultPcIsTheJobs`.  The invariant `ObsInv` adds when a pulse may be up (`PulseInv`),
    that a stopped run has its fault context latched or on its way (`ContextInv`), and
    that an engine used in discipline is booked under the pc of the job it took
    (`IssueInvariant`).
* `ReadPathProofs`, for all burst and transfer lengths, whatever the memory answers:
  `OwnersAlwaysAgree` and `BypassIsBounded`.  `TurnInv` is the argument for the second: a
  client that was passed over once has the preference by the time the read under way
  ends, and nobody can take it away while that client waits.
* `DmaEngineProofs`, for every length, burst limit and buffer size.  `AccessInBounds` with
  the types is inductive: the single check at dispatch is enough, and only the memory's
  responses can fail a transfer under way (`OnlyTheMemoryFails`, proved, not a property of
  a run).  `DmaRefinement` proves `ImplementsBlockTransfer`, and `StoreDataWithoutStalls`
  that each word of a STORE is the word of its source row; `XferInv` says where row,
  address and remaining count stand in the job and that the registered read data is the
  word due.  Both assume `~WStalls`, as the run `dma` does; with stalls they are false
  (`dma_stall`).
* `SystolicProofs`, for every array width (a multiple of 4), every number of tiles, every
  placement and both array modes.
  - `WritesOnlyTheResult`: the rows of the result and no others.  `WalkInv` (where the
    tile counters and the drain address stand) is enough, and no assumption on lost
    accesses is needed.
  - `SumsAreExact`, `DrainsWholeSums`, `StoresTheProduct`.  `OperandInv` says which
    element each register between SRAM and array holds; `FlowInv`, for the chained array,
    that an operand is where its age puts it: the skew line or PE register s places behind
    the edge holds what was fed s pulses ago.  From this `SumInv` follows: the sum
    of PE (r, c) is what it started from and the products it has seen, in the order of k.
    `StoredInv` then says that what is drained is whole and that no later group lands on
    it, since row-major addresses of different groups differ.  These three assume that no
    access is lost (`MaxLost` = 0, false otherwise: `systolic_contended`); the last also
    that the destination lies within the buffer (`JobsFit`): a MATMUL whose result does
    not is stopped by an SRAM fault, which `Accelerator` has and `Systolic` has not.
* `DatapathProofs`, for every tile width, matrix size, placement and buffer depth:
  `NoWalkLeavesItsBuffers` proves `AccessInBounds`, hence that the fault branches inside
  the walks, which the modules leave out, are never reached.  The inductive invariant
  `WalksInside` says for each state which kind of job it belongs to, that this job passed
  the checks at its dispatch, and that the counters of its walk are below its tile counts;
  counters of other walks may hold anything.  That such counters give rows within the rows
  checked is arithmetic: element b of block a lies in a matrix of blocks (`Block`), and
  a transpose cuts source and destination into blocks without remainder
  (`TransposeShape`, which is where the checks of divisibility at dispatch are used).
  - `HelperDoesItsJob` and `SfuDoesItsJob`: `HelperResult` and `SfuResult`.  For each
    walk the result is first cut into rows (`FlatWords` ... `NarrowWords`, `SfuWords`),
    proved to be the abstract result put together.  The inductive invariant `ResultInv`
    then says at every step that memory is the memory before the instruction with the
    rows done so far replaced (`Image`), that each register holds what it was read from,
    again in terms of the memory *before*, and that only one engine is at work.  The heart
    of it is that a row still to be read has not been written over: the walk's own
    direction for BUF_COPY, the order of reads and writes within a step or a line for the
    others, and `Defined` for what may overlap at all.  `ShapeInv` (rows are functions on
    the lanes of their buffer) is what equality of memories needs.
  - They assume `CopiesKeepWidth`: no flat copy between ACCUM and an FP16 buffer.  Such a
    copy would cut FP32 elements into halves, which symbols cannot say.  The code
    generator for this datapath scales instead (`codegen_w8a16.py:291`, `:642`), and TLC
    evaluates the assumption on the instructions of the run.
  - `WalksInside` and `ResultInv` can be given to TLC as invariants of the run `datapath`
    and hold in all of its 44853 states; they were, before they were proved.
* `SyncCoalesceProofs`: the invariant relates the two `pending` sets: the output
  may have more pending only by DMA work which the next engine operation fences.
  With it `DisciplineKept` and `CoverKept` hold for every program; `compiled_program`
  checks the second, and the first as part of `ProgramDisciplined`.
* `TensorLoadsProofs`, for every set of names, every capacity, all sizes of requests and any
  width of the address halves and of the window.
  - `BufferPartition`, `RefusalJustified`, `TensorsStayIntact`: `Partition`,
    `RefusedOnlyWhenFull`, `TensorsIntact`.  `Partition` alone is not inductive: a
    region given back keeps it only if the segments of the list are apart, and a refusal is
    justified only if no two of them touch.  `BufferInv` adds that the list is
    `Gapped` (sorted, with a gap between neighbours) and that live regions are finitely
    many and not empty; `LoadsInv` adds the planner's part and the content of the buffer.
  - `MergedList` says what `free` makes of its segments: a gapped list of the same units.
    `SortedList` comes from counting (the number of segments in front of one is its place,
    and no two have the same); the joining is a recursive function, and what it leaves at
    each segment follows from the least number for which it would not (`Climb`, from the
    library's well-founded order on the naturals), which takes a set and not an operator.
  - `RefusalJustified` then is `OneHole`: free units in a row lie in one segment of a
    gapped list.  `TensorsStayIntact` joins the two halves: the planned access reaches its
    address, and the units it fills were free.
  - `PlannerCacheExact`, `EveryAccessHits`: the cache equals the registers wherever it is
    known, and base plus offset is the address asked for.
  - TLC found `LoadsInv` to hold in all 310481 states of `tensor_loads` before it was proved.
* `CompileCacheProofs`: `CacheStaysWhole` for any number of processes, any file length and
  crashes anywhere, assuming `OneCompiler` (false otherwise: `compile_cache_race`).
  `WriterInv` says that the staging name leads to the file the one writer has open, and
  `NameInv` that this is never the file under the cache's name.

Only model-checked:

* Liveness (`EventuallyTerminal`, `TransferEnds`, `RequestsServed`, `MatmulEnds`,
  `OperationEnds`) and anything with ENABLED, which are out of the prover's reach.
* All of `CompiledProgram` but `CoverKept`: that every program computes its logits is an
  induction over the graph.

## Not modelled, and why

* Arithmetic: `fp32_prim_pkg.sv`, the SFU's functions, requantization, quantizer.
  Values, not state changes; the repository compares them bit by bit.
* The fault branches inside the walks of the helper and SFU engines:
  `AccessInBounds` shows that no state of theirs can take them.  Rows outside a
  buffer in a MATMUL, whose SRAM fault the top level latches, appear in
  `Accelerator` as a fault of the systolic controller and not in `Systolic`.
* Of the code generators and the compiler: quantised weight values and scales (every
  parameter is an opaque number), calibration, the manifests for debugging, and the
  schedules of `tiler.py`, of which the generators use `pad_dim` only.
* Of the ISA, in the golden model and the encoding: REQUANT, REQUANT_PC, DEQUANT_ADD,
  SOFTMAX_ATTNV and the INT8 variants, which no compiled program contains, and the trace.
  Addresses in the program or behind the image are refused in `GoldenModel`; the code
  checks them only against DRAM's size, so `CleanStop` is stricter there.
* Pairs and quads of scale registers, `free_dram_temp`: nothing calls them.
* Assembly text, the report fields of the memory estimates, frontends, utilities, tools, test
  benches: formatting, I/O and drivers without protocol.
* The key of the compile cache: a hash.
* Reset in the middle of a run, and a second `start`: the harness does neither.

## Plan

1. Core: control unit and units around it, with the abstract issue order — done.
2. Observation registers, DMA engine with SRAM port, read arbiter — done.
3. Compiler contract: SYNC coalescing, planner, allocator, cache — done.
4. `Systolic`, with port A shared with the DMA engine — done.
5. `HelperEngine`, `SfuEngine`, `Datapath` — done.
6. `TensorLoads`: planner and allocator composed — done.
7. The compiler from graph to binary, the golden model, and `CompiledProgram` over
   both — done.
8. Proofs: `Accelerator` implements `IssueOrder`; `DmaEngine` implements
   `BlockTransfer` without W stalls; the read arbiter; the observer; the compile cache;
   the systolic array from operand to stored product; `AccessInBounds` of the helper and
   SFU engines and the result of every instruction of theirs, for every matrix size; the
   allocator and the tensors it places — done.
9. Open: patches of SET_ADDR with a carry, should the compiler be changed; graphs that
    need no tiling, should a generator accept them.
