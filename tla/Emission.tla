------------------------------ MODULE Emission ------------------------------
(***************************************************************************)
(* What the two code generators share: the state they keep while they walk *)
(* the graph, and the elementary things their handlers do to it, with      *)
(* BufferAllocator, AddrPlanner, SRegAllocator and MemoryAllocator.        *)
(*                                                                         *)
(* A handler of a node is a script: the sequence of those things in the    *)
(* order of the code.  Places are named by tensor and turned into offsets  *)
(* when the script runs, so a handler that used a name too early, or after *)
(* its region was given back, would fail here as it does there.            *)
(***************************************************************************)
EXTENDS SeqTiling, FreeList, Encoding

CONSTANTS
  WbufSize,       \* bytes
  AccumSize,      \* bytes
  WeightBudget    \* _WBUF_WEIGHT_BUDGET, bytes

UnitsFor(bytes) == (bytes + UNIT - 1) \div UNIT

-----------------------------------------------------------------------------
(* Definitions named "Mutant..." are defects the properties must notice;   *)
(* no specification uses them.                                             *)
(*                                                                         *)
(* The state of a code generator.                                          *)

OddPool == <<1, 3, 5, 7, 9, 11, 13>>

NotWritten == -1

EmptyBuffer(bytes) == [live |-> <<>>, free |-> <<Seg(0, bytes \div UNIT)>>]

\* layout: DRAM symbol -> byte offset; rows: weight -> rows of its array;
\* deferred: name -> tile_load node to be emitted by its only consumer.
NewGenerator(c, layout, tempStart, rows, deferred) ==
  [c |-> c, layout |-> layout, tempStart |-> tempStart, rows |-> rows, deferred |-> deferred,
   insns |-> <<>>,
   abuf |-> EmptyBuffer(AbufSize), wbuf |-> EmptyBuffer(WbufSize),
   staging |-> <<>>, tempTop |-> 0,
   cached |-> [r \in 0 .. 3 |-> NotWritten],
   nextSingle |-> 0,
   guessed |-> {},        \* history: inputs that "get(...) or alloc(...)" made up
   fault |-> "none"]

Live(g, buf) == DOMAIN g[buf].live

\* BufferAllocator.alloc.
Allocate(g, buf, name, bytes) ==
  LET free == g[buf].free
      size == UnitsFor(bytes)
  IN  IF FitsIn(free, size) = {}
      THEN [g EXCEPT !.fault = "MemoryError"]
      ELSE LET k == FirstFit(free, size)
           IN  [g EXCEPT ![buf].live = (name :> Seg(free[k].start, size)) @@ @,
                         ![buf].free = Take(free, k, size)]

\* BufferAllocator.free; an unknown name is ignored.
Release(g, buf, name) ==
  IF name \notin Live(g, buf)
  THEN g
  ELSE [g EXCEPT ![buf].live = [n \in DOMAIN @ \ {name} |-> @[n]],
                 ![buf].free = Merged(Range(@) \union {g[buf].live[name]})]

\* A region passes from one name to another.
Rename(g, buf, old, new) ==
  IF old \notin Live(g, buf)
  THEN g
  ELSE [g EXCEPT ![buf].live =
          (new :> @[old]) @@ [n \in DOMAIN @ \ {old} |-> @[n]]]

\* get(name) or alloc(name, bytes): an input nobody produced is made up.
Require(g, buf, name, bytes) ==
  IF name \in Live(g, buf)
  THEN g
  ELSE [Allocate(g, buf, name, bytes) EXCEPT !.guessed = @ \union {name}]

-----------------------------------------------------------------------------
(* DRAM: parameters have their place in the layout, staging regions one    *)
(* behind it, taken when first used.                                       *)

Param(name, delta)          == [name |-> name, delta |-> delta, total |-> -1]
Staged(region, total, delta) == [name |-> region, delta |-> delta, total |-> total]

MutantResolveStaging(g, region, total) ==     \* dram_temp_start forgotten
  IF region \in DOMAIN g.staging
  THEN g
  ELSE [g EXCEPT !.staging = (region :> g.tempTop) @@ @,
                 !.tempTop = @ + total]

\* _resolve_staging_dram with alloc_dram_temp.
ResolveStaging(g, region, total) ==
  IF region \in DOMAIN g.staging
  THEN g
  ELSE [g EXCEPT !.staging = (region :> g.tempStart + g.tempTop) @@ @,
                 !.tempTop = @ + total]

BytesIn == [abuf |-> AbufSize, wbuf |-> WbufSize, accum |-> AccumSize]

\* __post_init__ of the instruction classes: the first unit of every place lies
\* in its buffer, every other operand fits its field.
WellFormed(insn) ==
  /\ \A f \in DOMAIN insn \intersect {"src1", "src2", "dst", "sram"} :
       insn[f].off \in 0 .. BytesIn[insn[f].buf] \div UNIT - 1
  /\ insn.op \in DmaOps \union {"BUF_COPY"} => insn.len \in 0 .. 65535
  /\ insn.op \in DmaOps    => insn.dramOff \in 0 .. 2^OffBits - 1
  /\ insn.op = "BUF_COPY"  => insn.srcRows \in 0 .. 63
  /\ insn.op \in AddrOps   => insn.imm \in 0 .. 2^ImmBits - 1
  /\ insn.op = "CONFIG_TILE" => {insn.m, insn.n, insn.k} \subseteq 0 .. 1023
  /\ insn.op \in RTypeOps \union {"SET_SCALE"} => insn.sreg \in 0 .. 15

\* _emit; an instruction with an operand out of range cannot be made.
Issued(g, insn) ==
  IF WellFormed(insn) THEN [g EXCEPT !.insns = Append(@, insn)]
                      ELSE [g EXCEPT !.fault = "ValueError"]

LoOf(addr) == addr % 2^ImmBits
HiOf(addr) == (addr \div 2^ImmBits) % 2^ImmBits

SetAddr(op, reg, imm) == Plain(op) @@ [reg |-> reg, imm |-> imm]

MutantPlanAccess(cached, reg, addr) ==        \* the cache keeps the old base
  IF cached # NotWritten /\ addr - cached \in 0 .. 2^OffBits * UNIT - 1
  THEN [setup |-> <<>>, dramOff |-> (addr - cached) \div UNIT, cached |-> cached]
  ELSE [setup |-> <<SetAddr("SET_ADDR_LO", reg, LoOf(addr)),
                    SetAddr("SET_ADDR_HI", reg, HiOf(addr))>>,
        dramOff |-> 0, cached |-> IF cached = NotWritten THEN addr ELSE cached]

\* plan_access: what to emit before the transfer, its dram_off, the new cache.
PlanAccess(cached, reg, addr) ==
  IF cached # NotWritten /\ addr - cached \in 0 .. 2^OffBits * UNIT - 1
  THEN [setup |-> <<>>, dramOff |-> (addr - cached) \div UNIT, cached |-> cached]
  ELSE LET fresh == cached = NotWritten
           lo == IF fresh \/ LoOf(cached) # LoOf(addr)
                 THEN <<SetAddr("SET_ADDR_LO", reg, LoOf(addr))>> ELSE <<>>
           hi == IF fresh \/ HiOf(cached) # HiOf(addr)
                 THEN <<SetAddr("SET_ADDR_HI", reg, HiOf(addr))>> ELSE <<>>
       IN  [setup |-> lo \o hi, dramOff |-> 0, cached |-> addr]

\* _emit_dma_load and _emit_dma_store.  The address the generator means goes
\* along with the instruction, as a history: encoding drops it.
Transfer(g, op, sram, bytes, reg, addr) ==
  IF addr % UNIT # 0
  THEN [g EXCEPT !.fault = "ValueError"]
  ELSE LET plan == PlanAccess(g.cached[reg], reg, addr)
       IN  Issued([g EXCEPT !.insns = @ \o plan.setup, !.cached[reg] = plan.cached],
                  Plain(op) @@ [sram |-> sram, len |-> MinOf(UnitsFor(bytes), 65535),
                                reg |-> reg, dramOff |-> plan.dramOff, meant |-> addr])

-----------------------------------------------------------------------------
(* The steps of a script.                                                  *)

Spot(buf, name, units) == [buf |-> buf, name |-> name, units |-> units]
Fixed(buf, off)        == [buf |-> buf, off |-> off]    \* no name stands behind it
Accum(off)             == Fixed("accum", off)
Unused                 == Fixed("wbuf", 0)

New(buf, name, bytes)  == << [do |-> "new", buf |-> buf, name |-> name, bytes |-> bytes] >>
Need(buf, name, bytes) == << [do |-> "need", buf |-> buf, name |-> name, bytes |-> bytes] >>
Free(buf, name)        == << [do |-> "free", buf |-> buf, name |-> name] >>
PassOn(buf, old, new)  == << [do |-> "rename", buf |-> buf, old |-> old, new |-> new] >>
TakeSingle             == << [do |-> "single"] >>
Insn(insn)             == << [do |-> "insn", insn |-> insn] >>
SyncOn(engine)         == Insn(Sync({engine}))

Dma(op, spot, bytes, reg, loc) ==
  << [do |-> "dma", op |-> op, spot |-> spot, bytes |-> bytes, reg |-> reg, loc |-> loc] >>

\* Every transfer is followed by a SYNC on the DMA engine.
Fetch(spot, bytes, reg, loc) == Dma("LOAD", spot, bytes, reg, loc) \o SyncOn("dma")

MutantSave(spot, bytes, reg, loc) == Dma("STORE", spot, bytes, reg, loc)    \* no SYNC

Save(spot, bytes, reg, loc)  == Dma("STORE", spot, bytes, reg, loc) \o SyncOn("dma")

Compute(op, src1, src2, dst, sreg) ==
  Insn(Plain(op) @@ [src1 |-> src1, src2 |-> src2, dst |-> dst, sreg |-> sreg])

Copy(src, dst, units) ==
  Insn(Plain("BUF_COPY") @@ [src1 |-> src, dst |-> dst, len |-> units,
                             srcRows |-> 0, transpose |-> 0])

CopyTransposed(src, dst, units, srcRows) ==
  Insn(Plain("BUF_COPY") @@ [src1 |-> src, dst |-> dst, len |-> units,
                             srcRows |-> srcRows \div TILE, transpose |-> 1])

\* CONFIG_TILE counts tiles, less one.
ConfigTile(m, n, k) ==
  Insn(Plain("CONFIG_TILE") @@ [m |-> m \div TILE - 1, n |-> n \div TILE - 1,
                                k |-> k \div TILE - 1])

\* emit_scale; the FP16 pattern of a scale stands for itself.
SetScale(sreg, scale) == Insn(Plain("SET_SCALE") @@ [sreg |-> sreg, imm |-> scale])

-----------------------------------------------------------------------------
(* Running a script.                                                       *)

IsFixed(spot) == "off" \in DOMAIN spot

Resolvable(g, spot) == IsFixed(spot) \/ spot.name \in Live(g, spot.buf)

Locate(g, spot) ==
  IF IsFixed(spot) THEN spot
  ELSE Fixed(spot.buf, g[spot.buf].live[spot.name].start + spot.units)

SpotFields(insn) == DOMAIN insn \intersect {"src1", "src2", "dst"}

EmitInsn(g, insn) ==
  IF \A f \in SpotFields(insn) : Resolvable(g, insn[f])
  THEN Issued(g, [f \in DOMAIN insn |->
                    IF f \in SpotFields(insn) THEN Locate(g, insn[f]) ELSE insn[f]])
  ELSE [g EXCEPT !.fault = "KeyError"]

EmitDma(g, s) ==
  LET h == IF s.loc.total = -1 THEN g ELSE ResolveStaging(g, s.loc.name, s.loc.total)
      known == IF s.loc.total = -1 THEN h.layout ELSE h.staging
  IN  IF s.loc.name \in DOMAIN known /\ Resolvable(h, s.spot)
      THEN Transfer(h, s.op, Locate(h, s.spot), s.bytes, s.reg, known[s.loc.name] + s.loc.delta)
      ELSE [g EXCEPT !.fault = "KeyError"]

DoStep(g, s) ==
  CASE s.do = "new"      -> Allocate(g, s.buf, s.name, s.bytes)
    [] s.do = "need"     -> Require(g, s.buf, s.name, s.bytes)
    [] s.do = "free"     -> Release(g, s.buf, s.name)
    [] s.do = "rename"   -> Rename(g, s.buf, s.old, s.new)
    [] s.do = "single"   -> [g EXCEPT !.nextSingle = (@ + 1) % Len(OddPool)]
    [] s.do = "insn"     -> EmitInsn(g, s.insn)
    [] s.do = "dma"      -> EmitDma(g, s)
    [] s.do = "unknown"  -> [g EXCEPT !.fault = "NotImplementedError"]

\* The first exception ends the compile.
Perform(g, script) ==
  FoldStretches(LAMBDA h, s : IF h.fault = "none" THEN DoStep(h, s) ELSE h, g, script)

=============================================================================
