---------------------------- MODULE GoldenModel ----------------------------
(***************************************************************************)
(* What each instruction of a compiled program does to the machine:        *)
(* golden_model/simulator_w8a16.py and simulator_w8a32.py over             *)
(* simulator.py, memory.py, dma.py, systolic_*.py, sfu_*.py and state.py.  *)
(* The two modes differ in elem, the bytes of an activation.               *)
(*                                                                         *)
(* Memory is made of cells of two bytes.  An FP16 number is one cell, an   *)
(* FP32 number two, the leading one first.  The finite numbers are the     *)
(* residues of a prime, so that a wrong, missing or stale operand shows in *)
(* the result; rounding to FP16 keeps the leading cell.  The attention     *)
(* mask's value swallows every finite addend and has exponential 0; NaN    *)
(* swallows everything.  The order of a sum is not modelled.               *)
(***************************************************************************)
EXTENDS VitConfig, Encoding, SequencesExt

Radix == 128
Prime == 16127             \* the finite numbers lie below 126 * Radix
MaskCell == 126            \* -65504, or -1e9 in FP32
NanCell  == 127
MaskValue == MaskCell * Radix
NaN       == NanCell * Radix

IsNan(x)    == x >= NaN
IsMasked(x) == x >= MaskValue /\ ~IsNan(x)

FpAdd(x, y) ==
  IF IsNan(x) \/ IsNan(y) THEN NaN
  ELSE IF IsMasked(x) \/ IsMasked(y) THEN MaskValue
  ELSE (x + y) % Prime

FpMul(x, y) ==
  IF IsNan(x) \/ IsNan(y) THEN NaN
  ELSE IF IsMasked(x) \/ IsMasked(y) THEN MaskValue
  ELSE (x * y) % Prime

FpSum(terms) == FoldLeft(FpAdd, 0, terms)

\* Rounding to FP16 and widening again.
ToFp16(x) == (x \div Radix) * Radix

\* The row functions of the SFU.  Layernorm depends on every column of the row
\* and on where it stands.
NormRow(row, gamma, beta) ==
  LET h == FpSum([c \in DOMAIN row |-> FpMul(c, row[c])])
  IN  [c \in DOMAIN row |-> FpAdd(FpMul(FpAdd(row[c], h), gamma[c]), beta[c])]

Exponential(x) == IF IsNan(x) THEN NaN ELSE IF IsMasked(x) THEN 0 ELSE (x * x + 5) % Prime

SoftmaxRow(row) ==
  LET denom == FpSum([c \in DOMAIN row |-> Exponential(row[c])])
  IN  [c \in DOMAIN row |-> FpMul(Exponential(row[c]), FpAdd(FpMul(denom, denom), 1))]

Gelu(x) == FpAdd(FpMul(x, FpMul(x, x)), FpMul(x, 3))

-----------------------------------------------------------------------------
(* Memory.                                                                 *)

CellBytes == 2
CellsIn(units) == (units * UNIT) \div CellBytes

\* A use of memory: the first unit and the number of cells.
Use(place, cells) == [place |-> place, cells |-> cells]

Holds(m, use) ==
  CellsIn(use.place.off) + use.cells <= Len(m.sram[use.place.buf])

Fail(m, error) == [m EXCEPT !.fault = error]

\* Each helper checks the end of what it touches and raises.
Guarded(m, uses, next) ==
  IF \A use \in uses : Holds(m, use) THEN next ELSE Fail(m, "SRAMAccessError")

ReadCells(m, place, n) ==
  SubSeq(m.sram[place.buf], CellsIn(place.off) + 1, CellsIn(place.off) + n)

Overlay(whole, first, part) ==
  [k \in DOMAIN whole |->
     IF k > first /\ k <= first + Len(part) THEN part[k - first] ELSE whole[k]]

WriteCells(m, place, cells) ==
  [m EXCEPT !.sram[place.buf] = Overlay(@, CellsIn(place.off), cells)]

ReadFp16(m, place, n) ==
  LET cells == ReadCells(m, place, n) IN [k \in 1 .. n |-> cells[k] * Radix]

ReadFp32(m, place, n) ==
  LET cells == ReadCells(m, place, 2 * n)
  IN  [k \in 1 .. n |-> cells[2 * k - 1] * Radix + cells[2 * k]]

WriteFp16(m, place, numbers) ==
  WriteCells(m, place, [k \in DOMAIN numbers |-> numbers[k] \div Radix])

Fp32Cells(numbers) ==
  [k \in 1 .. 2 * Len(numbers) |->
     IF k % 2 = 1 THEN numbers[(k + 1) \div 2] \div Radix ELSE numbers[k \div 2] % Radix]

WriteFp32(m, place, numbers) == WriteCells(m, place, Fp32Cells(numbers))

\* ACCUM is FP32 in both modes; the other buffers hold activations.
IsWide(place, elem) == place.buf = "accum" \/ elem = 4

Tile(place, n, elem) == Use(place, IF IsWide(place, elem) THEN 2 * n ELSE n)

ReadAct(m, place, n, elem) ==
  IF IsWide(place, elem) THEN ReadFp32(m, place, n) ELSE ReadFp16(m, place, n)

WriteAct(m, place, numbers, elem) ==
  IF IsWide(place, elem) THEN WriteFp32(m, place, numbers) ELSE WriteFp16(m, place, numbers)

-----------------------------------------------------------------------------
(* DMA.  An address is a pair of what SET_ADDR_HI and SET_ADDR_LO wrote.    *)

NoTiles == [m |-> -1, n |-> -1, k |-> -1]

EffectiveAddr(m, insn) ==
  m.addr[insn.reg].hi * 2^ImmBits + m.addr[insn.reg].lo + insn.dramOff * UNIT

\* Cells of DRAM behind the program; -1 for an address inside it.
DramIndex(m, insn) ==
  IF EffectiveAddr(m, insn) < m.dataBase THEN -1
  ELSE (EffectiveAddr(m, insn) - m.dataBase) \div CellBytes

Transferred(insn) == CellsIn(insn.len)

OutOfDram(m, insn) ==
  \/ DramIndex(m, insn) = -1
  \/ DramIndex(m, insn) + Transferred(insn) > Len(m.dram)

\* Stricter than dma.py: an address in the program, or behind the image, is
\* refused, where the simulator's array is larger than the image.
ExecuteLoad(m, insn) ==
  IF OutOfDram(m, insn) THEN Fail(m, "DRAMAccessError")
  ELSE LET from == DramIndex(m, insn)
       IN  Guarded(m, {Use(insn.sram, Transferred(insn))},
                   WriteCells(m, insn.sram, SubSeq(m.dram, from + 1, from + Transferred(insn))))

ExecuteStore(m, insn) ==
  Guarded(m, {Use(insn.sram, Transferred(insn))},
          IF OutOfDram(m, insn) THEN Fail(m, "DRAMAccessError")
          ELSE [m EXCEPT !.dram = Overlay(@, DramIndex(m, insn),
                                          ReadCells(m, insn.sram, Transferred(insn)))])

\* Number r, c of the source becomes number c, r.
Transposed(m, insn, elem) ==
  LET wide  == elem \div CellBytes
      rows  == insn.srcRows * TILE
      cols  == (Transferred(insn) \div rows) \div wide
      cells == ReadCells(m, insn.src1, Transferred(insn))
  IN  [k \in 1 .. rows * cols * wide |->
         LET number == (k - 1) \div wide
             r == number % rows
             c == number \div rows
         IN  cells[(r * cols + c) * wide + ((k - 1) % wide) + 1]]

CopyCells(m, insn, cells) ==
  Guarded(m, {Use(insn.src1, Transferred(insn)), Use(insn.dst, Transferred(insn))},
          WriteCells(m, insn.dst, cells))

ExecuteBufCopy(m, insn) == CopyCells(m, insn, ReadCells(m, insn.src1, Transferred(insn)))

CopyTransposing(m, insn, elem) == CopyCells(m, insn, Transposed(m, insn, elem))

-----------------------------------------------------------------------------
(* Operations on tiles, their sizes from CONFIG_TILE.                      *)

RowsNow(m) == (m.tile.m + 1) * TILE
ColsNow(m) == (m.tile.n + 1) * TILE
SumsNow(m) == (m.tile.k + 1) * TILE

\* Number r, c of a tile of the given columns, both from 0.
At(numbers, cols, r, c) == numbers[r * cols + c + 1]

RowAt(numbers, cols, r) == SubSeq(numbers, r * cols + 1, (r + 1) * cols)

\* The tile whose row r, from 0, is Row(r).
Rows(n, Row(_)) == Each(n, Row)

ExecuteMatmul(m, insn, elem) ==
  LET s == RowsNow(m)  n == ColsNow(m)  k == SumsNow(m)
      a == ReadAct(m, insn.src1, s * k, elem)
      b == ReadAct(m, insn.src2, k * n, elem)
  IN  Guarded(m, {Tile(insn.src1, s * k, elem), Tile(insn.src2, k * n, elem), Tile(insn.dst, s * n, elem)},
        WriteFp32(m, insn.dst, Rows(s, LAMBDA r : [c \in 1 .. n |->
          FpSum([j \in 1 .. k |-> FpMul(At(a, k, r, j - 1), At(b, n, j - 1, c - 1))])])))

ExecuteScaleMul(m, insn, elem) ==
  LET n == RowsNow(m) * ColsNow(m)
      x == ReadAct(m, insn.src1, n, elem)
  IN  Guarded(m, {Tile(insn.src1, n, elem), Tile(insn.dst, n, elem)},
        WriteAct(m, insn.dst, [k \in 1 .. n |-> FpMul(x[k], m.scale[insn.sreg])], elem))

\* Elementwise in ABUF; in ACCUM one row is added to every row.
ExecuteVadd(m, insn, elem) ==
  LET cols == ColsNow(m)
      n == RowsNow(m) * cols
      other == IF insn.src1.buf = "accum" THEN cols ELSE n
      x == ReadAct(m, insn.src1, n, elem)
      y == ReadAct(m, insn.src2, other, elem)
  IN  IF insn.src1.buf = "wbuf" THEN Fail(m, "IllegalBufferError")
      ELSE Guarded(m, {Tile(insn.src1, n, elem), Tile(insn.src2, other, elem), Tile(insn.dst, n, elem)},
             WriteAct(m, insn.dst, [k \in 1 .. n |-> FpAdd(x[k], y[((k - 1) % other) + 1])], elem))

\* Gamma, then beta, both FP16.
ExecuteLayernorm(m, insn, elem) ==
  LET s == RowsNow(m)  n == ColsNow(m)
      x  == ReadAct(m, insn.src1, s * n, elem)
      gb == ReadFp16(m, insn.src2, 2 * n)
  IN  Guarded(m, {Tile(insn.src1, s * n, elem), Use(insn.src2, 2 * n), Tile(insn.dst, s * n, elem)},
        WriteAct(m, insn.dst,
          Rows(s, LAMBDA r : NormRow(RowAt(x, n, r), RowAt(gb, n, 0), RowAt(gb, n, 1))),
          elem))

ExecuteSoftmax(m, insn, elem) ==
  LET s == RowsNow(m)  n == ColsNow(m)
      x == ReadAct(m, insn.src1, s * n, elem)
  IN  Guarded(m, {Tile(insn.src1, s * n, elem), Tile(insn.dst, s * n, elem)},
        WriteAct(m, insn.dst, Rows(s, LAMBDA r : SoftmaxRow(RowAt(x, n, r))), elem))

ExecuteGelu(m, insn, elem) ==
  LET n == RowsNow(m) * ColsNow(m)
      x == ReadAct(m, insn.src1, n, elem)
  IN  Guarded(m, {Tile(insn.src1, n, elem), Tile(insn.dst, n, elem)},
        WriteAct(m, insn.dst, [k \in 1 .. n |-> Gelu(x[k])], elem))

-----------------------------------------------------------------------------
(* The dispatch.                                                           *)

TileUses == {"MATMUL", "SCALE_MUL", "VADD"} \union SfuOps

Unconfigured(m, insn) == insn.op \in TileUses /\ m.tile = NoTiles

\* _execute of Simulator: what no activation's width matters to.
ExecuteBase(m, insn) ==
  CASE insn.op \in {"NOP", "SYNC"} -> m
    [] insn.op = "HALT"        -> [m EXCEPT !.halted = TRUE]
    [] insn.op = "CONFIG_TILE" -> [m EXCEPT !.tile = [m |-> insn.m, n |-> insn.n, k |-> insn.k]]
    [] insn.op = "SET_SCALE"   -> [m EXCEPT !.scale[insn.sreg] = insn.imm]
    [] insn.op = "SET_ADDR_LO" -> [m EXCEPT !.addr[insn.reg].lo = insn.imm]
    [] insn.op = "SET_ADDR_HI" -> [m EXCEPT !.addr[insn.reg].hi = insn.imm]
    [] insn.op = "LOAD"        -> ExecuteLoad(m, insn)
    [] insn.op = "STORE"       -> ExecuteStore(m, insn)
    [] insn.op = "BUF_COPY"    -> ExecuteBufCopy(m, insn)

\* The overriding dispatch of SimulatorW8A16, opcodes of compiled programs only.
ExecuteW8A16(m, insn) ==
  IF Unconfigured(m, insn)
  THEN Fail(m, "ConfigError")
  ELSE CASE insn.op = "MATMUL"    -> ExecuteMatmul(m, insn, 2)
         [] insn.op = "LAYERNORM" -> ExecuteLayernorm(m, insn, 2)
         [] insn.op = "SOFTMAX"   -> ExecuteSoftmax(m, insn, 2)
         [] insn.op = "GELU"      -> ExecuteGelu(m, insn, 2)
         [] insn.op = "SCALE_MUL" -> ExecuteScaleMul(m, insn, 2)
         [] insn.op = "VADD"      -> ExecuteVadd(m, insn, 2)
         [] insn.op = "BUF_COPY" /\ insn.transpose = 1 -> CopyTransposing(m, insn, 2)
         [] OTHER                 -> ExecuteBase(m, insn)

ExecuteMatmulW8A32(m, insn)    == ExecuteMatmul(m, insn, 4)
ExecuteLayernormW8A32(m, insn) == ExecuteLayernorm(m, insn, 4)
ExecuteSoftmaxW8A32(m, insn)   == ExecuteSoftmax(m, insn, 4)
ExecuteGeluW8A32(m, insn)      == ExecuteGelu(m, insn, 4)
ExecuteScaleMulW8A32(m, insn)  == ExecuteScaleMul(m, insn, 4)
ExecuteVaddW8A32(m, insn)      == ExecuteVadd(m, insn, 4)
CopyTransposingW8A32(m, insn)  == CopyTransposing(m, insn, 4)

ExecuteW8A32(m, insn) ==
  IF Unconfigured(m, insn)
  THEN Fail(m, "ConfigError")
  ELSE CASE insn.op = "MATMUL"    -> ExecuteMatmulW8A32(m, insn)
         [] insn.op = "LAYERNORM" -> ExecuteLayernormW8A32(m, insn)
         [] insn.op = "SOFTMAX"   -> ExecuteSoftmaxW8A32(m, insn)
         [] insn.op = "GELU"      -> ExecuteGeluW8A32(m, insn)
         [] insn.op = "SCALE_MUL" -> ExecuteScaleMulW8A32(m, insn)
         [] insn.op = "VADD"      -> ExecuteVaddW8A32(m, insn)
         [] insn.op = "BUF_COPY" /\ insn.transpose = 1 -> CopyTransposingW8A32(m, insn)
         [] OTHER                 -> ExecuteBase(m, insn)

-----------------------------------------------------------------------------
(* The machine.                                                            *)

\* A MachineState; fill is what SRAM and registers hold, 0 in the simulator and
\* anything on hardware that has run before.
MachineState(sizes, fill) ==
  [sram |-> [buf \in DOMAIN sizes |-> [k \in 1 .. sizes[buf] \div CellBytes |-> fill]],
   dram |-> <<>>, words |-> <<>>, dataBase |-> 0,
   scale |-> [s \in 0 .. 15 |-> fill],
   addr |-> [r \in 0 .. 3 |-> [hi |-> fill, lo |-> fill]],
   tile |-> NoTiles, pc |-> 0, halted |-> FALSE, fault |-> "none"]

\* load_program: the words at address 0, the data section at dataBase.
LoadProgram(state, words, dataBase, data) ==
  [state EXCEPT !.words = words, !.dataBase = dataBase, !.dram = data,
                !.pc = 0, !.halted = FALSE]

\* step: fetch and decode, or complain that the program has no such word.
PastEnd(m) == m.pc >= Len(m.words)

Fetched(m) == Decode(m.words[m.pc + 1])

=============================================================================
