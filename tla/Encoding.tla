------------------------------ MODULE Encoding ------------------------------
(***************************************************************************)
(* The 64-bit instruction words of encoding.py: where each operand of each *)
(* format lies, what is cut off on the way in, and what comes back out.    *)
(*                                                                         *)
(* A word is the set of its bits that are 1.  An instruction is a record   *)
(* of Isa with the operands its format has; a place in an SRAM buffer is a *)
(* record [buf, off].  Operands that are always 0 are left out.            *)
(***************************************************************************)
EXTENDS Isa, Integers, Sequences, FiniteSetsExt

CONSTANTS
  ImmBits,    \* width of the immediate of SET_ADDR_LO and SET_ADDR_HI: 28
  OffBits     \* width of the dram_off field of LOAD and STORE: 16

ASSUME WidthAssumption == ImmBits \in 1 .. 28 /\ OffBits \in 1 .. 16

Opcodes ==
  << "NOP", "HALT", "SYNC", "CONFIG_TILE", "SET_SCALE", "SET_ADDR_LO", "SET_ADDR_HI",
     "LOAD", "STORE", "BUF_COPY", "MATMUL", "REQUANT", "SCALE_MUL", "VADD", "SOFTMAX",
     "LAYERNORM", "GELU", "REQUANT_PC", "SOFTMAX_ATTNV", "DEQUANT_ADD" >>

OpcodeOf(op) == (CHOOSE k \in DOMAIN Opcodes : Opcodes[k] = op) - 1

Buffers == << "abuf", "wbuf", "accum" >>
BufId(buf) == (CHOOSE k \in DOMAIN Buffers : Buffers[k] = buf) - 1

RTypeOps == {"MATMUL", "SCALE_MUL", "VADD"} \union SfuOps
AddrOps  == {"SET_ADDR_LO", "SET_ADDR_HI"}

MaskBit == [dma |-> 1, sys |-> 2, sfu |-> 4]

-----------------------------------------------------------------------------

\* A field holds the low bits of its value, whatever the value.
Field(value, shift, width) ==
  {shift + b : b \in {x \in 0 .. width - 1 : (value \div 2^x) % 2 = 1}}

FieldOf(word, shift, width) ==
  MapThenSumSet(LAMBDA b : IF shift + b \in word THEN 2^b ELSE 0, 0 .. width - 1)

PlaceField(place, bufShift, offShift) ==
  Field(BufId(place.buf), bufShift, 2) \union Field(place.off, offShift, 16)

PlaceOf(word, bufShift, offShift) ==
  [buf |-> Buffers[FieldOf(word, bufShift, 2) + 1], off |-> FieldOf(word, offShift, 16)]

Payload(insn) ==
  CASE insn.op \in RTypeOps ->
         PlaceField(insn.src1, 57, 41) \union PlaceField(insn.src2, 39, 23)
           \union PlaceField(insn.dst, 21, 5) \union Field(insn.sreg, 1, 4)
    [] insn.op \in DmaOps ->
         PlaceField(insn.sram, 57, 41) \union Field(insn.len, 25, 16)
           \union Field(insn.reg, 23, 2) \union Field(insn.dramOff, 7, OffBits)
    [] insn.op = "BUF_COPY" ->
         PlaceField(insn.src1, 57, 41) \union PlaceField(insn.dst, 39, 23)
           \union Field(insn.len, 7, 16) \union Field(insn.srcRows, 1, 6)
           \union Field(insn.transpose, 0, 1)
    [] insn.op \in AddrOps ->
         Field(insn.reg, 57, 2) \union Field(insn.imm, 29, ImmBits)
    [] insn.op = "CONFIG_TILE" ->
         Field(insn.m, 49, 10) \union Field(insn.n, 39, 10) \union Field(insn.k, 29, 10)
    [] insn.op = "SET_SCALE" ->
         Field(insn.sreg, 55, 4) \union Field(insn.imm, 37, 16)
    [] insn.op = "SYNC" ->
         Field(MapThenSumSet(LAMBDA e : MaskBit[e], insn.mask), 56, 3)
    [] insn.op \in {"NOP", "HALT"} -> {}

Encode(insn) == Field(OpcodeOf(insn.op), 59, 5) \union Payload(insn)

OpOf(word) == Opcodes[FieldOf(word, 59, 5) + 1]

\* decode: the record that the executing machine sees.
Decode(word) ==
  LET op == OpOf(word)
  IN  CASE op \in RTypeOps ->
             [op |-> op, src1 |-> PlaceOf(word, 57, 41), src2 |-> PlaceOf(word, 39, 23),
              dst |-> PlaceOf(word, 21, 5), sreg |-> FieldOf(word, 1, 4)]
        [] op \in DmaOps ->
             [op |-> op, sram |-> PlaceOf(word, 57, 41), len |-> FieldOf(word, 25, 16),
              reg |-> FieldOf(word, 23, 2), dramOff |-> FieldOf(word, 7, OffBits)]
        [] op = "BUF_COPY" ->
             [op |-> op, src1 |-> PlaceOf(word, 57, 41), dst |-> PlaceOf(word, 39, 23),
              len |-> FieldOf(word, 7, 16), srcRows |-> FieldOf(word, 1, 6),
              transpose |-> FieldOf(word, 0, 1)]
        [] op \in AddrOps ->
             [op |-> op, reg |-> FieldOf(word, 57, 2), imm |-> FieldOf(word, 29, ImmBits)]
        [] op = "CONFIG_TILE" ->
             [op |-> op, m |-> FieldOf(word, 49, 10), n |-> FieldOf(word, 39, 10),
              k |-> FieldOf(word, 29, 10)]
        [] op = "SET_SCALE" ->
             [op |-> op, sreg |-> FieldOf(word, 55, 4), imm |-> FieldOf(word, 37, 16)]
        [] op = "SYNC" ->
             [op |-> op, mask |-> {e \in AsyncEngines :
                                     (FieldOf(word, 56, 3) \div MaskBit[e]) % 2 = 1}]
        [] op \in {"NOP", "HALT"} -> [op |-> op]

=============================================================================
