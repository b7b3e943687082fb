-------------------------------- MODULE Isa --------------------------------
(***************************************************************************)
(* The instruction set as the control unit sees it: the opcode enumeration *)
(* of taccel_pkg.sv, the legality checks of decode_unit.sv and the choice  *)
(* of fault code in control_unit.sv.  Operands that no control decision    *)
(* reads (offsets, lengths, immediates) are abstracted away.               *)
(***************************************************************************)
EXTENDS Naturals, FiniteSets

\* The engines a SYNC resource mask can name (bit 0, bit 1, bit 2).
AsyncEngines == {"dma", "sys", "sfu"}

DmaOps       == {"LOAD", "STORE"}
SfuOps       == {"SOFTMAX", "LAYERNORM", "GELU"}
TileHelperOps == {"SCALE_MUL", "VADD"}
HelperOps    == TileHelperOps \union {"BUF_COPY"}
ConfigOps    == {"NOP", "CONFIG_TILE", "SET_SCALE", "SET_ADDR_LO", "SET_ADDR_HI"}

\* Encodings the ISA keeps and this datapath does not implement.
DroppedOps   == {"REQUANT", "REQUANT_PC", "SOFTMAX_ATTNV", "DEQUANT_ADD"}

\* The twelve encodings 0x14 .. 0x1F.
ReservedOps  == {"RESERVED"}

\* Operations that use the tile geometry of CONFIG_TILE.
TileOps      == TileHelperOps \union SfuOps \union {"MATMUL"}

\* Formats with buffer identifiers: R-type, M-type and B-type.
BufferOps    == TileOps \union DmaOps \union DroppedOps \union {"BUF_COPY"}

Ops == ConfigOps \union DmaOps \union HelperOps \union TileOps
         \union DroppedOps \union ReservedOps \union {"HALT", "SYNC"}

\* mask is the SYNC resource mask, badBuf says that some buffer field of the
\* word is 0b11, indirect that SET_SCALE names a buffer as its source.
Instruction ==
  [op : Ops, mask : SUBSET AsyncEngines, badBuf : BOOLEAN, indirect : BOOLEAN]

FaultCodes == {"ILLEGAL_OP", "DRAM_OOB", "SRAM_OOB", "NO_CONFIG",
               "BAD_BUF", "UNSUPPORTED_OP"}

Plain(o)  == [op |-> o, mask |-> {}, badBuf |-> FALSE, indirect |-> FALSE]
Sync(m)   == [Plain("SYNC") EXCEPT !.mask = m]

-----------------------------------------------------------------------------

Illegal(i) ==
  \/ i.op \in ReservedOps \union DroppedOps
  \/ i.op \in BufferOps /\ i.badBuf

IllegalCode(i) ==
  CASE i.op \in ReservedOps -> "ILLEGAL_OP"
    [] i.op \in DroppedOps  -> "UNSUPPORTED_OP"
    [] OTHER                -> "BAD_BUF"

Unsupported(i) == i.op = "SET_SCALE" /\ i.indirect

\* The decoder, then the control unit, reject the word before it dispatches.
Rejected(i)   == Illegal(i) \/ Unsupported(i)
RejectCode(i) == IF Illegal(i) THEN IllegalCode(i) ELSE "UNSUPPORTED_OP"

=============================================================================
