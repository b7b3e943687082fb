-------------------------------- MODULE Sram --------------------------------
(***************************************************************************)
(* The three SRAM buffers with their two ports, how matrices lie in them,  *)
(* and what the engines that use both ports do to an element.              *)
(*                                                                         *)
(* A row has 128 bits: half a tile line of FP16 elements in ABUF and WBUF, *)
(* a quarter of a tile line of FP32 elements in ACCUM.  The code's tiles   *)
(* are 16 wide.  An element is a term: where it came from and what was     *)
(* done to it, rounding to FP16 included; widening to FP32 is exact.       *)
(***************************************************************************)
EXTENDS Naturals

CONSTANTS
  Dim,      \* SYS_DIM
  BufRows   \* ABUF_ROWS, WBUF_ROWS, ACCUM_ROWS

Buffers == {"ABUF", "WBUF", "ACCUM"}

ASSUME DimAssumption == Dim \in Nat \ {0} /\ Dim % 4 = 0
ASSUME RowAssumption == BufRows \in [Buffers -> Nat]

VARIABLES
  mem,      \* the buffers
  rdataA,   \* the read data of port A, one cycle after the access
  rdataB    \* the same of port B, which only reads

sram == <<mem, rdataA, rdataB>>

Half  == Dim \div 2
Group == Dim \div 4

Lanes(buf) == IF buf = "ACCUM" THEN Group ELSE Half

\* A cycle without an access on a port leaves its read data with a word
\* nobody asked for: the register follows the buffer the idle engines select.
NoRow == [l \in 0 .. Half - 1 |-> <<"unread">>]

QuietA == rdataA' = NoRow /\ UNCHANGED mem
QuietB == rdataB' = NoRow

ReadA(buf, row) == rdataA' = mem[buf][row] /\ UNCHANGED mem
ReadB(buf, row) == rdataB' = mem[buf][row]

\* Write first: the read data is the word just written.
WriteA(buf, row, word) ==
  /\ mem' = [mem EXCEPT ![buf][row] = word]
  /\ rdataA' = word

-----------------------------------------------------------------------------
(* A place is a buffer and a row offset; an instruction has tile counts m  *)
(* and n, so a matrix has m * Dim lines of n tiles.                        *)

Place == [buf : Buffers, off : Nat]

LineRows(buf, n) == IF buf = "ACCUM" THEN 4 * n ELSE 2 * n

MatrixRows(place, j) == j.m * Dim * LineRows(place.buf, j.n)

Fits(place, rows) == place.off + rows <= BufRows[place.buf]

RowsOf(place, rows) == place.off .. place.off + rows - 1

Element(memory, place, columns, line, column) ==
  LET i == line * columns + column
      l == Lanes(place.buf)
  IN  memory[place.buf][place.off + i \div l][i % l]

\* The memory with a matrix stored at a place, its elements given by a
\* function of line and column.
Stored(memory, place, rows, columns, value(_, _)) ==
  LET l == Lanes(place.buf)
      Word(row) == [x \in 0 .. l - 1 |->
                     LET i == (row - place.off) * l + x
                     IN  value(i \div columns, i % columns)]
  IN  [memory EXCEPT ![place.buf] =
         [row \in DOMAIN @ |-> IF row \in RowsOf(place, rows) THEN Word(row) ELSE @[row]]]

\* Reading a source while writing the destination row by row is sound when the
\* destination lies elsewhere or never runs ahead of the source.
NeverAhead(src, dst, srcRows, dstRows) ==
  \/ src.buf # dst.buf
  \/ RowsOf(src, srcRows) \intersect RowsOf(dst, dstRows) = {}
  \/ dst.off <= src.off

Fp16(x)   == <<"fp16", x>>
Scaled(x) == <<"scaled", x>>
Sum(x, y) == <<"sum", x, y>>
Gelu(x)   == <<"gelu", x>>

\* One output of a reduction over a line: its maximum and sum of exponentials
\* with one element, its mean and variance with one element and its weights.
Softmax(x, line)   == <<"softmax", x, line>>
Norm(x, line, g, b) == <<"norm", x, line, g, b>>

SramInit ==
  /\ mem = [b \in Buffers |->
             [r \in 0 .. BufRows[b] - 1 |-> [l \in 0 .. Lanes(b) - 1 |-> <<b, r, l>>]]]
  /\ rdataA = NoRow
  /\ rdataB = NoRow

=============================================================================
