----------------------------- MODULE MCDatapath -----------------------------
(***************************************************************************)
(* Instructions for both engines on buffers of a few tiles: in place,      *)
(* shifted into themselves, filling a buffer exactly, one row too long,    *)
(* and of every unsupported kind.                                          *)
(***************************************************************************)
EXTENDS DatapathInv

\* Numbers of rows below are for tiles 4 wide and grow with Dim.
Scaling == Dim \div 4

MCRows == [b \in Buffers |-> Scaling * (IF b = "WBUF" THEN 18 ELSE 34)]

A(off) == [buf |-> "ABUF", off |-> Scaling * off]
W(off) == [buf |-> "WBUF", off |-> Scaling * off]
C(off) == [buf |-> "ACCUM", off |-> Scaling * off]

Copy(src, dst, length) ==
  [op |-> "BUF_COPY", src1 |-> src, src2 |-> A(0), dst |-> dst, m |-> 1, n |-> 1,
   length |-> Scaling * length, srcRows |-> 0, transpose |-> FALSE]
Transpose(src, dst, length, srcRows) ==
  [Copy(src, dst, length) EXCEPT !.transpose = TRUE, !.srcRows = srcRows]
Vadd(src1, src2, dst, m, n) ==
  [Copy(src1, dst, 0) EXCEPT !.op = "VADD", !.src2 = src2, !.m = m, !.n = n]
Scale(src, dst, m, n) ==
  [Copy(src, dst, 0) EXCEPT !.op = "SCALE_MUL", !.m = m, !.n = n]

MCHelperJobs == {
  Copy(A(0), A(2), 5), Copy(A(2), A(0), 5), Copy(A(30), W(0), 0),
  Copy(A(0), W(14), 5), Copy(A(30), W(14), 5),
  Transpose(A(1), W(2), 8, 1), Transpose(W(0), A(0), 16, 1), Transpose(A(0), W(1), 16, 2),
  Transpose(A(1), A(12), 8, 1), Transpose(A(0), W(0), 8, 0), Transpose(A(0), W(0), 6, 1),
  Transpose(A(0), W(0), 8, 3), Transpose(A(0), W(0), 0, 0),
  Vadd(A(0), A(10), A(10), 1, 1), Vadd(A(10), W(2), A(8), 1, 1), Vadd(A(0), A(27), A(8), 1, 1),
  Vadd(C(0), W(14), C(0), 1, 2), Vadd(C(0), W(15), C(0), 1, 2),
  Vadd(C(0), W(17), C(16), 1, 1), Vadd(W(0), W(8), A(0), 1, 1),
  Scale(A(4), A(2), 2, 1), Scale(C(2), C(2), 1, 1), Scale(C(2), A(26), 1, 1),
  Scale(A(0), C(0), 1, 1)}

Line(op, src1, src2, dst, m, n) ==
  [op |-> op, src1 |-> src1, src2 |-> src2, dst |-> dst, m |-> m, n |-> n, lastSreg |-> FALSE]

MCSfuJobs == {
  Line("SOFTMAX", A(0), A(0), A(0), 1, 2), Line("SOFTMAX", C(2), A(0), A(18), 1, 2),
  Line("SOFTMAX", W(10), W(18), A(26), 1, 1), Line("SOFTMAX", C(0), A(0), A(27), 1, 1),
  Line("SOFTMAX", A(0), A(35), A(0), 1, 1), Line("SOFTMAX", A(0), A(0), C(0), 1, 1),
  Line("SOFTMAX", A(0), A(0), A(0), 1, 3),
  Line("LAYERNORM", A(2), W(14), A(2), 1, 1), Line("LAYERNORM", A(4), W(10), W(2), 1, 2),
  Line("LAYERNORM", A(0), W(15), A(0), 1, 1), Line("LAYERNORM", A(0), A(16), A(0), 1, 1),
  Line("GELU", A(5), A(0), A(4), 2, 1), Line("GELU", C(2), A(0), A(18), 1, 2),
  Line("GELU", W(0), A(0), A(0), 1, 1),
  [Line("GELU", A(0), A(0), A(0), 1, 1) EXCEPT !.lastSreg = TRUE]}

\* What the theorems about results take for granted of the instructions.
ASSUME CopiesKeepWidth

=============================================================================
