---------------------------- MODULE VitReference ----------------------------
(***************************************************************************)
(* What a compiled program is to compute: the model of graph_extract.py,   *)
(* evaluated node by node on whole, unpadded matrices, with parameters and *)
(* patches of the values below.  The order of the nodes and what they read *)
(* come from the graph before any pass; tiles, staging regions, buffers    *)
(* and addresses have no place here.                                       *)
(***************************************************************************)
EXTENDS Compiler, GoldenModel

-----------------------------------------------------------------------------
(* The values of the data section: different, as far as residues go, at    *)
(* every place of every tensor.                                            *)

Scatter(k, r, c) == k * 1009 + r * 211 + c * 37 + r * c * 13 + k * c * 5

InModel(entry, r, c) == r < entry.logRows /\ c < entry.logCols

ValueAt(section, k, r, c) ==
  LET entry == section[k]
  IN  CASE entry.kind = "zero" -> 0
        [] entry.kind = "mask" -> IF InModel(entry, r, c) THEN 0 ELSE MaskValue
        [] entry.kind \in {"param", "data"} ->
             IF ~InModel(entry, r, c) THEN 0
             ELSE IF entry.elem = 2 THEN (Scatter(k, r, c) % 125) * Radix
             ELSE Scatter(k, r, c) % 15991

EntryNumbers(section, k) ==
  Each(section[k].rows, LAMBDA r :
    [c \in 1 .. section[k].cols |-> ValueAt(section, k, r, c - 1)])

AsCells(numbers, elem) ==
  IF elem = 2 THEN [k \in DOMAIN numbers |-> numbers[k] \div Radix] ELSE Fp32Cells(numbers)

\* The data section as the compiler writes it, the input still missing.
DataCells(section) ==
  Each(Len(section), LAMBDA k :
    IF section[k + 1].kind = "data"
    THEN [j \in 1 .. BytesOf(section[k + 1]) \div CellBytes |-> 0]
    ELSE AsCells(EntryNumbers(section, k + 1), section[k + 1].elem))

EntryOf(section, name) == CHOOSE k \in DOMAIN section : section[k].name = name

InputCells(section) ==
  LET k == EntryOf(section, InputPatches)
  IN  AsCells(EntryNumbers(section, k), section[k].elem)

-----------------------------------------------------------------------------
(* The forward pass: a matrix is a sequence of rows.                       *)

\* Activations of two bytes are rounded where a node ends.
Stored(x, mode) == IF mode = "w8a16" THEN ToFp16(x) ELSE x

\* Entry r, c from 0.
Matrix(rows, cols, F(_, _)) ==
  Each(rows, LAMBDA r : << Each(cols, LAMBDA c : << F(r, c) >>) >>)

\* Row r is the sequence Row(r).
ByRows(rows, Row(_)) == Each(rows, LAMBDA r : << Row(r) >>)

El(matrix, r, c) == matrix[r + 1][c + 1]

Dot(a, r, b, c) == FpSum([k \in 1 .. Len(b) |-> FpMul(El(a, r, k - 1), El(b, k - 1, c))])

TensorOf(section, name) ==
  LET k == EntryOf(section, name)
  IN  Matrix(section[k].logRows, section[k].logCols, LAMBDA r, c : ValueAt(section, k, r, c))

\* The value of a node, given the values of the nodes before it.
Evaluate(n, vals, section, c, mode) ==
  LET Arg(k) == IF n.inputs[k] \in DOMAIN vals THEN vals[n.inputs[k]]
                ELSE IF n.inputs[k] = Global("embedded_patches") THEN TensorOf(section, InputPatches)
                ELSE TensorOf(section, n.inputs[k])
      a == Arg(1)
      b == Arg(2)
      StoredRow(row) == [k \in DOMAIN row |-> Stored(row[k], mode)]
      Entries(F(_, _)) == Matrix(n.rows, n.cols, LAMBDA r, k : Stored(F(r, k), mode))
  IN  CASE n.op = "cls_prepend"   -> b \o a
        [] n.op \in {"pos_embed_add", "vadd"} ->
             Entries(LAMBDA r, k : FpAdd(El(a, r, k), El(b, r, k)))
        [] n.op = "layernorm"     ->
             ByRows(n.rows, LAMBDA r : StoredRow(NormRow(a[r + 1], b[1], Arg(3)[1])))
        [] n.op = "matmul"        ->
             LET bias == TensorOf(section, n.attrs.bias)
             IN  Entries(LAMBDA r, k : FpAdd(Dot(a, r, b, k), El(bias, 0, k)))
        [] n.op = "matmul_qkt"    ->
             Matrix(n.rows, n.cols, LAMBDA r, k :
               FpSum([j \in 1 .. HeadDim(c) |-> FpMul(a[r + 1][j], b[k + 1][j])]))
        [] n.op = "scale_mul"     ->
             Matrix(n.rows, n.cols, LAMBDA r, k : FpMul(El(a, r, k), AttnScale))
        [] n.op = "softmax"       ->
             ByRows(n.rows, LAMBDA r : StoredRow(SoftmaxRow(a[r + 1])))
        [] n.op = "matmul_attn_v" -> Entries(LAMBDA r, k : Dot(a, r, b, k))
        [] n.op = "concat_heads"  ->
             ByRows(n.rows, LAMBDA r : Each(c.heads, LAMBDA h : Arg(h + 1)[r + 1]))
        [] n.op = "gelu"          -> Entries(LAMBDA r, k : Gelu(El(a, r, k)))
        [] n.op = "cls_extract"   -> << a[1] >>

Logits(c, mode) ==
  LET section == SectionOf(c, mode)
      values  == FoldStretches(LAMBDA vals, n : (n.name :> Evaluate(n, vals, section, c, mode)) @@ vals,
                               <<>>, ExtractVitGraph(c))
  IN  values[Global("classifier")][1]

=============================================================================
