---------------------------- MODULE CodeGenW8A16 ----------------------------
(***************************************************************************)
(* CodeGeneratorW8A16 of codegen_w8a16.py: activations of two bytes, so    *)
(* every way out of ACCUM narrows, and the generation loop.                *)
(***************************************************************************)
EXTENDS NodeHandlers

ScaleOneReg == 15     \* outside every pool of the scale register allocator
ScaleOne    == 1

\* A narrowing SCALE_MUL by 1.
AccumToAbufW8A16(rows, cols, dst) ==
  ConfigTile(rows, cols, TILE)
  \o Compute("SCALE_MUL", Accum(0), Unused, dst, ScaleOneReg)
  \o SyncOn("dma")

\* A strip narrows into a scratch region, whose rows are then copied.
ScatterW8A16(n, strip, j) ==
  LET scratch == AuxStrip("_narrow_", n.name, j)
  IN  New("abuf", scratch, PadRowsOf(n) * strip * 2)
      \o AccumToAbufW8A16(PadRowsOf(n), strip, Spot("abuf", scratch, 0))
      \o CopyRows(n, strip, j, 2,
                  [r \in 0 .. PadRowsOf(n) - 1 |-> Spot("abuf", scratch, (r * strip * 2) \div UNIT)])
      \o Free("abuf", scratch)

MoveW8A16(n, strip, j) ==
  IF strip = PadColsOf(n)
  THEN AccumToAbufW8A16(PadRowsOf(n), strip, Spot("abuf", n.name, 0))
  ELSE ScatterW8A16(n, strip, j)

MatmulW8A16(g, n) ==
  LET strip == StripOf(g, n, 2)
  IN  MatmulStart(g, n, 2)
      \o Each(PadColsOf(n) \div strip, LAMBDA j :
           MatmulStrip(g, n, strip, j, 2) \o MoveW8A16(n, strip, j))

AttnVW8A16(g, n) == AttnVHandler(g, n, 2) \o MoveW8A16(n, PadColsOf(n), 0)

\* _emit_node.
NodeW8A16(g, n) ==
  CASE n.op = "init_residual_tile" -> InitResidualTile(g, n, 2)
    [] n.op = "tile_load"          -> TileLoadHandler(g, n, 2)
    [] n.op = "tile_save"          -> TileSaveHandler(g, n, 2)
    [] n.op = "concat_heads_tile"  -> ConcatHeadsTile(g, n, 2)
    [] n.op = "layernorm"          -> LayernormHandler(n, 2)
    [] n.op = "matmul"             -> MatmulW8A16(g, n)
    [] n.op = "matmul_qkt"         -> QktHandler(g, n, 2)
    [] n.op = "matmul_attn_v"      -> AttnVW8A16(g, n)
    [] n.op \in {"softmax", "scale_mul"} -> RenameOnly(n)
    [] n.op = "gelu"               -> GeluHandler(n, 2)
    [] n.op = "vadd"               -> VaddHandler(n, 2)
    [] n.op = "cls_extract"        -> ClsExtract(g, n, 2)
    [] n.op \in {"cls_prepend", "pos_embed_add", "concat_heads"} -> << [do |-> "unknown"] >>

\* No load is put off in this mode.
DeferredW8A16(nodes) == <<>>

\* Before the first node, generate sets the register of the constant 1.
PrologueW8A16 == SetScale(ScaleOneReg, ScaleOne)

\* One turn of the loop of generate: the node, then the regions read for the
\* last time.
GenerateNode(g, nodes, k, script) ==
  LET h == Perform(g, script)
  IN  IF h.fault # "none" THEN h
      ELSE FoldLeft(LAMBDA x, name : Release(x, "abuf", name), h, SetToSeq(DeadAfter(nodes, k)))

GenerateNodeW8A16(g, nodes, k) == GenerateNode(g, nodes, k, NodeW8A16(g, nodes[k]))

-----------------------------------------------------------------------------
(* The data section, _layout_weights: parameters in the order given, then  *)
(* zeros, the attention mask and room for the input.                       *)

\* One tensor of the data section: its array is rows by cols, of which only
\* the first logRows by logCols come from the model.
Entry(name, kind, logRows, logCols, rows, cols, elem) ==
  [name |-> name, kind |-> kind, logRows |-> logRows, logCols |-> logCols,
   rows |-> rows, cols |-> cols, elem |-> elem]

BytesOf(entry) == entry.rows * entry.cols * entry.elem

DataSection(params, c, elem) ==
  params \o
  << Entry(ZeroPad, "zero", 0, 0, PadRows(c), HeadDim(c), elem),
     Entry(AttnMask, "mask", 1, SeqLen(c), 1, SeqLenPad(c), elem),
     Entry(InputPatches, "data", NumPatches(c), c.embed, NumPatches(c), c.embed, elem) >>

DataSectionW8A16(params, c) == DataSection(params, c, 2)

\* Where entry k starts.
OffsetOf(section, k) ==
  FoldStretches(LAMBDA sum, entry : sum + BytesOf(entry), 0, SubSeq(section, 1, k - 1))

LayoutOf(section) ==
  LET at(name) == CHOOSE k \in DOMAIN section : section[k].name = name
  IN  [name \in {section[k].name : k \in DOMAIN section} |-> OffsetOf(section, at(name))]

=============================================================================
