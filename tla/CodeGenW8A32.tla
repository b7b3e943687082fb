---------------------------- MODULE CodeGenW8A32 ----------------------------
(***************************************************************************)
(* CodeGeneratorW8A32 of codegen_w8a32.py: activations of four bytes, as   *)
(* wide as ACCUM, so everything leaves ACCUM by flat copies; and value     *)
(* tiles, too large beside queries and keys, are loaded late.  The rest    *)
(* repeats codegen_w8a16.py with ELEM_BYTES = 4.                           *)
(***************************************************************************)
EXTENDS CodeGenW8A16

AccumToAbufW8A32(rows, cols, dst) ==
  Copy(Accum(0), dst, (rows * cols * 4) \div UNIT) \o SyncOn("dma")

\* No scratch region: the rows are copied from ACCUM.
ScatterW8A32(n, strip, j) ==
  CopyRows(n, strip, j, 4,
           [r \in 0 .. PadRowsOf(n) - 1 |-> Accum((r * strip * 4) \div UNIT)])

MoveW8A32(n, strip, j) ==
  IF strip = PadColsOf(n)
  THEN AccumToAbufW8A32(PadRowsOf(n), strip, Spot("abuf", n.name, 0))
  ELSE ScatterW8A32(n, strip, j)

\* _mark_deferred_loads: loads whose only consumer is a matmul_attn_v.
DeferredW8A32(nodes) ==
  LET users(name) == {k \in DOMAIN nodes : name \in InputsOf(nodes[k])}
      late == {k \in DOMAIN nodes :
                 /\ nodes[k].op = "tile_load"
                 /\ Cardinality(users(nodes[k].name)) = 1
                 /\ \A j \in users(nodes[k].name) : nodes[j].op = "matmul_attn_v"}
  IN  [name \in {nodes[k].name : k \in late} |->
         nodes[CHOOSE k \in late : nodes[k].name = name]]

InitResidualTileW8A32(g, n) == InitResidualTile(g, n, 4)
TileLoadW8A32(g, n)         == TileLoadHandler(g, n, 4)
TileSaveW8A32(g, n)         == TileSaveHandler(g, n, 4)
ConcatHeadsTileW8A32(g, n)  == ConcatHeadsTile(g, n, 4)
LayernormW8A32(n)           == LayernormHandler(n, 4)
QktW8A32(g, n)              == QktHandler(g, n, 4)
AttnVW8A32(g, n)            == AttnVHandler(g, n, 4) \o MoveW8A32(n, PadColsOf(n), 0)
GeluW8A32(n)                == GeluHandler(n, 4)
VaddW8A32(n)                == VaddHandler(n, 4)
ClsExtractW8A32(g, n)       == ClsExtract(g, n, 4)

MatmulW8A32(g, n) ==
  LET strip == StripOf(g, n, 4)
  IN  MatmulStart(g, n, 4)
      \o Each(PadColsOf(n) \div strip, LAMBDA j :
           MatmulStrip(g, n, strip, j, 4) \o MoveW8A32(n, strip, j))

NodeW8A32(g, n) ==
  CASE n.op = "init_residual_tile" -> InitResidualTileW8A32(g, n)
    [] n.op = "tile_load"          -> TileLoadW8A32(g, n)
    [] n.op = "tile_save"          -> TileSaveW8A32(g, n)
    [] n.op = "concat_heads_tile"  -> ConcatHeadsTileW8A32(g, n)
    [] n.op = "layernorm"          -> LayernormW8A32(n)
    [] n.op = "matmul"             -> MatmulW8A32(g, n)
    [] n.op = "matmul_qkt"         -> QktW8A32(g, n)
    [] n.op = "matmul_attn_v"      -> AttnVW8A32(g, n)
    [] n.op \in {"softmax", "scale_mul"} -> RenameOnly(n)
    [] n.op = "gelu"               -> GeluW8A32(n)
    [] n.op = "vadd"               -> VaddW8A32(n)
    [] n.op = "cls_extract"        -> ClsExtractW8A32(g, n)
    [] n.op \in {"cls_prepend", "pos_embed_add", "concat_heads"} -> << [do |-> "unknown"] >>

GenerateNodeW8A32(g, nodes, k) == GenerateNode(g, nodes, k, NodeW8A32(g, nodes[k]))

DataSectionW8A32(params, c) == DataSection(params, c, 4)

=============================================================================
