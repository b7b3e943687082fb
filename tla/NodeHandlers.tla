---------------------------- MODULE NodeHandlers ----------------------------
(***************************************************************************)
(* The handlers of the IR nodes that the two code generators have in       *)
(* common, but for the width of an element, elem bytes: what one node of   *)
(* the tiled graph becomes.  The maps point to codegen_w8a16.py;           *)
(* codegen_w8a32.py repeats the text with ELEM_BYTES = 4.                  *)
(***************************************************************************)
EXTENDS Emission

CONSTANT
  AttnScale   \* the immediate of the 1/sqrt(head_dim) scale

ZeroPad      == Global("__zero_pad__")
AttnMask     == Global("__attention_mask__")
InputPatches == Global("__input_patches__")

\* The name of an allocation that belongs to a node.
Aux(prefix, name)      == [name EXCEPT ![1] = prefix \o @]
AuxStrip(prefix, name, k) == [name EXCEPT ![1] = prefix \o @ \o "_s" \o ToString(k)]

PadRowsOf(n)     == PadDim(n.rows)
PadColsOf(n)     == PadDim(n.cols)
Padded(n, elem)  == PadRowsOf(n) * PadColsOf(n) * elem
StageLoc(a, elem) == Staged(a.region, a.total * elem, a.offset * elem)

-----------------------------------------------------------------------------
(* The residual stream and its staging regions.                            *)

\* Class token, patches and position embeddings of one tile.  A tile's last
\* rows may have no patch: the scratch region keeps what it held there.
InitResidualTile(g, n, elem) ==
  LET at      == n.attrs
      row     == g.c.embed * elem
      first   == at.tile * at.tileRows
      scratch == Aux("_init_tile_scratch", n.name)
      pos     == Aux("_init_pos", n.name)
      Patches(count, units, reg, from) ==
        IF count > 0
        THEN Fetch(Spot("abuf", scratch, units), count * row, reg,
                   Param(InputPatches, from * row))
        ELSE <<>>
  IN  New("abuf", scratch, at.tileRows * row)
      \o (IF first = 0
          THEN Fetch(Spot("abuf", scratch, 0), row, 0, Param(n.inputs[1], 0))
               \o Patches(MinOf(at.logicalRows - 1, NumPatches(g.c)), row \div UNIT, 1, 0)
          ELSE Patches(MinOf(at.logicalRows, NumPatches(g.c) - (first - 1)), 0, 0, first - 1))
      \o New("wbuf", pos, at.tileRows * row)
      \o Fetch(Spot("wbuf", pos, 0), at.tileRows * row, 1, Param(n.inputs[2], first * row))
      \o ConfigTile(at.tileRows, PadDim(g.c.embed), TILE)
      \o Compute("VADD", Spot("abuf", scratch, 0), Spot("wbuf", pos, 0),
                 Spot("abuf", scratch, 0), 0)
      \o Free("wbuf", pos)
      \o Save(Spot("abuf", scratch, 0), at.logicalRows * row, 2, StageLoc(at, elem))
      \o Free("abuf", scratch)

LoadTile(n, elem) ==
  New("abuf", n.name, Padded(n, elem))
  \o Fetch(Spot("abuf", n.name, 0), n.rows * n.cols * elem, 3, StageLoc(n.attrs, elem))

TileLoadHandler(g, n, elem) ==
  IF n.name \in DOMAIN g.deferred THEN <<>> ELSE LoadTile(n, elem)

TileSaveHandler(g, n, elem) ==
  LET from == IF n.inputs[1] \in Live(g, "abuf") THEN "abuf" ELSE "wbuf"
  IN  Save(Spot(from, n.inputs[1], 0), n.rows * n.cols * elem, 2, StageLoc(n.attrs, elem))
      \o (IF from = "wbuf" THEN Free("wbuf", n.inputs[1]) ELSE <<>>)

\* Row r of head h goes to its columns of row r of the tile.
ConcatHeadsTile(g, n, elem) ==
  LET at  == n.attrs
      hd  == HeadDim(g.c) * elem
      row == Len(n.inputs) * hd
  IN  New("abuf", n.name, Padded(n, elem))
      \o Each(Len(n.inputs), LAMBDA h : Each(at.logicalRows, LAMBDA r :
           Fetch(Spot("abuf", n.name, (r * row + h * hd) \div UNIT), hd, 3,
                 Staged(n.inputs[h + 1], at.total * elem, (at.tile * at.tileRows + r) * hd))))

-----------------------------------------------------------------------------
(* Elementwise operations.                                                 *)

\* Gamma and beta are FP16 in both modes.
LayernormHandler(n, elem) ==
  LET half == PadColsOf(n) * 2
      gb   == Aux("gb_", n.name)
  IN  ConfigTile(PadRowsOf(n), PadColsOf(n), TILE)
      \o New("wbuf", gb, 2 * half)
      \o Fetch(Spot("wbuf", gb, 0), half, 1, Param(n.inputs[2], 0))
      \o Fetch(Spot("wbuf", gb, half \div UNIT), half, 1, Param(n.inputs[3], 0))
      \o Need("abuf", n.inputs[1], Padded(n, elem))
      \o New("abuf", n.name, Padded(n, elem))
      \o Compute("LAYERNORM", Spot("abuf", n.inputs[1], 0), Spot("wbuf", gb, 0),
                 Spot("abuf", n.name, 0), 0)
      \o SyncOn("sfu")
      \o Free("wbuf", gb)

GeluHandler(n, elem) ==
  ConfigTile(PadRowsOf(n), PadColsOf(n), TILE)
  \o Need("abuf", n.inputs[1], Padded(n, elem))
  \o New("abuf", n.name, Padded(n, elem))
  \o Compute("GELU", Spot("abuf", n.inputs[1], 0), Unused,
             Spot("abuf", n.name, 0), 0)
  \o SyncOn("sfu")

\* The sum replaces the second operand, whose region takes the node's name.
VaddHandler(n, elem) ==
  ConfigTile(PadRowsOf(n), PadColsOf(n), TILE)
  \o Need("abuf", n.inputs[1], Padded(n, elem))
  \o Need("abuf", n.inputs[2], Padded(n, elem))
  \o Compute("VADD", Spot("abuf", n.inputs[1], 0), Spot("abuf", n.inputs[2], 0),
             Spot("abuf", n.inputs[2], 0), 0)
  \o PassOn("abuf", n.inputs[2], n.name)

ClsExtract(g, n, elem) ==
  Need("abuf", n.inputs[1], SeqLenPad(g.c) * PadDim(g.c.embed) * elem)
  \o New("abuf", n.name, PadDim(g.c.embed) * elem)
  \o Copy(Spot("abuf", n.inputs[1], 0), Spot("abuf", n.name, 0),
          (g.c.embed * elem) \div UNIT)

\* scale_mul and softmax were emitted with matmul_qkt: the region is renamed.
RenameOnly(n) == PassOn("wbuf", n.inputs[1], n.name)

-----------------------------------------------------------------------------
(* Matrix products.                                                        *)

\* _pick_n_strip: columns of a weight that fit the budget.
PickStrip(k, n, elem) ==
  LET most  == MaxOf(((WeightBudget \div (k * elem)) \div TILE) * TILE, TILE)
      clean == {s \in 1 .. most : s % TILE = most % TILE /\ n % s = 0}
  IN  IF k * n * elem <= WeightBudget THEN n
      ELSE IF clean = {} THEN most
      ELSE CHOOSE s \in clean : \A t \in clean : t <= s

\* The rows of a weight's array are the inner dimension of the product.
InnerDim(g, n) == PadDim(g.rows[n.inputs[2]])

StripOf(g, n, elem) == PickStrip(InnerDim(g, n), PadColsOf(n), elem)

MatmulStart(g, n, elem) ==
  Need("abuf", n.inputs[1], PadRowsOf(n) * InnerDim(g, n) * elem)
  \o New("abuf", n.name, Padded(n, elem))

\* One strip: its weights, the product, the bias.  What takes it out of ACCUM is
\* left to the two modes.
MatmulStrip(g, n, strip, j, elem) ==
  LET weight == n.inputs[2]
      k      == InnerDim(g, n)
      wide   == PadColsOf(n)
      slab   == AuxStrip("_w_", weight, j)
      bias   == AuxStrip("bias_", n.attrs.bias, j)
      from   == j * strip
      row    == strip * elem
  IN  New("wbuf", slab, k * row)
      \o (IF strip = wide
          THEN Fetch(Spot("wbuf", slab, 0), k * row, 0, Param(weight, 0))
          ELSE Each(k, LAMBDA r :
                 Fetch(Spot("wbuf", slab, (r * row) \div UNIT), row, 0,
                       Param(weight, (r * wide + from) * elem))))
      \o ConfigTile(PadRowsOf(n), strip, k)
      \o Compute("MATMUL", Spot("abuf", n.inputs[1], 0), Spot("wbuf", slab, 0), Accum(0), 0)
      \o SyncOn("sys")
      \o Free("wbuf", slab)
      \o New("wbuf", bias, row)
      \o Fetch(Spot("wbuf", bias, 0), row, 1, Param(n.attrs.bias, from * elem))
      \o Compute("VADD", Accum(0), Spot("wbuf", bias, 0), Accum(0), 0)
      \o Free("wbuf", bias)

\* The rows of a strip go to their columns of the output, row r from places[r].
CopyRows(n, strip, j, elem, places) ==
  Each(PadRowsOf(n), LAMBDA r :
    Copy(places[r],
         Spot("abuf", n.name, r * ((PadColsOf(n) * elem) \div UNIT) + (j * strip * elem) \div UNIT),
         (strip * elem) \div UNIT))
  \o SyncOn("dma")

\* Rows that a key or value tile lacks are zeroed; a tiled graph has none.
ZeroRows(name, rows, cols, elem) ==
  IF PadDim(rows) > rows
  THEN Fetch(Spot("abuf", name, (rows * cols * elem) \div UNIT), (PadDim(rows) - rows) * cols * elem,
             3, Param(ZeroPad, 0))
  ELSE <<>>

\* Definitions named "Mutant..." are defects the properties must notice; no
\* specification uses them.

MutantQktStrip(g, n, s, kt, mask, sreg, elem) ==    \* the mask is not added
  LET m  == PadRowsOf(n)
      hd == PadDim(HeadDim(g.c))
  IN  ConfigTile(TILE, m, hd)
      \o Compute("MATMUL", Spot("abuf", n.inputs[1], (s * TILE * hd * elem) \div UNIT),
                 Spot("wbuf", kt, 0), Accum(0), 0)
      \o SyncOn("sys")
      \o ConfigTile(TILE, m, TILE)
      \o Compute("SCALE_MUL", Accum(0), Unused, Accum(0), sreg)
      \o SyncOn("sfu")
      \o Compute("SOFTMAX", Accum(0), Unused,
                 Spot("wbuf", n.name, (s * TILE * m * elem) \div UNIT), 0)
      \o SyncOn("sfu")

\* Scores of one tile of queries against all keys, scaled, masked, normalised.
QktStrip(g, n, s, kt, mask, sreg, elem) ==
  LET m  == PadRowsOf(n)
      hd == PadDim(HeadDim(g.c))
  IN  ConfigTile(TILE, m, hd)
      \o Compute("MATMUL", Spot("abuf", n.inputs[1], (s * TILE * hd * elem) \div UNIT),
                 Spot("wbuf", kt, 0), Accum(0), 0)
      \o SyncOn("sys")
      \o ConfigTile(TILE, m, TILE)
      \o Compute("SCALE_MUL", Accum(0), Unused, Accum(0), sreg)
      \o SyncOn("sfu")
      \o Compute("VADD", Accum(0), Spot("wbuf", mask, 0), Accum(0), 0)
      \o Compute("SOFTMAX", Accum(0), Unused,
                 Spot("wbuf", n.name, (s * TILE * m * elem) \div UNIT), 0)
      \o SyncOn("sfu")

QktHandler(g, n, elem) ==
  LET m    == PadRowsOf(n)
      hd   == PadDim(HeadDim(g.c))
      kt   == Aux("kt_", n.name)
      mask == Aux("attn_mask_", n.name)
      sreg == OddPool[g.nextSingle + 1]
  IN  Need("abuf", n.inputs[2], m * hd * elem)
      \o ZeroRows(n.inputs[2], n.rows, hd, elem)
      \o New("wbuf", kt, hd * m * elem)
      \o CopyTransposed(Spot("abuf", n.inputs[2], 0), Spot("wbuf", kt, 0),
                        (m * hd * elem) \div UNIT, m)
      \o SyncOn("dma")
      \o Need("abuf", n.inputs[1], m * hd * elem)
      \o New("wbuf", n.name, m * m * elem)
      \o New("wbuf", mask, SeqLenPad(g.c) * elem)
      \o Fetch(Spot("wbuf", mask, 0), SeqLenPad(g.c) * elem, 0, Param(AttnMask, 0))
      \o TakeSingle
      \o SetScale(sreg, AttnScale)
      \o Each(m \div TILE, LAMBDA s : QktStrip(g, n, s, kt, mask, sreg, elem))
      \o Free("wbuf", mask)
      \o Free("wbuf", kt)

\* A value tile whose load was put off is fetched now.  The product is left in
\* ACCUM.
AttnVHandler(g, n, elem) ==
  LET m     == PadRowsOf(n)
      value == n.inputs[2]
  IN  (IF value \in DOMAIN g.deferred /\ value \notin Live(g, "abuf")
       THEN LoadTile(g.deferred[value], elem) ELSE <<>>)
      \o Need("abuf", value, Padded(n, elem))
      \o ZeroRows(value, n.rows, PadColsOf(n), elem)
      \o ConfigTile(m, PadColsOf(n), m)
      \o Compute("MATMUL", Spot("wbuf", n.inputs[1], 0), Spot("abuf", value, 0), Accum(0), 0)
      \o SyncOn("sys")
      \o Free("wbuf", n.inputs[1])
      \o New("abuf", n.name, Padded(n, elem))

=============================================================================
