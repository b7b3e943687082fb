----------------------------- MODULE SeqTiling -----------------------------
(***************************************************************************)
(* The compiler pass that keeps the residual stream in DRAM: the policy of *)
(* memory_estimate_w8a16.py and memory_estimate_w8a32.py and the rewrite   *)
(* of seq_tiling.py.                                                       *)
(*                                                                         *)
(* DRAM staging regions are named like nodes; attributes count elements,   *)
(* as they do in the code, where the names still say bytes.                *)
(***************************************************************************)
EXTENDS VitGraph, TLC

CONSTANTS
  AbufSize    \* bytes

\* The decision for activations of elem bytes.
Decision(needs, rows, tiles) == [needsTiling |-> needs, tileRows |-> rows, numTiles |-> tiles]

MinOf(a, b) == IF a <= b THEN a ELSE b
MaxOf(a, b) == IF a >= b THEN a ELSE b

\* Rows that leave room for fc1 in half of ABUF and for the residual in a quarter.
MaxTileRows(c, elem) ==
  LET fc1Bound      == (AbufSize \div 2) \div (c.mlp * elem)
      residualBound == (AbufSize \div 4) \div (c.embed * elem)
      atMost        == MaxOf(TILE, MinOf(fc1Bound, residualBound))
  IN  (atMost \div TILE) * TILE

\* The largest multiple of a tile that divides the padded sequence.
TileRows(c, elem) ==
  LET most == MaxTileRows(c, elem)
      whole == {t \in 1 .. most : t % TILE = 0 /\ SeqLenPad(c) % t = 0}
  IN  IF whole = {} THEN most ELSE CHOOSE t \in whole : \A u \in whole : u <= t

Decide(c, elem) ==
  IF SeqLenPad(c) * c.embed * elem <= AbufSize \div 3
  THEN Decision(FALSE, SeqLenPad(c), 1)
  ELSE LET rows == TileRows(c, elem)
       IN  Decision(TRUE, rows, CeilTo(SeqLenPad(c), rows) \div rows)

DecideW8A16(c) == Decide(c, 2)
DecideW8A32(c) == Decide(c, 4)

-----------------------------------------------------------------------------

Tiled(kind, b, t) == Name(kind, b, t, -1)

ResidualA == Global("residual_A")
ResidualB == Global("residual_B")
Stage(kind, h) == OfHead(kind, -1, h)

StageOf(proj) == [query |-> "stage_q", key |-> "stage_k", value |-> "stage_v"][proj]

\* Block b reads one residual region and writes the other.
ResidualIn(b) == IF b % 2 = 0 THEN ResidualA ELSE ResidualB

RowsOf(c, d, t) ==
  MaxOf(MinOf((t + 1) * d.tileRows, SeqLenPad(c)) - t * d.tileRows, 0)

\* Where tile t starts, and how much there is, in a region of rows of cols elements.
Window(c, d, region, t, cols) ==
  [region |-> region, offset |-> t * d.tileRows * cols, total |-> SeqLenPad(c) * cols]

TileLoad(name, rows, cols, window) == With(Node("tile_load", name, <<>>, rows, cols), window)

TileSave(input, rows, cols, window) ==
  With(Node("tile_save", [input EXCEPT ![1] = @ \o "_save"], <<input>>, rows, cols), window)

Layernorm(name, input, gamma, beta, rows, cols) ==
  Node("layernorm", name, <<input, gamma, beta>>, rows, cols)

TiledMatmul(name, input, weight, bias, rows, cols) ==
  Biased(Node("matmul", name, <<input, weight>>, rows, cols), bias)

\* Phase 0: class token, patches and position embeddings into residual A.
InitResidual(c, d, t) ==
  << With(Node("init_residual_tile", Tiled("init", -1, t),
               <<Global("cls_token"), Global("pos_embed")>>, RowsOf(c, d, t), c.embed),
          [tile |-> t, tileRows |-> d.tileRows, logicalRows |-> RowsOf(c, d, t)]
            @@ Window(c, d, ResidualA, t, c.embed)) >>

\* Phase A: one tile's queries, keys and values, head by head, into staging.
PreAttention(c, d, b, t) ==
  LET rows == RowsOf(c, d, t)
      Projected(h, proj) ==
        LET name == Name(proj, b, t, h)
        IN  << TiledMatmul(name, Tiled("ln1", b, t), OfHead(WeightOf(proj), b, h),
                           OfHead(BiasOf(proj), b, h), rows, HeadDim(c)),
               TileSave(name, rows, HeadDim(c),
                        Window(c, d, Stage(StageOf(proj), h), t, HeadDim(c))) >>
  IN  << TileLoad(Tiled("res_in", b, t), rows, c.embed,
                  Window(c, d, ResidualIn(b), t, c.embed)),
         Layernorm(Tiled("ln1", b, t), Tiled("res_in", b, t),
                   OfBlock("ln1_w", b), OfBlock("ln1_b", b), rows, c.embed) >>
      \o Each(c.heads, LAMBDA h : Each(3, LAMBDA k : Projected(h, Projections[k + 1])))

\* Phase B: one head's attention over the whole padded sequence.
FullAttention(c, d, b, h) ==
  LET s == SeqLenPad(c)
      Whole(kind) == Window(c, d, Stage(kind, h), 0, HeadDim(c))
      Fetched(proj) == TileLoad(OfHead(proj, b, h), s, HeadDim(c), Whole(StageOf(proj)))
  IN  << Fetched("query"), Fetched("key"), Fetched("value"),
         Node("matmul_qkt", OfHead("qkt", b, h),
              <<OfHead("query", b, h), OfHead("key", b, h)>>, s, s),
         Node("scale_mul", OfHead("scale", b, h), <<OfHead("qkt", b, h)>>, s, s),
         Node("softmax", OfHead("softmax", b, h), <<OfHead("scale", b, h)>>, s, s),
         Node("matmul_attn_v", OfHead("attn_v", b, h),
              <<OfHead("softmax", b, h), OfHead("value", b, h)>>, s, HeadDim(c)),
         TileSave(OfHead("attn_v", b, h), s, HeadDim(c), Whole("stage_av")) >>

\* Phase C: one tile through the output projection, the perceptron and both
\* residual additions, into the other residual region.
PostAttention(c, d, b, t) ==
  LET rows == RowsOf(c, d, t)
      N(kind) == Tiled(kind, b, t)
      Linear(kind, input, cols) ==
        TiledMatmul(N(kind), N(input), OfBlock(kind \o "_w", b), OfBlock(kind \o "_b", b),
                    rows, cols)
  IN  << With(Node("concat_heads_tile", N("concat"),
                   [h \in 1 .. c.heads |-> Stage("stage_av", h - 1)], rows, c.embed),
              [tile |-> t, tileRows |-> d.tileRows, logicalRows |-> rows,
               total |-> SeqLenPad(c) * HeadDim(c)]),
         Linear("out_proj", "concat", c.embed),
         TileLoad(N("res_skip"), rows, c.embed, Window(c, d, ResidualIn(b), t, c.embed)),
         Node("vadd", N("residual1"), <<N("out_proj"), N("res_skip")>>, rows, c.embed),
         Layernorm(N("ln2"), N("residual1"), OfBlock("ln2_w", b), OfBlock("ln2_b", b),
                   rows, c.embed),
         Linear("fc1", "ln2", c.mlp),
         Node("gelu", N("gelu"), <<N("fc1")>>, rows, c.mlp),
         Linear("fc2", "gelu", c.embed),
         Node("vadd", N("residual2"), <<N("fc2"), N("residual1")>>, rows, c.embed),
         TileSave(N("residual2"), rows, c.embed,
                  Window(c, d, ResidualIn(b + 1), t, c.embed)) >>

\* The class token is in tile 0 of the last residual.
FinalStage(c, d) ==
  LET rows == RowsOf(c, d, 0)
  IN  << TileLoad(Tiled("final_res", -1, 0), rows, c.embed,
                  Window(c, d, ResidualIn(c.depth), 0, c.embed)),
         Layernorm(Global("final_ln"), Tiled("final_res", -1, 0),
                   Global("final_ln_w"), Global("final_ln_b"), rows, c.embed),
         Node("cls_extract", Global("cls_extract"), <<Global("final_ln")>>, 1, c.embed),
         TiledMatmul(Global("classifier"), Global("cls_extract"),
                     Global("classifier_w"), Global("classifier_b"), 1, c.classes) >>

SeqTilingPass(g, c, d) ==
  IF ~d.needsTiling
  THEN g
  ELSE Each(d.numTiles, LAMBDA t : InitResidual(c, d, t))
       \o Each(c.depth, LAMBDA b :
                 Each(d.numTiles, LAMBDA t : PreAttention(c, d, b, t))
                 \o Each(c.heads, LAMBDA h : FullAttention(c, d, b, h))
                 \o Each(d.numTiles, LAMBDA t : PostAttention(c, d, b, t)))
       \o FinalStage(c, d)

SeqTilingPassW8A16(g, c) == SeqTilingPass(g, c, DecideW8A16(c))
SeqTilingPassW8A32(g, c) == SeqTilingPass(g, c, DecideW8A32(c))

\* run_passes with the default pipeline of the mode.
RunPasses(g, c, mode) ==
  IF mode = "w8a16" THEN SeqTilingPassW8A16(g, c) ELSE SeqTilingPassW8A32(g, c)

=============================================================================
