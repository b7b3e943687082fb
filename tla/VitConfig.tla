----------------------------- MODULE VitConfig -----------------------------
(***************************************************************************)
(* The dimensions of a ViT-family model (model_config.py) and the padding  *)
(* of the tiler (tiler.py).  A configuration is a record                   *)
(*   [embed, heads, depth, mlp, image, patch, classes : Nat].              *)
(***************************************************************************)
EXTENDS Integers, SequencesExt

CONSTANTS
  TILE,       \* rows and columns of a systolic tile: 16
  UNIT        \* bytes of an SRAM or DRAM addressing unit: 16

ASSUME TileAssumption == TILE \in Nat \ {0} /\ UNIT \in Nat \ {0}

CeilTo(value, multiple) == ((value + multiple - 1) \div multiple) * multiple

PadDim(d) == CeilTo(d, TILE)

\* __post_init__ refuses anything else.
ValidConfig(c) == c.embed % c.heads = 0 /\ c.image % c.patch = 0

HeadDim(c)    == c.embed \div c.heads
NumPatches(c) == (c.image \div c.patch) * (c.image \div c.patch)
SeqLen(c)     == NumPatches(c) + 1           \* and the class token
SeqLenPad(c)  == CeilTo(SeqLen(c), TILE)
PadRows(c)    == SeqLenPad(c) - SeqLen(c)

-----------------------------------------------------------------------------

\* Counting from 0, as range() does.
Range0(n) == [k \in 1 .. n |-> k - 1]

\* The concatenation of Part(0), ..., Part(n-1).
Each(n, Part(_)) ==
  LET upTo[k \in 0 .. n] == IF k = 0 THEN <<>> ELSE upTo[k - 1] \o Part(k - 1)
  IN  upTo[n]

\* FoldLeft for a long sequence: by stretches, each worked out before the next,
\* so that its evaluation does not nest deep.
FoldStretches(op(_, _), base, seq) ==
  LET Stretch(k) == SubSeq(seq, 16 * k + 1,
                           IF 16 * (k + 1) < Len(seq) THEN 16 * (k + 1) ELSE Len(seq))
  IN  FoldLeft(LAMBDA v, k : CHOOSE r \in {FoldLeft(op, w, Stretch(k)) : w \in {v}} : TRUE,
               base, Range0((Len(seq) + 15) \div 16))

=============================================================================
