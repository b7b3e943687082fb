------------------------------ MODULE VitGraph ------------------------------
(***************************************************************************)
(* The intermediate representation of ir.py and the graph that             *)
(* graph_extract.py builds for a ViT encoder with a classifier head.       *)
(*                                                                         *)
(* The name of a node or of a parameter is a tuple                         *)
(* <<kind, block, tile, head>>, with -1 where the code's string has no     *)
(* such part.  Attributes the code generators never read are left out.     *)
(***************************************************************************)
EXTENDS VitConfig

Name(kind, b, t, h) == <<kind, b, t, h>>
Global(kind)     == Name(kind, -1, -1, -1)
OfBlock(kind, b) == Name(kind, b, -1, -1)
OfHead(kind, b, h) == Name(kind, b, -1, h)

Node(op, name, inputs, rows, cols) ==
  [op |-> op, name |-> name, inputs |-> inputs, rows |-> rows, cols |-> cols,
   attrs |-> [none |-> TRUE]]

With(node, attrs) == [node EXCEPT !.attrs = attrs]

Biased(node, bias) == With(node, [bias |-> bias])

NodeNames(g) == {g[k].name : k \in DOMAIN g}
InputsOf(node) == {node.inputs[k] : k \in DOMAIN node.inputs}

\* Definitions named "Mutant..." are defects the properties must notice; no
\* specification uses them.

MutantLastUse(g, name) ==        \* the first use taken for the last
  LET users == {k \in DOMAIN g : name \in InputsOf(g[k])}
  IN  CHOOSE k \in users : \A j \in users : k <= j

\* compute_last_uses: for every node some node reads, the last one that does.
LastUse(g, name) ==
  LET users == {k \in DOMAIN g : name \in InputsOf(g[k])}
  IN  CHOOSE k \in users : \A j \in users : j <= k

MutantDeadAfter(g, k) ==         \* nothing is dead behind the last node
  {name \in NodeNames(g) \intersect InputsOf(g[k]) : LastUse(g, name) = k /\ k < Len(g)}

DeadAfter(g, k) ==
  {name \in NodeNames(g) \intersect InputsOf(g[k]) : LastUse(g, name) = k}

-----------------------------------------------------------------------------

Projections == <<"query", "key", "value">>

WeightOf(proj) == [query |-> "query_w", key |-> "key_w", value |-> "value_w"][proj]
BiasOf(proj)   == [query |-> "query_b", key |-> "key_b", value |-> "value_b"][proj]

Projection(c, b, h, proj) ==
  Biased(Node("matmul", OfHead(proj, b, h),
              <<OfBlock("ln1", b), OfHead(WeightOf(proj), b, h)>>, SeqLen(c), HeadDim(c)),
         OfHead(BiasOf(proj), b, h))

\* One head: its projections, then its attention.
Attention(c, b, h) ==
  LET s == SeqLen(c)
  IN  [k \in 1 .. 3 |-> Projection(c, b, h, Projections[k])] \o
      << Node("matmul_qkt", OfHead("qkt", b, h),
              <<OfHead("query", b, h), OfHead("key", b, h)>>, s, s),
         Node("scale_mul", OfHead("scale", b, h), <<OfHead("qkt", b, h)>>, s, s),
         Node("softmax", OfHead("softmax", b, h), <<OfHead("scale", b, h)>>, s, s),
         Node("matmul_attn_v", OfHead("attn_v", b, h),
              <<OfHead("softmax", b, h), OfHead("value", b, h)>>, s, HeadDim(c)) >>

\* The multi-layer perceptron and the two residual additions.
Feedforward(c, b, prev) ==
  LET s == SeqLen(c)
      Linear(kind, input, wide) ==
        Biased(Node("matmul", OfBlock(kind, b), <<OfBlock(input, b), OfBlock(kind \o "_w", b)>>,
                    s, wide),
               OfBlock(kind \o "_b", b))
  IN  << Node("concat_heads", OfBlock("concat", b),
              [h \in 1 .. c.heads |-> OfHead("attn_v", b, h - 1)], s, c.embed),
         Linear("out_proj", "concat", c.embed),
         Node("vadd", OfBlock("residual1", b), <<OfBlock("out_proj", b), prev>>, s, c.embed),
         Node("layernorm", OfBlock("ln2", b),
              <<OfBlock("residual1", b), OfBlock("ln2_w", b), OfBlock("ln2_b", b)>>, s, c.embed),
         Linear("fc1", "ln2", c.mlp),
         Node("gelu", OfBlock("gelu", b), <<OfBlock("fc1", b)>>, s, c.mlp),
         Linear("fc2", "gelu", c.embed),
         Node("vadd", OfBlock("residual2", b),
              <<OfBlock("fc2", b), OfBlock("residual1", b)>>, s, c.embed) >>

BlockInput(b) == IF b = 0 THEN Global("pos_embed_add") ELSE OfBlock("residual2", b - 1)

Block(c, b) ==
  << Node("layernorm", OfBlock("ln1", b),
          <<BlockInput(b), OfBlock("ln1_w", b), OfBlock("ln1_b", b)>>, SeqLen(c), c.embed) >>
  \o Each(c.heads, LAMBDA h : Attention(c, b, h))
  \o Feedforward(c, b, BlockInput(b))

Embedding(c) ==
  << Node("cls_prepend", Global("cls_prepend"),
          <<Global("embedded_patches"), Global("cls_token")>>, SeqLen(c), c.embed),
     Node("pos_embed_add", Global("pos_embed_add"),
          <<Global("cls_prepend"), Global("pos_embed")>>, SeqLen(c), c.embed) >>

ClassifierHead(c) ==
  << Node("layernorm", Global("final_ln"),
          <<BlockInput(c.depth), Global("final_ln_w"), Global("final_ln_b")>>,
          SeqLen(c), c.embed),
     Node("cls_extract", Global("cls_extract"), <<Global("final_ln")>>, 1, c.embed),
     Biased(Node("matmul", Global("classifier"),
                 <<Global("cls_extract"), Global("classifier_w")>>, 1, c.classes),
            Global("classifier_b")) >>

ExtractVitGraph(c) ==
  Embedding(c) \o Each(c.depth, LAMBDA b : Block(c, b)) \o ClassifierHead(c)

=============================================================================
