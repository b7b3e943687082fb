------------------------------ MODULE Compiler ------------------------------
(***************************************************************************)
(* compiler.py: what compile_w8a16 and compile_w8a32 take out of a model's *)
(* state dictionary, and _finalize_program, which puts the program in      *)
(* front of the data section and moves every address behind it.            *)
(***************************************************************************)
EXTENDS CodeGenW8A32

Channels == 3

\* The parameters in the order of the two dictionaries, weights before biases.
\* A weight is stored as inputs by outputs, padded both ways; layer norms stay
\* FP16 in either mode; the whole query, key and value weights are stored too,
\* though only their slices per head are read.
Parameters(c, elem) ==
  LET Weight(name, outputs, inputs) ==
        Entry(name, "param", inputs, outputs, PadDim(inputs), PadDim(outputs), elem)
      Bias(name, n)     == Entry(name, "param", 1, n, 1, PadDim(n), elem)
      Norm(name)        == Entry(name, "param", 1, c.embed, 1, c.embed, 2)
      Embedded(name, n) == Entry(name, "param", n, c.embed, PadDim(n), PadDim(c.embed), elem)
      HeadParams(Part(_, _, _)) ==
        Each(c.depth, LAMBDA b : Each(3, LAMBDA k : Each(c.heads, LAMBDA h :
          << Part(b, Projections[k + 1], h) >>)))
  IN  << Embedded(Global("cls_token"), 1), Embedded(Global("pos_embed"), SeqLen(c)),
         Weight(Global("patch_w"), c.embed, Channels * c.patch * c.patch) >>
      \o Each(c.depth, LAMBDA b :
           [k \in 1 .. 3 |-> Weight(OfBlock(WeightOf(Projections[k]), b), c.embed, c.embed)] \o
           << Weight(OfBlock("out_proj_w", b), c.embed, c.embed),
              Weight(OfBlock("fc1_w", b), c.mlp, c.embed),
              Weight(OfBlock("fc2_w", b), c.embed, c.mlp),
              Norm(OfBlock("ln1_w", b)), Norm(OfBlock("ln1_b", b)),
              Norm(OfBlock("ln2_w", b)), Norm(OfBlock("ln2_b", b)) >>)
      \o << Norm(Global("final_ln_w")), Norm(Global("final_ln_b")),
            Weight(Global("classifier_w"), c.classes, c.embed) >>
      \o HeadParams(LAMBDA b, proj, h :
           Weight(OfHead(WeightOf(proj), b, h), HeadDim(c), c.embed))
      \o << Bias(Global("patch_b"), c.embed) >>
      \o Each(c.depth, LAMBDA b :
           [k \in 1 .. 3 |-> Bias(OfBlock(BiasOf(Projections[k]), b), c.embed)] \o
           << Bias(OfBlock("out_proj_b", b), c.embed), Bias(OfBlock("fc1_b", b), c.mlp),
              Bias(OfBlock("fc2_b", b), c.embed) >>)
      \o << Bias(Global("classifier_b"), c.classes) >>
      \o HeadParams(LAMBDA b, proj, h : Bias(OfHead(BiasOf(proj), b, h), HeadDim(c)))

SectionW8A16(c) == DataSectionW8A16(Parameters(c, 2), c)
SectionW8A32(c) == DataSectionW8A32(Parameters(c, 4), c)

SectionOf(c, mode) == IF mode = "w8a16" THEN SectionW8A16(c) ELSE SectionW8A32(c)

GraphOf(c, mode) == RunPasses(ExtractVitGraph(c), c, mode)

\* The generator before its first node.
StartGenerator(c, mode) ==
  LET section == SectionOf(c, mode)
      nodes   == GraphOf(c, mode)
      rows(name) == section[CHOOSE k \in DOMAIN section : section[k].name = name].rows
      start == NewGenerator(c, LayoutOf(section), OffsetOf(section, Len(section) + 1),
                 [name \in {section[k].name : k \in DOMAIN section} |-> rows(name)],
                 IF mode = "w8a16" THEN DeferredW8A16(nodes) ELSE DeferredW8A32(nodes))
  IN  IF mode = "w8a16" THEN Perform(start, PrologueW8A16) ELSE start

GenerateStep(g, nodes, k, mode) ==
  IF mode = "w8a16" THEN GenerateNodeW8A16(g, nodes, k) ELSE GenerateNodeW8A32(g, nodes, k)

-----------------------------------------------------------------------------
(* _finalize_program.                                                      *)

WordBytes == UNIT \div 2      \* an instruction is half an addressing unit

DataBase(count) == CeilTo(count * WordBytes, UNIT)

\* The immediate of SET_ADDR_LO moves by the size of the program; what does not
\* fit its field is cut off.
Patched(word, base) ==
  IF OpOf(word) = "SET_ADDR_LO"
  THEN (word \ {29 + b : b \in 0 .. ImmBits - 1})
         \union Field((FieldOf(word, 29, ImmBits) + base) % 2^ImmBits, 29, ImmBits)
  ELSE word

\* Definitions named "Mutant..." are defects the properties must notice; no
\* specification uses them.

MutantFinalize(insns, g) ==          \* no room for the staging regions
  LET base == DataBase(Len(insns))
  IN  [words |-> [k \in DOMAIN insns |-> Patched(Encode(insns[k]), base)],
       dataBase |-> base,
       inputOffset |-> base + g.layout[InputPatches],
       logits |-> Fixed("abuf", g.abuf.live[Global("classifier")].start),
       staging |-> 0]

\* The binary: words, where the data starts, where the host puts the input,
\* where the logits end up, and how much staging follows the data.
Finalize(insns, g) ==
  LET base == DataBase(Len(insns))
  IN  [words |-> [k \in DOMAIN insns |-> Patched(Encode(insns[k]), base)],
       dataBase |-> base,
       inputOffset |-> base + g.layout[InputPatches],
       logits |-> Fixed("abuf", g.abuf.live[Global("classifier")].start),
       staging |-> g.tempTop]

=============================================================================
