---------------------------- MODULE SyncCoalesce ----------------------------
(***************************************************************************)
(* The peephole pass sync_coalesce.py: coalesce_dma_syncs walks a program  *)
(* and clears the DMA bit of the SYNCs the control unit enforces by        *)
(* itself.  A step is one iteration of the loop.                           *)
(*                                                                         *)
(* Beside the pass the module follows, for the program that went in and    *)
(* for the one that comes out, which engines have work that no SYNC or     *)
(* fence has covered (the history variable "pending" of Accelerator).  The *)
(* pass is correct when the machine may rely on the output as it could     *)
(* rely on the input.                                                      *)
(***************************************************************************)
EXTENDS Isa, Sequences

CONSTANTS
  Insns,      \* instructions that programs are made of
  MaxLen      \* bound on the length of a program

ASSUME ProgramAssumption == Insns \subseteq Instruction /\ MaxLen \in Nat

VARIABLES
  prog,       \* insns, the argument
  i,          \* the loop index, from 1
  out,        \* the list under construction
  pendIn,     \* engines with uncovered work after the first i-1 of prog
  pendOut,    \* engines with uncovered work after all of out
  okIn,       \* those i-1 instructions kept the SYNC discipline
  okOut       \* all of out kept the SYNC discipline

vars == <<prog, i, out, pendIn, pendOut, okIn, okOut>>

-----------------------------------------------------------------------------

ControlOnly == ConfigOps

AutoDmaFenced == HelperOps \union SfuOps

Runs(start) == {j \in start .. Len(prog) : prog[j].op \notin ControlOnly}

FirstOf(runs) == IF runs = {} THEN "NONE"
                 ELSE prog[CHOOSE j \in runs : \A k \in runs : j <= k].op

NextEngineOp(start) == FirstOf(Runs(start))

DmaSync(insn) == insn.op = "SYNC" /\ "dma" \in insn.mask

MutantStrips(j) ==               \* the rule of the function's own docstring
  DmaSync(prog[j]) /\ NextEngineOp(j + 1) \notin {"MATMUL", "HALT", "NONE"}

Strips(j) == DmaSync(prog[j]) /\ NextEngineOp(j + 1) \in AutoDmaFenced

\* What the machine has waited for, and what it has set to work, once insn has
\* retired (control_unit.sv).
Fences(insn) == {e \in AsyncEngines : \/ insn.op \in HelperOps \union SfuOps
                                      \/ insn.op = "SYNC" /\ e \in insn.mask}

Employs(insn) == {e \in AsyncEngines : \/ e = "dma" /\ insn.op \in DmaOps
                                       \/ e = "sys" /\ insn.op = "MATMUL"
                                       \/ e = "sfu" /\ insn.op \in SfuOps}

After(pend, insn) == (pend \ Fences(insn)) \union Employs(insn)

\* No transfer behind an uncovered one, no MATMUL behind an uncovered one: the
\* engines have no queue.  MATMUL does not wait for the DMA engine either.
Disciplined(pend, insn) ==
  /\ insn.op \in DmaOps  => "dma" \notin pend
  /\ insn.op = "MATMUL" => pend \intersect {"dma", "sys"} = {}

Emit(insn) ==
  /\ out' = Append(out, insn)
  /\ pendOut' = After(pendOut, insn)
  /\ okOut' = (okOut /\ Disciplined(pendOut, insn))

Advance ==
  /\ i <= Len(prog)
  /\ i' = i + 1
  /\ pendIn' = After(pendIn, prog[i])
  /\ okIn' = (okIn /\ Disciplined(pendIn, prog[i]))
  /\ UNCHANGED prog

Keep ==
  /\ Advance
  /\ ~Strips(i)
  /\ Emit(prog[i])

Reduce ==
  /\ Advance
  /\ Strips(i)
  /\ prog[i].mask # {"dma"}
  /\ Emit(Sync(prog[i].mask \ {"dma"}))

Drop ==
  /\ Advance
  /\ Strips(i)
  /\ prog[i].mask = {"dma"}
  /\ UNCHANGED <<out, pendOut, okOut>>

Init ==
  /\ prog \in UNION {[1 .. n -> Insns] : n \in 0 .. MaxLen}
  /\ i = 1
  /\ out = <<>>
  /\ pendIn = {} /\ pendOut = {}
  /\ okIn = TRUE /\ okOut = TRUE

Next == Keep \/ Reduce \/ Drop

Spec == Init /\ [][Next]_vars

-----------------------------------------------------------------------------

\* Type invariant: the loop index stays inside the list and the output is a
\* list of instructions.
TypeOK ==
  /\ prog \in Seq(Insns)
  /\ Len(prog) <= MaxLen
  /\ i \in 1 .. Len(prog) + 1
  /\ out \in Seq(Instruction)
  /\ pendIn \subseteq AsyncEngines
  /\ pendOut \subseteq AsyncEngines
  /\ okIn \in BOOLEAN
  /\ okOut \in BOOLEAN

\* The output keeps the SYNC discipline wherever the input does: no transfer
\* is dispatched into a busy DMA engine and no MATMUL ahead of the LOAD of its
\* operands because of a SYNC this pass removed.
DisciplineKept == okIn => okOut

\* What the output leaves uncovered the input left uncovered too, except
\* transfers that the next engine operation is going to wait for by itself; so
\* a program that reaches HALT with everything covered still does.
CoverKept ==
  pendOut \subseteq pendIn \union
    (IF NextEngineOp(i) \in AutoDmaFenced THEN {"dma"} ELSE {})

=============================================================================
