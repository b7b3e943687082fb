-------------------------- MODULE CompiledProgram --------------------------
(***************************************************************************)
(* From a model to its logits.  The compiler walks the tiled graph, one    *)
(* node a step; the pass of SyncCoalesce thins out the SYNCs, one          *)
(* instruction a step; the finished binary is loaded behind the host's     *)
(* input; and the accelerator runs it, one instruction a step, while the   *)
(* DMA engine, the systolic array and the SFU finish what they were given  *)
(* at any later moment the control unit allows (control_unit.sv; what an   *)
(* instruction does is GoldenModel's).                                     *)
(***************************************************************************)
EXTENDS SyncCoalesce, VitReference

CONSTANTS
  Jobs,       \* records [c, mode]: the models compiled
  Fills       \* cells that SRAM may hold before the program starts

ASSUME JobAssumption ==
  \A j \in Jobs : ValidConfig(j.c) /\ j.mode \in {"w8a16", "w8a32"}

VARIABLES
  job,        \* the model and the mode
  phase,      \* "generate", "coalesce", "run", "done", "failed"
  nodes,      \* the tiled graph
  at,         \* the node the generator comes to, from 1
  gen,        \* the code generator
  binary,     \* the compiled program, without its words
  mach,       \* the machine
  flying,     \* engine -> the instruction it is busy with
  meant       \* history: the addresses the generator meant, for the words

progVars == <<job, phase, nodes, at, gen, binary, mach, flying, meant>>
allVars  == <<vars, progVars>>

None == <<>>

ElemOf(mode) == IF mode = "w8a16" THEN 2 ELSE 4

-----------------------------------------------------------------------------
(* Compiling.                                                              *)

Start ==
  /\ job \in Jobs
  /\ phase = "generate"
  /\ nodes = GraphOf(job.c, job.mode)
  /\ at = 1
  /\ gen = StartGenerator(job.c, job.mode)
  /\ binary = None /\ mach = None /\ flying = None /\ meant = None
  /\ prog = <<>> /\ i = 1 /\ out = <<>>
  /\ pendIn = {} /\ pendOut = {} /\ okIn = TRUE /\ okOut = TRUE

Generate ==
  /\ phase = "generate"
  /\ at <= Len(nodes)
  /\ gen' = GenerateStep(gen, nodes, at, job.mode)
  /\ at' = at + 1
  /\ phase' = IF gen'.fault = "none" THEN "generate" ELSE "failed"
  /\ UNCHANGED <<job, nodes, binary, mach, flying, meant, vars>>

\* The generator adds HALT and hands its list to coalesce_dma_syncs.
HandOver ==
  /\ phase = "generate"
  /\ at > Len(nodes)
  /\ phase' = "coalesce"
  /\ prog' = Append(gen.insns, Plain("HALT"))
  /\ gen' = [gen EXCEPT !.insns = <<>>]
  /\ nodes' = None
  /\ UNCHANGED <<job, at, binary, mach, flying, meant, i, out, pendIn, pendOut, okIn, okOut>>

Coalesce ==
  /\ phase = "coalesce"
  /\ Next
  /\ UNCHANGED progVars

\* The binary is loaded, the host writes its input, the program starts.
Load ==
  /\ phase = "coalesce"
  /\ i > Len(prog)
  /\ LET section == SectionOf(job.c, job.mode)
         b       == Finalize(out, gen)
         data    == DataCells(section)
         padded  == CeilTo(Len(data) * CellBytes, UNIT)
         zeros   == (padded + b.staging) \div CellBytes - Len(data)
         image   == data \o [k \in 1 .. zeros |-> 0]
         input   == (b.inputOffset - b.dataBase) \div CellBytes
     IN  /\ binary' = [dataBase |-> b.dataBase, logits |-> b.logits]
         /\ \E fill \in Fills :
              mach' = LoadProgram(MachineState(BytesIn, fill), b.words, b.dataBase,
                                  Overlay(image, input, InputCells(section)))
  /\ meant' = [k \in {j \in DOMAIN out : out[j].op \in DmaOps} |-> out[k].meant]
  /\ phase' = "run"
  /\ gen' = None /\ prog' = None /\ out' = None /\ i' = 1
  /\ UNCHANGED <<job, nodes, at, flying, pendIn, pendOut, okIn, okOut>>

-----------------------------------------------------------------------------
(* Running.                                                                *)

Execute(m, insn) ==
  IF job.mode = "w8a16" THEN ExecuteW8A16(m, insn) ELSE ExecuteW8A32(m, insn)

EngineOf(insn) == CHOOSE e \in AsyncEngines : e \in Employs(insn)

BusyWith(e) == e \in DOMAIN flying

\* Engines that must be idle before the control unit lets insn go: those it
\* fences, and the SFU for a transfer or a product.
WaitsFor(insn) ==
  Fences(insn) \union (IF insn.op \in DmaOps \union {"MATMUL"} THEN {"sfu"} ELSE {})

FetchReady ==
  /\ ~PastEnd(mach)
  /\ \A e \in WaitsFor(Fetched(mach)) : ~BusyWith(e)

Stopped == mach.halted \/ mach.fault # "none"

\* An instruction for an engine is begun; the engine ignores it when busy.
Issue ==
  /\ phase = "run"
  /\ ~Stopped
  /\ FetchReady
  /\ LET insn == Fetched(mach)
     IN  IF Employs(insn) # {}
         THEN /\ flying' = IF BusyWith(EngineOf(insn)) THEN flying
                           ELSE (EngineOf(insn) :> [insn |-> insn, word |-> mach.pc + 1,
                                                    tile |-> mach.tile,
                                                    addr |-> mach.addr]) @@ flying
              /\ mach' = [mach EXCEPT !.pc = @ + 1]
         ELSE /\ flying' = flying
              /\ mach' = [Execute(mach, insn) EXCEPT !.pc = @ + 1]
  /\ UNCHANGED <<job, phase, nodes, at, gen, binary, meant, vars>>

\* The machine as an engine sees it that was dispatched earlier.
AtDispatch(f) == [mach EXCEPT !.tile = f.tile, !.addr = f.addr]

\* The work of an engine takes effect, with the tile sizes and addresses of its
\* dispatch.
Complete(e) ==
  /\ phase = "run"
  /\ BusyWith(e)
  /\ mach' = [Execute(AtDispatch(flying[e]), flying[e].insn) EXCEPT
                !.tile = mach.tile, !.addr = mach.addr]
  /\ flying' = [x \in DOMAIN flying \ {e} |-> flying[x]]
  /\ UNCHANGED <<job, phase, nodes, at, gen, binary, meant, vars>>

\* The host looks at the machine once it has stopped.
Finish ==
  /\ phase = "run"
  /\ Stopped
  /\ phase' = "done"
  /\ UNCHANGED <<job, nodes, at, gen, binary, mach, flying, meant, vars>>

Terminated ==
  /\ phase \in {"done", "failed"}
  /\ UNCHANGED allVars

NextStep ==
  \/ Generate \/ HandOver \/ Coalesce \/ Load
  \/ Issue \/ (\E e \in AsyncEngines : Complete(e)) \/ Finish
  \/ Terminated

ProgramSpec == Start /\ [][NextStep]_allVars

-----------------------------------------------------------------------------

\* When the program stops, ABUF holds, where the binary says, the logits of the
\* model that was compiled: no tile, strip, staging region, pad row, reused
\* buffer, elided address write or removed SYNC has changed a number, in
\* whichever order the engines finished and whatever SRAM held before.
LogitsExact ==
  phase = "done" =>
    SubSeq(ReadAct(mach, binary.logits, PadDim(job.c.classes), ElemOf(job.mode)),
           1, job.c.classes) = Logits(job.c, job.mode)

\* The address a transfer computes is the one the generator had in mind, behind
\* the program: registers written or left alone, dram_off and the patch of
\* _finalize_program add up.
AddressExact ==
  BusyWith("dma") =>
    LET f == flying["dma"]
    IN  EffectiveAddr(AtDispatch(f), f.insn) = mach.dataBase + meant[f.word]

\* The program stops at its HALT with every engine idle; no instruction left
\* the bounds of a buffer or of the image, or met a missing CONFIG_TILE.
CleanStop == phase = "done" => mach.halted /\ mach.fault = "none" /\ flying = None

\* The data section is after the run what it was before it, so the program can
\* run again: nothing but the staging behind it was stored to.
ImageIntact ==
  phase = "done" =>
    LET section == SectionOf(job.c, job.mode)
        whole   == Overlay(DataCells(section),
                           OffsetOf(section, EntryOf(section, InputPatches)) \div CellBytes,
                           InputCells(section))
    IN  SubSeq(mach.dram, 1, Len(whole)) = whole

Compiled == phase \in {"generate", "coalesce"}

\* No handler finds an input missing and makes one up ("get(...) or alloc(...)"):
\* a tensor's region outlives its last reader.
InputsResident == Compiled => gen.guessed = {}

\* Behind the last node only the logits are still allocated.
NoLeak ==
  phase = "coalesce" => Live(gen, "abuf") = {Global("classifier")} /\ Live(gen, "wbuf") = {}

\* What the generators emit, and what is left of it, keeps the SYNC discipline
\* the engines rely on: none is given work while it may be busy, no product
\* starts before its operands are in.
ProgramDisciplined == okIn /\ okOut

=============================================================================
