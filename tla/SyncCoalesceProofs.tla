------------------------- MODULE SyncCoalesceProofs -------------------------
(***************************************************************************)
(* For every program of every length: the pass keeps the cover, hence the  *)
(* SYNC discipline.                                                        *)
(*                                                                         *)
(* The argument is about one iteration.  The output may be ahead of the    *)
(* input by the DMA bit only, and only while the next engine operation is  *)
(* one that waits for the DMA engine by itself; such an operation leaves   *)
(* both programs with the same pending set.                                *)
(***************************************************************************)
EXTENDS SyncCoalesce, TLAPS

IInv == TypeOK /\ CoverKept /\ DisciplineKept

\* No operation is of two kinds.
LEMMA OpsDisjoint ==
  \A o \in Ops : /\ o \in ControlOnly => o \notin AutoDmaFenced
                 /\ o \in AutoDmaFenced => /\ o \notin DmaOps
                                           /\ o # "MATMUL"
                                           /\ o # "SYNC"
                 /\ o \in ControlOnly => /\ o \notin DmaOps
                                         /\ o \notin HelperOps
                                         /\ o \notin SfuOps
                                         /\ o # "MATMUL"
                                         /\ o # "SYNC"
  BY DEF Ops, ControlOnly, AutoDmaFenced, ConfigOps, DmaOps, HelperOps, SfuOps,
         TileHelperOps, TileOps, DroppedOps, ReservedOps


\* _next_engine_op looks through a control-only instruction.
LEMMA NextSkips ==
  ASSUME TypeOK, i <= Len(prog), prog[i].op \in ControlOnly
  PROVE  NextEngineOp(i) = NextEngineOp(i + 1)
  <1>1. Runs(i) = Runs(i + 1)
    BY DEF TypeOK, Runs
  <1> QED  BY <1>1 DEF NextEngineOp

\* ... and stops at anything else.
LEMMA NextStops ==
  ASSUME TypeOK, i <= Len(prog), prog[i].op \notin ControlOnly
  PROVE  NextEngineOp(i) = prog[i].op
  <1> DEFINE runs == Runs(i)
  <1>1. i \in runs /\ \A k \in runs : i <= k /\ k \in Nat
    BY DEF TypeOK, Runs
  <1>2. \A j \in runs : (\A k \in runs : j <= k) => j = i
    BY <1>1 DEF TypeOK
  <1>3. (CHOOSE j \in runs : \A k \in runs : j <= k) = i
    <2> HIDE DEF runs
    <2> QED  BY <1>1, <1>2
  <1> QED  BY <1>1, <1>3 DEF NextEngineOp, FirstOf

\* The cover of one more instruction, in both programs.
LEMMA AfterKeeps ==
  ASSUME NEW a \in SUBSET AsyncEngines, NEW b \in SUBSET AsyncEngines,
         NEW insn
  PROVE  /\ After(a, insn) \in SUBSET AsyncEngines
         /\ b \subseteq a => After(b, insn) \subseteq After(a, insn)
         /\ b \subseteq a \union {"dma"}
              => After(b, insn) \subseteq After(a, insn) \union {"dma"}
         /\ insn.op \in AutoDmaFenced => After(b, insn) = After(a, insn)
  BY DEF After, Fences, Employs, AutoDmaFenced

\* The cover of a SYNC that loses its DMA bit.
LEMMA StripKeeps ==
  ASSUME NEW a \in SUBSET AsyncEngines, NEW b \in SUBSET AsyncEngines,
         NEW mask \in SUBSET AsyncEngines, b \subseteq a \union {"dma"}
  PROVE  After(b, Sync(mask \ {"dma"}))
           \subseteq After(a, Sync(mask)) \union {"dma"}
  BY DEF After, Fences, Employs, Sync, Plain, HelperOps, SfuOps, TileHelperOps, DmaOps

-----------------------------------------------------------------------------

\* Before an operation that does not wait for the DMA engine by itself, the
\* output covers all that the input covers.
LEMMA ExactCover ==
  ASSUME IInv, i <= Len(prog), prog[i].op \notin ControlOnly,
         prog[i].op \notin AutoDmaFenced
  PROVE  pendOut \subseteq pendIn
  <1>1. NextEngineOp(i) = prog[i].op
    BY NextStops DEF IInv
  <1> QED  BY <1>1 DEF IInv, CoverKept

\* The first instruction of the rest is an instruction.
LEMMA HeadType ==
  ASSUME TypeOK, i <= Len(prog)
  PROVE  /\ prog[i] \in Insns
         /\ prog[i] \in Instruction
         /\ prog[i].op \in Ops
         /\ prog[i].mask \in SUBSET AsyncEngines
  <1>1. prog[i] \in Insns  BY DEF TypeOK
  <1>2. prog[i] \in Instruction  BY <1>1, ProgramAssumption
  <1> QED  BY <1>1, <1>2 DEF Instruction

\* A SYNC with fewer bits is an instruction.
LEMMA SyncType ==
  ASSUME NEW m \in SUBSET AsyncEngines
  PROVE  Sync(m) \in Instruction /\ Sync(m).op = "SYNC" /\ Sync(m).mask = m
  BY DEF Sync, Plain, Instruction, Ops

\* The cover depends on the operation and the mask only.
LEMMA AfterSync ==
  ASSUME NEW a \in SUBSET AsyncEngines, NEW insn \in Instruction, insn.op = "SYNC"
  PROVE  After(a, insn) = a \ insn.mask
  BY DEF After, Fences, Employs, HelperOps, SfuOps, TileHelperOps, DmaOps, Instruction

\* The output stays a program.
LEMMA EmitType ==
  ASSUME TypeOK, NEW insn \in Instruction, Emit(insn)
  PROVE  /\ out' \in Seq(Instruction)
         /\ pendOut' \in SUBSET AsyncEngines
         /\ okOut' \in BOOLEAN
  <1>1. pendOut' \in SUBSET AsyncEngines
    BY AfterKeeps DEF TypeOK, Emit
  <1> QED  BY <1>1 DEF TypeOK, Emit

\* The rest of the input stays a program.
LEMMA AdvanceType ==
  ASSUME TypeOK, Advance
  PROVE  /\ prog' = prog /\ i <= Len(prog)
         /\ i' \in 1 .. Len(prog) + 1
         /\ pendIn' \in SUBSET AsyncEngines
         /\ okIn' \in BOOLEAN
         /\ NextEngineOp(i)' = NextEngineOp(i + 1)
  <1>1. pendIn' \in SUBSET AsyncEngines
    BY AfterKeeps DEF TypeOK, Advance
  <1>2. i' = i + 1 /\ prog' = prog
    BY DEF Advance
  <1>3. NextEngineOp(i)' = NextEngineOp(i + 1)
    BY <1>2 DEF NextEngineOp, FirstOf, Runs
  <1> QED  BY <1>1, <1>2, <1>3 DEF TypeOK, Advance

\* At the start nothing is emitted and nothing pends.
LEMMA InitIInv == Init => IInv
  <1> SUFFICES ASSUME Init  PROVE IInv
    OBVIOUS
  <1>1. PICK n \in 0 .. MaxLen : prog \in [1 .. n -> Insns]
    BY DEF Init
  <1>2. prog \in Seq(Insns) /\ Len(prog) = n
    BY <1>1, ProgramAssumption
  <1>3. TypeOK
    BY <1>2, ProgramAssumption DEF Init, TypeOK
  <1> QED  BY <1>3 DEF Init, IInv, CoverKept, DisciplineKept

\* An instruction that is emitted as it is.
LEMMA KeepInv ==
  ASSUME IInv, Keep
  PROVE  IInv'
  <1> DEFINE insn == prog[i]
  <1>1. /\ Advance /\ Emit(insn) /\ i <= Len(prog) /\ TypeOK
        /\ pendIn \in SUBSET AsyncEngines /\ pendOut \in SUBSET AsyncEngines
    BY DEF Keep, Advance, IInv, TypeOK
  <1>2. insn \in Instruction /\ insn.op \in Ops
    BY <1>1, HeadType
  <1>3. TypeOK'
    BY <1>1, <1>2, EmitType, AdvanceType DEF TypeOK
  <1>4. pendIn' = After(pendIn, insn) /\ pendOut' = After(pendOut, insn)
    BY <1>1 DEF Advance, Emit
  <1>5. CoverKept'
    <2>1. CASE insn.op \in ControlOnly
      <3>1. NextEngineOp(i) = NextEngineOp(i)'
        BY <1>1, <2>1, NextSkips, AdvanceType
      <3> QED  BY <1>1, <1>4, <3>1, AfterKeeps DEF IInv, CoverKept
    <2>2. CASE insn.op \in AutoDmaFenced
      BY <1>1, <1>4, <2>2, AfterKeeps DEF CoverKept
    <2>3. CASE insn.op \notin ControlOnly /\ insn.op \notin AutoDmaFenced
      BY <1>1, <1>4, <2>3, ExactCover, AfterKeeps DEF CoverKept
    <2> QED  BY <2>1, <2>2, <2>3
  <1>6. DisciplineKept'
    <2>1. CASE insn.op \in DmaOps \/ insn.op = "MATMUL"
      <3>1. pendOut \subseteq pendIn
        BY <1>1, <1>2, <2>1, OpsDisjoint, ExactCover
      <3> QED  BY <1>1, <3>1 DEF IInv, DisciplineKept, Advance, Emit, Disciplined
    <2>2. CASE insn.op \notin DmaOps /\ insn.op # "MATMUL"
      BY <1>1, <2>2 DEF IInv, DisciplineKept, Advance, Emit, Disciplined
    <2> QED  BY <2>1, <2>2
  <1> QED  BY <1>3, <1>5, <1>6 DEF IInv

\* A SYNC that loses its DMA bit, or all of it.
LEMMA StripInv ==
  ASSUME IInv, Reduce \/ Drop
  PROVE  IInv'
  <1> DEFINE insn == prog[i]
             rest == Sync(insn.mask \ {"dma"})
  <1>1. /\ Advance /\ i <= Len(prog) /\ TypeOK
        /\ insn.op = "SYNC" /\ "dma" \in insn.mask
        /\ NextEngineOp(i + 1) \in AutoDmaFenced
        /\ pendIn \in SUBSET AsyncEngines /\ pendOut \in SUBSET AsyncEngines
    BY DEF Reduce, Drop, Advance, Strips, DmaSync, IInv, TypeOK
  <1>2. insn \in Instruction /\ insn.op \in Ops /\ insn.mask \in SUBSET AsyncEngines
    BY <1>1, HeadType
  <1>3. pendOut \subseteq pendIn
    BY <1>1, <1>2, OpsDisjoint, ExactCover
  <1>4. pendIn' = pendIn \ insn.mask
    BY <1>1, <1>2, AfterSync DEF Advance
  <1>5. NextEngineOp(i)' \in AutoDmaFenced
    BY <1>1, AdvanceType
  <1>6. rest \in Instruction /\ rest.op = "SYNC" /\ rest.mask = insn.mask \ {"dma"}
    BY <1>2, SyncType
  <1>7. CASE Reduce
    <2>1. Emit(rest)
      BY <1>7 DEF Reduce
    <2>2. TypeOK'
      BY <1>1, <1>6, <2>1, EmitType, AdvanceType DEF TypeOK
    <2>3. pendOut' = pendOut \ rest.mask
      BY <1>1, <1>6, <2>1, AfterSync DEF Emit
    <2>4. CoverKept'
      BY <1>3, <1>4, <1>5, <1>6, <2>3 DEF CoverKept
    <2>5. DisciplineKept'
      BY <1>1, <1>6, <2>1 DEF IInv, DisciplineKept, Advance, Emit, Disciplined, DmaOps
    <2> QED  BY <2>2, <2>4, <2>5 DEF IInv
  <1>8. CASE Drop
    <2>1. insn.mask = {"dma"} /\ UNCHANGED <<out, pendOut, okOut>>
      BY <1>8 DEF Drop
    <2>2. TypeOK'
      BY <1>1, <2>1, AdvanceType DEF TypeOK
    <2>3. CoverKept'
      BY <1>3, <1>4, <1>5, <2>1 DEF CoverKept
    <2>4. DisciplineKept'
      BY <1>1, <2>1 DEF IInv, DisciplineKept, Advance
    <2> QED  BY <2>2, <2>3, <2>4 DEF IInv
  <1> QED  BY <1>7, <1>8

\* The inductive invariant holds of every program, whatever its length.
THEOREM CoalesceInvariance == Spec => []IInv
  <1>1. IInv /\ [Next]_vars => IInv'
    <2>1. ASSUME IInv, UNCHANGED vars  PROVE IInv'
      BY <2>1 DEF IInv, TypeOK, CoverKept, DisciplineKept, NextEngineOp, FirstOf,
                  Runs, vars
    <2> QED  BY KeepInv, StripInv, <2>1 DEF Next
  <1> QED  BY InitIInv, <1>1, PTL DEF Spec

\* sync_coalesce.py never turns a program that keeps the SYNC discipline into
\* one that does not: no transfer is dispatched into a busy DMA engine, and no
\* MATMUL ahead of its operands, because of the pass.
THEOREM DisciplineSurvives == Spec => []DisciplineKept
  BY CoalesceInvariance, PTL DEF IInv

\* All that the pass leaves uncovered is covered by the next engine operation.
THEOREM CoverSurvives == Spec => []CoverKept
  BY CoalesceInvariance, PTL DEF IInv

=============================================================================
