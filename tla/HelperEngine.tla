---------------------------- MODULE HelperEngine ----------------------------
(***************************************************************************)
(* The blocking helper engine: BUF_COPY, VADD and SCALE_MUL.  A step is    *)
(* one clock edge; a read state puts the address on a port, the state      *)
(* after it finds the row there.                                           *)
(*                                                                         *)
(* Two walks are bounded by tile counts the engine reads live; Accelerator *)
(* shows that they do not change while it works.  The branches for an SRAM *)
(* fault in the middle of a walk are left out: AccessInBounds of Datapath  *)
(* says that no state makes such an access.                                *)
(***************************************************************************)
EXTENDS Sram

CONSTANT Jobs

VARIABLES
  state,   \* the FSM
  job,     \* the registers loaded on dispatch
  at,      \* the counters of the walks
  latch    \* trans_scratch_q, bias_data_q, sm_row0_q, sm_row1_q

Job ==
  [op : {"BUF_COPY", "VADD", "SCALE_MUL"},
   src1 : Place, src2 : Place, dst : Place, m : Nat \ {0}, n : Nat \ {0},
   length : Nat, srcRows : Nat, transpose : BOOLEAN]

Busy == state \notin {"IDLE", "FAULT"}

-----------------------------------------------------------------------------
(* Validation at dispatch.  Definitions named "Mutant..." are defects the  *)
(* properties must notice; no specification uses them.                     *)

IsVaddFp16(j) == j.src1.buf = "ABUF" /\ j.src2.buf # "ACCUM" /\ j.dst.buf = "ABUF"
IsVaddBias(j) == j.src1.buf = "ACCUM" /\ j.src2.buf = "WBUF" /\ j.dst.buf = "ACCUM"
Narrows(j)    == j.src1.buf = "ACCUM" /\ j.dst.buf # "ACCUM"

\* The geometry of a transpose: length counts SRAM rows of Dim bytes, srcRows
\* tiles of Dim lines, so a line has length / srcRows bytes.
LineBytes(j) == IF j.srcRows = 0 THEN 0 ELSE j.length \div j.srcRows
Columns(j)   == LineBytes(j) \div 2
Lines(j)     == j.srcRows * Dim

Misaligned(j) == LineBytes(j) % 2 # 0 \/ Columns(j) % Half # 0 \/ Lines(j) % Half # 0

Unsupported(j) ==
  \/ /\ j.op = "BUF_COPY" /\ j.transpose /\ j.length # 0
     /\ \/ j.srcRows = 0
        \/ j.length % j.srcRows # 0
        \/ j.src1.buf = j.dst.buf
        \/ Misaligned(j)
  \/ j.op = "VADD" /\ ~IsVaddFp16(j) /\ ~IsVaddBias(j)
  \/ j.op = "SCALE_MUL" /\ j.src1.buf # "ACCUM" /\ j.dst.buf = "ACCUM"

\* SRAM rows the instruction covers at each of its places.
Src1Rows(j) == IF j.op = "BUF_COPY" THEN j.length ELSE MatrixRows(j.src1, j)
Src2Rows(j) == IF j.op # "VADD" THEN 0
               ELSE IF IsVaddBias(j) THEN LineRows("WBUF", j.n)
               ELSE MatrixRows(j.src2, j)
DstRows(j)  == IF j.op = "BUF_COPY" THEN j.length ELSE MatrixRows(j.dst, j)

MutantOutOfBounds(j) == ~Fits(j.src1, Src1Rows(j)) \/ ~Fits(j.dst, DstRows(j))

OutOfBounds(j) ==
  \/ ~Fits(j.src1, Src1Rows(j))
  \/ j.op = "VADD" /\ ~Fits(j.src2, Src2Rows(j))
  \/ ~Fits(j.dst, DstRows(j))

MutantGoesBackward(j) == FALSE       \* always copies upwards

\* memmove: from the end when the destination begins inside the source.
GoesBackward(j) ==
  /\ j.src1.buf = j.dst.buf
  /\ j.src1.off < j.dst.off + j.length /\ j.dst.off < j.src1.off + j.length
  /\ j.dst.off > j.src1.off

FirstState(j) ==
  IF Unsupported(j) \/ OutOfBounds(j) THEN "FAULT"
  ELSE CASE j.op = "BUF_COPY" /\ j.length = 0                   -> "IDLE"
         [] j.op = "BUF_COPY" /\ j.length # 0 /\ j.transpose    -> "TSRC_REQ"
         [] j.op = "BUF_COPY" /\ j.length # 0 /\ ~j.transpose   -> "FLAT_READ"
         [] j.op = "VADD" /\ IsVaddFp16(j)                      -> "V16_READ"
         [] j.op = "VADD" /\ ~IsVaddFp16(j)                     -> "VB_REQ"
         [] j.op = "SCALE_MUL" /\ Narrows(j)                    -> "SM2_REQ"
         [] j.op = "SCALE_MUL" /\ ~Narrows(j)                   -> "SM1_REQ"

\* An instruction resets the counters of its own walk only.
FirstAt(j) ==
  LET first == FirstState(j) IN
  CASE first = "FLAT_READ" -> [at EXCEPT !.step = 0, !.backward = GoesBackward(j)]
    [] first = "TSRC_REQ"  -> [at EXCEPT !.rbase = 0, !.cbase = 0, !.src = 0, !.dst = 0]
    [] first = "VB_REQ"    -> [at EXCEPT !.chunk = 0, !.half = 0, !.row = 0]
    [] first = "SM2_REQ"   -> [at EXCEPT !.step = 0, !.part = 0]
    [] first \in {"V16_READ", "SM1_REQ"} -> [at EXCEPT !.step = 0]
    [] OTHER               -> at

Dispatch ==
  /\ state = "IDLE"
  /\ \E j \in Jobs : job' = j /\ state' = FirstState(j) /\ at' = FirstAt(j)
  /\ QuietA /\ QuietB
  /\ UNCHANGED latch

-----------------------------------------------------------------------------
(* Where the walks stand.                                                  *)

FlatRow(place) == place.off + (IF at.backward THEN job.length - at.step - 1 ELSE at.step)

TransSrcRow == job.src1.off + (at.rbase + at.src) * (Columns(job) \div Half) + at.cbase \div Half
TransDstRow == job.dst.off + (at.cbase + at.dst) * (Lines(job) \div Half) + at.rbase \div Half

BiasRow == job.src2.off + at.chunk
AccRow(place) == place.off + at.row * LineRows("ACCUM", job.n) + 2 * at.chunk + at.half

StepRow(place) == place.off + at.step

NarrowRow == job.src1.off + 2 * at.step + at.part

\* The accesses of a state, for AccessInBounds.
Accesses ==
  CASE state = "FLAT_READ"  -> {<<job.src1.buf, FlatRow(job.src1)>>}
    [] state = "FLAT_WRITE" -> {<<job.dst.buf, FlatRow(job.dst)>>}
    [] state = "TSRC_REQ"   -> {<<job.src1.buf, TransSrcRow>>}
    [] state = "TDST_WRITE" -> {<<job.dst.buf, TransDstRow>>}
    [] state = "V16_READ"   -> {<<job.src1.buf, StepRow(job.src1)>>,
                                <<job.src2.buf, StepRow(job.src2)>>}
    [] state = "VB_REQ"     -> {<<job.src2.buf, BiasRow>>}
    [] state = "VACC_READ"  -> {<<job.src1.buf, AccRow(job.src1)>>}
    [] state = "VACC_WRITE" -> {<<job.dst.buf, AccRow(job.dst)>>}
    [] state = "SM1_REQ"    -> {<<job.src1.buf, StepRow(job.src1)>>}
    [] state = "SM2_REQ"    -> {<<job.src1.buf, NarrowRow>>}
    [] state \in {"V16_WRITE", "SM1_WRITE", "SM2_WRITE"}
                            -> {<<job.dst.buf, StepRow(job.dst)>>}
    [] OTHER                -> {}

Goto(next) == state' = next /\ UNCHANGED job

\* A walk of total steps goes back to a state for the next one.
NextStep(total, next, part) ==
  IF at.step + 1 >= total
  THEN Goto("IDLE") /\ UNCHANGED at
  ELSE Goto(next) /\ at' = [at EXCEPT !.step = @ + 1, !.part = part]

-----------------------------------------------------------------------------
(* BUF_COPY.                                                               *)

FlatRead ==
  /\ state = "FLAT_READ"
  /\ ReadA(job.src1.buf, FlatRow(job.src1)) /\ QuietB
  /\ Goto("FLAT_WRITE")
  /\ UNCHANGED <<at, latch>>

FlatWrite ==
  /\ state = "FLAT_WRITE"
  /\ WriteA(job.dst.buf, FlatRow(job.dst), rdataA) /\ QuietB
  /\ NextStep(job.length, "FLAT_READ", at.part)
  /\ UNCHANGED latch

TransRequest ==
  /\ state = "TSRC_REQ"
  /\ ReadA(job.src1.buf, TransSrcRow) /\ QuietB
  /\ Goto("TSRC_LATCH")
  /\ UNCHANGED <<at, latch>>

TransLatch ==
  /\ state = "TSRC_LATCH"
  /\ latch' = [latch EXCEPT !.scratch[at.src] = rdataA]
  /\ IF at.src + 1 >= Half
     THEN at' = [at EXCEPT !.dst = 0] /\ Goto("TDST_WRITE")
     ELSE at' = [at EXCEPT !.src = @ + 1] /\ Goto("TSRC_REQ")
  /\ QuietA /\ QuietB

MutantNextBlock ==                   \* starts the same line of blocks again
  IF at.cbase + Half < Columns(job)
  THEN at' = [at EXCEPT !.cbase = @ + Half, !.src = 0] /\ Goto("TSRC_REQ")
  ELSE IF at.rbase + Half < Lines(job)
  THEN at' = [at EXCEPT !.cbase = 0, !.src = 0] /\ Goto("TSRC_REQ")
  ELSE UNCHANGED at /\ Goto("IDLE")

\* The next block: to the right, then down.
NextBlock ==
  IF at.cbase + Half < Columns(job)
  THEN at' = [at EXCEPT !.cbase = @ + Half, !.src = 0] /\ Goto("TSRC_REQ")
  ELSE IF at.rbase + Half < Lines(job)
  THEN at' = [at EXCEPT !.rbase = @ + Half, !.cbase = 0, !.src = 0] /\ Goto("TSRC_REQ")
  ELSE UNCHANGED at /\ Goto("IDLE")

TransWrite ==
  /\ state = "TDST_WRITE"
  /\ WriteA(job.dst.buf, TransDstRow, [i \in 0 .. Half - 1 |-> latch.scratch[i][at.dst]])
  /\ QuietB
  /\ IF at.dst + 1 < Half
     THEN at' = [at EXCEPT !.dst = @ + 1] /\ Goto("TDST_WRITE")
     ELSE NextBlock
  /\ UNCHANGED latch

-----------------------------------------------------------------------------
(* VADD.                                                                   *)

V16Read ==
  /\ state = "V16_READ"
  /\ ReadA(job.src2.buf, StepRow(job.src2))
  /\ ReadB(job.src1.buf, StepRow(job.src1))
  /\ Goto("V16_WRITE")
  /\ UNCHANGED <<at, latch>>

V16Write ==
  /\ state = "V16_WRITE"
  /\ WriteA(job.dst.buf, StepRow(job.dst),
            [l \in 0 .. Half - 1 |-> Fp16(Sum(rdataB[l], rdataA[l]))])
  /\ QuietB
  /\ NextStep(MatrixRows(job.dst, job), "V16_READ", at.part)
  /\ UNCHANGED latch

BiasRequest ==
  /\ state = "VB_REQ"
  /\ ReadB(job.src2.buf, BiasRow) /\ QuietA
  /\ Goto("VB_LATCH")
  /\ UNCHANGED <<at, latch>>

BiasLatch ==
  /\ state = "VB_LATCH"
  /\ latch' = [latch EXCEPT !.bias = rdataB]
  /\ at' = [at EXCEPT !.row = 0, !.half = 0]
  /\ Goto("VACC_READ")
  /\ QuietA /\ QuietB

AccRead ==
  /\ state = "VACC_READ"
  /\ ReadA(job.src1.buf, AccRow(job.src1)) /\ QuietB
  /\ Goto("VACC_WRITE")
  /\ UNCHANGED <<at, latch>>

\* One bias row serves both its groups of every line, then comes the next.
AccWrite ==
  /\ state = "VACC_WRITE"
  /\ WriteA(job.dst.buf, AccRow(job.dst),
            [l \in 0 .. Group - 1 |-> Sum(rdataA[l], latch.bias[at.half * Group + l])])
  /\ QuietB
  /\ CASE at.half = 0 ->
            at' = [at EXCEPT !.half = 1] /\ Goto("VACC_READ")
       [] at.half = 1 /\ at.row + 1 < job.m * Dim ->
            at' = [at EXCEPT !.half = 0, !.row = @ + 1] /\ Goto("VACC_READ")
       [] at.half = 1 /\ at.row + 1 >= job.m * Dim /\ at.chunk + 1 < 2 * job.n ->
            at' = [at EXCEPT !.chunk = @ + 1] /\ Goto("VB_REQ")
       [] OTHER -> UNCHANGED at /\ Goto("IDLE")
  /\ UNCHANGED latch

-----------------------------------------------------------------------------
(* SCALE_MUL.                                                              *)

ScaleRequest ==
  /\ state = "SM1_REQ"
  /\ ReadB(job.src1.buf, StepRow(job.src1)) /\ QuietA
  /\ Goto("SM1_WRITE")
  /\ UNCHANGED <<at, latch>>

ScaleOf(buf, x) == IF buf = "ACCUM" THEN Scaled(x) ELSE Fp16(Scaled(x))

ScaleWrite ==
  /\ state = "SM1_WRITE"
  /\ WriteA(job.dst.buf, StepRow(job.dst),
            [l \in 0 .. Lanes(job.src1.buf) - 1 |-> ScaleOf(job.src1.buf, rdataB[l])])
  /\ QuietB
  /\ NextStep(MatrixRows(job.src1, job), "SM1_REQ", at.part)
  /\ UNCHANGED latch

NarrowRequest ==
  /\ state = "SM2_REQ"
  /\ ReadB(job.src1.buf, NarrowRow) /\ QuietA
  /\ Goto("SM2_LATCH")
  /\ UNCHANGED <<at, latch>>

NarrowLatch ==
  /\ state = "SM2_LATCH"
  /\ IF at.part = 0
     THEN latch' = [latch EXCEPT !.row0 = rdataB] /\ at' = [at EXCEPT !.part = 1]
          /\ Goto("SM2_REQ")
     ELSE latch' = [latch EXCEPT !.row1 = rdataB] /\ UNCHANGED at /\ Goto("SM2_WRITE")
  /\ QuietA /\ QuietB

NarrowWrite ==
  /\ state = "SM2_WRITE"
  /\ WriteA(job.dst.buf, StepRow(job.dst),
            [l \in 0 .. Half - 1 |->
               Fp16(Scaled(IF l < Group THEN latch.row0[l] ELSE latch.row1[l - Group]))])
  /\ QuietB
  /\ NextStep(MatrixRows(job.dst, job), "SM2_REQ", 0)
  /\ UNCHANGED latch

-----------------------------------------------------------------------------

Init ==
  /\ state = "IDLE"
  /\ job = CHOOSE j \in Jobs : TRUE     \* not read before a dispatch
  /\ at = [step |-> 0, backward |-> FALSE, rbase |-> 0, cbase |-> 0, src |-> 0, dst |-> 0,
           chunk |-> 0, half |-> 0, row |-> 0, part |-> 0]
  /\ latch = [scratch |-> [i \in 0 .. Half - 1 |-> NoRow], bias |-> NoRow,
              row0 |-> NoRow, row1 |-> NoRow]

Work ==
  \/ FlatRead \/ FlatWrite \/ TransRequest \/ TransLatch \/ TransWrite
  \/ V16Read \/ V16Write \/ BiasRequest \/ BiasLatch \/ AccRead \/ AccWrite
  \/ ScaleRequest \/ ScaleWrite \/ NarrowRequest \/ NarrowLatch \/ NarrowWrite

-----------------------------------------------------------------------------
(* What an accepted instruction promises, for the memory before it.        *)

\* The walk by columns of a bias row goes back and forth, so there only
\* exactly the same place will do.
Defined(j) ==
  CASE j.op = "BUF_COPY" -> TRUE
    [] j.op = "VADD" /\ IsVaddBias(j) ->
         \/ j.src1.off = j.dst.off
         \/ RowsOf(j.src1, Src1Rows(j)) \intersect RowsOf(j.dst, DstRows(j)) = {}
    [] j.op = "VADD" /\ ~IsVaddBias(j) ->
         /\ NeverAhead(j.src1, j.dst, Src1Rows(j), DstRows(j))
         /\ NeverAhead(j.src2, j.dst, Src2Rows(j), DstRows(j))
    [] j.op = "SCALE_MUL" -> NeverAhead(j.src1, j.dst, Src1Rows(j), DstRows(j))

Result(j, memory) ==
  LET columns == j.n * Dim
      Src1(line, column) == Element(memory, j.src1, columns, line, column)
      Add(line, column) ==
        IF IsVaddBias(j)
        THEN Sum(Src1(line, column), Element(memory, j.src2, columns, 0, column))
        ELSE Fp16(Sum(Src1(line, column), Element(memory, j.src2, columns, line, column)))
      Scale(line, column) == ScaleOf(j.dst.buf, Src1(line, column))
      Same(line, column) == Element(memory, j.src1, Lanes(j.src1.buf), line, column)
      Transposed(line, column) == Element(memory, j.src1, Columns(j), column, line)
  IN
  CASE j.op = "BUF_COPY" /\ j.transpose /\ j.length # 0
                           -> Stored(memory, j.dst, j.length, Lines(j), Transposed)
    [] j.op = "BUF_COPY" /\ ~(j.transpose /\ j.length # 0)
                           -> Stored(memory, j.dst, j.length, Lanes(j.src1.buf), Same)
    [] j.op = "VADD"       -> Stored(memory, j.dst, DstRows(j), columns, Add)
    [] j.op = "SCALE_MUL"  -> Stored(memory, j.dst, DstRows(j), columns, Scale)

=============================================================================
