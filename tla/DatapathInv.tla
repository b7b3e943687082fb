---------------------------- MODULE DatapathInv ----------------------------
(***************************************************************************)
(* The inductive invariants of Datapath, in a module of their own so that  *)
(* TLC checks them on instances and DatapathProofs proves them for all:    *)
(* where each walk stands in the job that was accepted, and what memory    *)
(* and the registers hold while it goes on.                                *)
(***************************************************************************)
EXTENDS Datapath, Integers

\* The counters of the two engines.
HelperCounters ==
  [step : Nat, backward : BOOLEAN, rbase : Nat, cbase : Nat, src : Nat, dst : Nat,
   chunk : Nat, half : Nat, row : Nat, part : Nat]
SfuCounters == [row : Nat, read : Nat, chunk : Nat, part : Nat]

\* The states of each walk of the helper engine.
Flat    == {"FLAT_READ", "FLAT_WRITE"}
Transp  == {"TSRC_REQ", "TSRC_LATCH", "TDST_WRITE"}
Vadd16  == {"V16_READ", "V16_WRITE"}
Bias    == {"VB_REQ", "VB_LATCH"}
Accum   == {"VACC_READ", "VACC_WRITE"}
ScaleW  == {"SM1_REQ", "SM1_WRITE"}
NarrowW == {"SM2_REQ", "SM2_LATCH", "SM2_WRITE"}
HelperStates == {"IDLE", "FAULT"} \union Flat \union Transp \union Vadd16 \union Bias \union Accum
                  \union ScaleW \union NarrowW

\* The states of each walk of the SFU.
Params  == {"PARAM_REQ", "PARAM_LATCH"}
Line16  == {"FP16_REQ", "FP16_LATCH"}
Line32  == {"FP32_REQ", "FP32_LATCH"}
LineOut == {"COMPUTE", "PACK", "WRITE"}
Gelu16W == {"GELU16_REQ", "GELU16_LATCH", "GELU16_WRITE"}
Gelu32W == {"GELU32_REQ", "GELU32_LATCH", "GELU32_WRITE"}
SfuStates == {"IDLE", "FAULT"} \union Params \union Line16 \union Line32 \union LineOut
               \union Gelu16W \union Gelu32W

\* A job that passed the checks at its dispatch.
HelperAccepted(j) == j \in HelperJobs /\ ~Helper!Unsupported(j) /\ ~Helper!OutOfBounds(j)
SfuAccepted(j)    == j \in SfuJobs /\ ~Sfu!Unsupported(j) /\ ~Sfu!OutOfBounds(j)

\* The blocks of a transposed matrix, across and down.
Across(j) == Helper!Columns(j) \div Half
Down(j)   == Helper!Lines(j) \div Half

\* Row r and column c are those of a block of a matrix.
AtBlock(r, c, down, across) ==
  \E a \in 0 .. down - 1, b \in 0 .. across - 1 : r = a * Half /\ c = b * Half

\* Where the walks of the helper engine stand in an accepted job.
HelperWalk ==
  /\ hState \in Flat   => hJob.op = "BUF_COPY" /\ hAt.step < hJob.length
  /\ hState \in Transp =>
       /\ hJob.op = "BUF_COPY" /\ hJob.transpose /\ hJob.length # 0
       /\ AtBlock(hAt.rbase, hAt.cbase, Down(hJob), Across(hJob))
       /\ hAt.src < Half
       /\ hState = "TDST_WRITE" => hAt.dst < Half
  /\ hState \in Vadd16 => /\ hJob.op = "VADD" /\ Helper!IsVaddFp16(hJob)
                          /\ hAt.step < MatrixRows(hJob.dst, hJob)
  /\ hState \in Bias \union Accum => /\ hJob.op = "VADD" /\ Helper!IsVaddBias(hJob)
                                     /\ hAt.chunk < 2 * hJob.n
  /\ hState \in Accum => hAt.row < hJob.m * Dim /\ hAt.half \in {0, 1}
  /\ hState \in ScaleW => /\ hJob.op = "SCALE_MUL" /\ ~Helper!Narrows(hJob)
                          /\ hAt.step < MatrixRows(hJob.src1, hJob)
  /\ hState \in NarrowW => /\ hJob.op = "SCALE_MUL" /\ Helper!Narrows(hJob)
                           /\ hAt.step < MatrixRows(hJob.dst, hJob)
                           /\ hAt.part \in {0, 1}

HelperInv ==
  /\ hState \in HelperStates
  /\ hAt \in HelperCounters
  /\ Helper!Busy => HelperAccepted(hJob) /\ HelperWalk

\* Where a walk of the SFU stands in an accepted job j, with counters s in
\* state t.
SfuWalk(j, s, t) ==
  /\ t \in Params => j.op = "LAYERNORM" /\ s.read < 4 * j.n
  /\ t \in Line16 => s.read < 2 * j.n /\ j.op # "GELU" /\ j.src1.buf # "ACCUM"
  /\ t \in Line32 => s.read < 4 * j.n /\ j.op = "SOFTMAX" /\ j.src1.buf = "ACCUM"
  /\ t \in LineOut => j.op # "GELU"
  /\ t \in Gelu16W => j.op = "GELU" /\ j.src1.buf # "ACCUM"
  /\ t \in Gelu32W => j.op = "GELU" /\ j.src1.buf = "ACCUM" /\ s.part \in {0, 1}
  /\ t \in LineOut \union Gelu16W \union Gelu32W => s.chunk < 2 * j.n
  /\ s.row < j.m * Dim

SfuInv ==
  /\ sState \in SfuStates
  /\ sAt \in SfuCounters
  /\ Sfu!Busy => SfuAccepted(sJob) /\ SfuWalk(sJob, sAt, sState)

WalksInside == HelperInv /\ SfuInv

-----------------------------------------------------------------------------
(* What the walks leave in memory.                                         *)

\* A row of a buffer, and the three buffers, whatever their elements are.
IsRow(buf, word) == word = [x \in 0 .. Lanes(buf) - 1 |-> word[x]]
IsMemory(memory) ==
  memory = [b \in Buffers |-> [r \in 0 .. BufRows[b] - 1 |->
                                 [x \in 0 .. Lanes(b) - 1 |-> memory[b][r][x]]]]

\* A memory with some of the rows of a result in place: row k of the result
\* for each k that is done.
Image(memory, dst, words, done) ==
  [b \in Buffers |-> [r \in 0 .. BufRows[b] - 1 |->
     IF b = dst.buf /\ r - dst.off \in done THEN words[r - dst.off] ELSE memory[b][r]]]

\* Row k of the result of each walk of the helper engine.
FlatWords(j, memory) ==
  [k \in 0 .. j.length - 1 |-> memory[j.src1.buf][j.src1.off + k]]
TransWords(j, memory) ==
  [k \in 0 .. j.length - 1 |-> [x \in 0 .. Half - 1 |->
     memory[j.src1.buf][j.src1.off + ((k % Down(j)) * Half + x) * Across(j)
                                   + (k \div Down(j)) \div Half][(k \div Down(j)) % Half]]]
V16Words(j, memory) ==
  [k \in 0 .. MatrixRows(j.dst, j) - 1 |-> [x \in 0 .. Half - 1 |->
     Fp16(Sum(memory[j.src1.buf][j.src1.off + k][x], memory[j.src2.buf][j.src2.off + k][x]))]]
BiasWords(j, memory) ==
  [k \in 0 .. MatrixRows(j.dst, j) - 1 |-> [x \in 0 .. Group - 1 |->
     Sum(memory[j.src1.buf][j.src1.off + k][x],
         memory[j.src2.buf][j.src2.off + (k % (4 * j.n)) \div 2]
               [((k % (4 * j.n)) % 2) * Group + x])]]
ScaleWords(j, memory) ==
  [k \in 0 .. MatrixRows(j.dst, j) - 1 |-> [x \in 0 .. Lanes(j.dst.buf) - 1 |->
     Helper!ScaleOf(j.dst.buf, memory[j.src1.buf][j.src1.off + k][x])]]
NarrowWords(j, memory) ==
  [k \in 0 .. MatrixRows(j.dst, j) - 1 |-> [x \in 0 .. Half - 1 |->
     Fp16(Scaled(IF x < Group THEN memory[j.src1.buf][j.src1.off + 2 * k][x]
                 ELSE memory[j.src1.buf][j.src1.off + 2 * k + 1][x - Group]))]]

\* The rows each walk has written.
Upto(n) == 0 .. n - 1
FlatDone ==
  IF hAt.backward THEN (hJob.length - hAt.step) .. (hJob.length - 1) ELSE Upto(hAt.step)
TransDone ==
  {k \in Upto(hJob.length) :
     \/ (k % Down(hJob)) * Half < hAt.rbase
     \/ /\ (k % Down(hJob)) * Half = hAt.rbase
        /\ k \div Down(hJob) < hAt.cbase + (IF hState = "TDST_WRITE" THEN hAt.dst ELSE 0)}
BiasDone ==
  {k \in Upto(MatrixRows(hJob.dst, hJob)) :
     LET r == k \div (4 * hJob.n)
         b == k % (4 * hJob.n)
     IN  \/ b < 2 * hAt.chunk
         \/ /\ hState \in Accum /\ b < 2 * hAt.chunk + 2
            /\ r < hAt.row \/ (r = hAt.row /\ b < 2 * hAt.chunk + hAt.half)}

\* Where each walk of the helper engine stands, and what its registers hold,
\* in terms of the memory before the instruction.
FlatInv ==
  /\ ~(hJob.transpose /\ hJob.length # 0)
  /\ hAt.backward = Helper!GoesBackward(hJob)
  /\ mem = Image(before, hJob.dst, FlatWords(hJob, before), FlatDone)
  /\ hState = "FLAT_WRITE" => rdataA = before[hJob.src1.buf][Helper!FlatRow(hJob.src1)]

TransInv ==
  /\ mem = Image(before, hJob.dst, TransWords(hJob, before), TransDone)
  /\ hState = "TSRC_LATCH" => rdataA = before[hJob.src1.buf][Helper!TransSrcRow]
  /\ \A i \in 0 .. Half - 1 : i < hAt.src \/ hState = "TDST_WRITE" =>
       hLatch.scratch[i] = before[hJob.src1.buf]
          [hJob.src1.off + (hAt.rbase + i) * Across(hJob) + hAt.cbase \div Half]

V16Inv ==
  /\ mem = Image(before, hJob.dst, V16Words(hJob, before), Upto(hAt.step))
  /\ hState = "V16_WRITE" =>
       /\ rdataA = before[hJob.src2.buf][Helper!StepRow(hJob.src2)]
       /\ rdataB = before[hJob.src1.buf][Helper!StepRow(hJob.src1)]

BiasInv ==
  /\ mem = Image(before, hJob.dst, BiasWords(hJob, before), BiasDone)
  /\ hState = "VB_LATCH" => rdataB = before[hJob.src2.buf][Helper!BiasRow]
  /\ hState \in Accum => hLatch.bias = before[hJob.src2.buf][Helper!BiasRow]
  /\ hState = "VACC_WRITE" => rdataA = before[hJob.src1.buf][Helper!AccRow(hJob.src1)]

ScaleInv ==
  /\ mem = Image(before, hJob.dst, ScaleWords(hJob, before), Upto(hAt.step))
  /\ hState = "SM1_WRITE" => rdataB = before[hJob.src1.buf][Helper!StepRow(hJob.src1)]

NarrowInv ==
  /\ mem = Image(before, hJob.dst, NarrowWords(hJob, before), Upto(hAt.step))
  /\ hState = "SM2_LATCH" => rdataB = before[hJob.src1.buf][Helper!NarrowRow]
  /\ hAt.part = 1 =>
       hLatch.row0 = before[hJob.src1.buf][hJob.src1.off + 2 * hAt.step]
  /\ hState = "SM2_WRITE" =>
       /\ hAt.part = 1
       /\ hLatch.row1 = before[hJob.src1.buf][hJob.src1.off + 2 * hAt.step + 1]

HelperProgress ==
  Helper!Defined(hJob) =>
    /\ hState \in Flat               => FlatInv
    /\ hState \in Transp             => TransInv
    /\ hState \in Vadd16             => V16Inv
    /\ hState \in Bias \union Accum  => BiasInv
    /\ hState \in ScaleW             => ScaleInv
    /\ hState \in NarrowW            => NarrowInv

\* An element of the source and of the parameters of the SFU, and of its
\* result.
SfuSource(j, memory, line, i) ==
  memory[j.src1.buf][j.src1.off + line * LineRows(j.src1.buf, j.n) + i \div Lanes(j.src1.buf)]
        [i % Lanes(j.src1.buf)]
SfuParam(j, memory, i) == memory[j.src2.buf][j.src2.off + i \div Half][i % Half]
SfuLine(j, memory, line) ==
  [i \in 1 .. Sfu!Elems(j) |-> SfuSource(j, memory, line, i - 1)]
SfuValue(j, memory, line, i) ==
  CASE j.op = "SOFTMAX" ->
         Fp16(Softmax(SfuSource(j, memory, line, i), SfuLine(j, memory, line)))
    [] j.op = "LAYERNORM" ->
         Fp16(Norm(SfuSource(j, memory, line, i), SfuLine(j, memory, line),
                   SfuParam(j, memory, i), SfuParam(j, memory, Sfu!Elems(j) + i)))
    [] j.op = "GELU" -> Fp16(Gelu(SfuSource(j, memory, line, i)))
SfuWords(j, memory) ==
  [k \in 0 .. MatrixRows(j.dst, j) - 1 |-> [x \in 0 .. Half - 1 |->
     SfuValue(j, memory, k \div (2 * j.n), (k % (2 * j.n)) * Half + x)]]

\* The words the SFU has written.
SfuDone ==
  sAt.row * (2 * sJob.n)
    + (IF sState \in LineOut \union Gelu16W \union Gelu32W THEN sAt.chunk ELSE 0)

ParamInv ==
  /\ sAt.row = 0
  /\ sState = "PARAM_LATCH" => rdataB = before[sJob.src2.buf][Sfu!ParamRow]
  /\ \A i \in Upto(Sfu!Elems(sJob)) :
       /\ i \div Half < sAt.read => sLatch.gamma[i] = SfuParam(sJob, before, i)
       /\ i \div Half + 2 * sJob.n < sAt.read =>
            sLatch.beta[i] = SfuParam(sJob, before, Sfu!Elems(sJob) + i)

NormInv ==
  \A i \in Upto(Sfu!Elems(sJob)) :
    /\ sLatch.gamma[i] = SfuParam(sJob, before, i)
    /\ sLatch.beta[i] = SfuParam(sJob, before, Sfu!Elems(sJob) + i)

LineInv ==
  /\ sState \in {"FP16_LATCH", "FP32_LATCH"} => rdataB = before[sJob.src1.buf][Sfu!ReadRow]
  /\ \A i \in Upto(Sfu!Elems(sJob)) :
       i \div Lanes(sJob.src1.buf) < sAt.read \/ sState \in LineOut =>
         sLatch.line[i] = SfuSource(sJob, before, sAt.row, i)
  /\ sState \in {"PACK", "WRITE"} => \A i \in Upto(Sfu!Elems(sJob)) :
       sLatch.out[i] = SfuValue(sJob, before, sAt.row, i)
  /\ sState = "WRITE" =>
       sLatch.word = [x \in 0 .. Half - 1 |->
                        SfuValue(sJob, before, sAt.row, sAt.chunk * Half + x)]

GeluInv ==
  /\ sState = "GELU16_LATCH" => rdataB = before[sJob.src1.buf][Sfu!Gelu16Row]
  /\ sState = "GELU16_WRITE" => sLatch.gelu = before[sJob.src1.buf][Sfu!Gelu16Row]
  /\ sState = "GELU32_LATCH" => rdataB = before[sJob.src1.buf][Sfu!Gelu32Row]
  /\ sState \in Gelu32W /\ sAt.part = 1 =>
       sLatch.gelu0 = before[sJob.src1.buf][Sfu!LineStart(sJob.src1) + 2 * sAt.chunk]
  /\ sState = "GELU32_WRITE" =>
       /\ sAt.part = 1
       /\ sLatch.gelu1 = before[sJob.src1.buf][Sfu!LineStart(sJob.src1) + 2 * sAt.chunk + 1]

SfuStands ==
  /\ mem = Image(before, sJob.dst, SfuWords(sJob, before), Upto(SfuDone))
  /\ sState \in Params => ParamInv
  /\ sState \in Line16 \union Line32 \union LineOut =>
       LineInv /\ (sJob.op = "LAYERNORM" => NormInv)
  /\ sState \in Gelu16W \union Gelu32W => GeluInv

SfuProgress == Sfu!Busy /\ Sfu!Defined(sJob) => SfuStands

\* The shape of what lies in memory and in the registers.
ShapeInv ==
  /\ IsMemory(mem) /\ IsMemory(before)
  /\ hLatch = [scratch |-> [i \in 0 .. Half - 1 |-> hLatch.scratch[i]], bias |-> hLatch.bias,
               row0 |-> hLatch.row0, row1 |-> hLatch.row1]
  /\ sLatch = [line |-> sLatch.line, gamma |-> sLatch.gamma, beta |-> sLatch.beta,
               out |-> sLatch.out, word |-> sLatch.word, gelu |-> sLatch.gelu,
               gelu0 |-> sLatch.gelu0, gelu1 |-> sLatch.gelu1]
  /\ hState = "FLAT_WRITE" => IsRow(hJob.dst.buf, rdataA)
  /\ sState = "WRITE" => IsRow("ABUF", sLatch.word)

\* Only the engine that has the last instruction is busy.
TurnInv ==
  /\ Helper!Busy => last = "helper" /\ sState = "IDLE"
  /\ Sfu!Busy => last = "sfu" /\ hState = "IDLE"

ResultInv ==
  /\ TurnInv /\ ShapeInv
  /\ HelperProgress /\ SfuProgress
  /\ HelperResult /\ SfuResult

\* A flat copy moves rows as they are.  Between ACCUM, whose rows hold half as
\* many elements, and another buffer it would cut every element in bytes, which
\* elements that are symbols cannot say; no instruction the compiler emits for
\* this datapath does so (codegen_w8a16.py:291, 642: it scales instead).
CopiesKeepWidth ==
  \A j \in HelperJobs :
    j.op = "BUF_COPY" => (j.src1.buf = "ACCUM" <=> j.dst.buf = "ACCUM")

=============================================================================
