----------------------------- MODULE SfuEngine -----------------------------
(***************************************************************************)
(* The SFU engine: SOFTMAX, LAYERNORM and GELU.  A step is one clock edge. *)
(* Softmax and layer norm read a whole line into registers, compute it in  *)
(* one step and write it back word by word; GELU goes word by word.        *)
(*                                                                         *)
(* As in HelperEngine the branches for an SRAM fault in the middle of a    *)
(* walk are left out.                                                      *)
(***************************************************************************)
EXTENDS Sram

CONSTANTS
  Jobs,
  MaxRow   \* SFU_MAX_ROW_ELEMS: what the line registers hold

VARIABLES
  state,   \* the FSM
  job,     \* the registers loaded on dispatch
  at,      \* row_idx_q, read_idx_q, write_chunk_q, gelu_part_q
  latch    \* row_data_q, gamma_q, beta_q, out_words_q, row_write_q, gelu_row*_q

Job ==
  [op : {"SOFTMAX", "LAYERNORM", "GELU"},
   src1 : Place, src2 : Place, dst : Place, m : Nat \ {0}, n : Nat \ {0},
   lastSreg : BOOLEAN]                    \* sreg is 15

Busy == state \notin {"IDLE", "FAULT"}

-----------------------------------------------------------------------------
(* Validation at dispatch.  Definitions named "Mutant..." are defects the  *)
(* properties must notice; no specification uses them.                     *)

Elems(j)  == j.n * Dim
Words(j)  == LineRows("ABUF", j.n)        \* FP16 rows of a line
Gammas(j) == 2 * j.n                      \* rows of the gammas, then of the betas

Unsupported(j) ==
  \/ j.lastSreg
  \/ j.dst.buf = "ACCUM"
  \/ j.op = "LAYERNORM" /\ ~(j.src1.buf = "ABUF" /\ j.src2.buf = "WBUF")
  \/ j.op = "GELU" /\ j.src1.buf = "WBUF"
  \/ j.op # "GELU" /\ Elems(j) > MaxRow

Src2Rows(j) == IF j.op = "LAYERNORM" THEN 2 * Gammas(j) ELSE 0

OutOfBounds(j) ==
  \/ ~Fits(j.src1, MatrixRows(j.src1, j))
  \/ ~Fits(j.src2, Src2Rows(j))
  \/ ~Fits(j.dst, MatrixRows(j.dst, j))

LineState(j) == IF j.op = "SOFTMAX" /\ j.src1.buf = "ACCUM" THEN "FP32_REQ" ELSE "FP16_REQ"

FirstState(j) ==
  IF Unsupported(j) \/ OutOfBounds(j) THEN "FAULT"
  ELSE CASE j.op = "SOFTMAX"                         -> LineState(j)
         [] j.op = "LAYERNORM"                       -> "PARAM_REQ"
         [] j.op = "GELU" /\ j.src1.buf = "ACCUM"    -> "GELU32_REQ"
         [] j.op = "GELU" /\ j.src1.buf # "ACCUM"    -> "GELU16_REQ"

Dispatch ==
  /\ state = "IDLE"
  /\ \E j \in Jobs : job' = j /\ state' = FirstState(j)
  /\ at' = [row |-> 0, read |-> 0, chunk |-> 0, part |-> 0]
  /\ QuietA /\ QuietB
  /\ UNCHANGED latch

-----------------------------------------------------------------------------
(* Where the walks stand.                                                  *)

LineStart(place) == place.off + at.row * LineRows(place.buf, job.n)

ReadRow   == LineStart(job.src1) + at.read
DstRow    == LineStart(job.dst) + at.chunk
ParamRow  == job.src2.off + at.read
Gelu16Row == LineStart(job.src1) + at.chunk
Gelu32Row == LineStart(job.src1) + 2 * at.chunk + at.part

\* The accesses of a state, for AccessInBounds.
Accesses ==
  CASE state = "PARAM_REQ"                -> {<<job.src2.buf, ParamRow>>}
    [] state \in {"FP16_REQ", "FP32_REQ"} -> {<<job.src1.buf, ReadRow>>}
    [] state = "GELU16_REQ"               -> {<<job.src1.buf, Gelu16Row>>}
    [] state = "GELU32_REQ"               -> {<<job.src1.buf, Gelu32Row>>}
    [] state \in {"WRITE", "GELU16_WRITE", "GELU32_WRITE"}
                                          -> {<<job.dst.buf, DstRow>>}
    [] OTHER                              -> {}

Goto(next) == state' = next /\ UNCHANGED job

\* A state that asks for a row and one that finds it.
Request(from, buf, row, to) ==
  /\ state = from
  /\ ReadB(buf, row) /\ QuietA
  /\ Goto(to)
  /\ UNCHANGED <<at, latch>>

\* The registers of a line with one row put into place k.
Loaded(line, k, lanes) ==
  [i \in 0 .. MaxRow - 1 |->
     IF i \div lanes = k /\ i < Elems(job) THEN rdataB[i % lanes] ELSE line[i]]

-----------------------------------------------------------------------------
(* SOFTMAX and LAYERNORM.                                                  *)

ParamRequest == Request("PARAM_REQ", job.src2.buf, ParamRow, "PARAM_LATCH")

ParamLatch ==
  /\ state = "PARAM_LATCH"
  /\ latch' = IF at.read < Gammas(job)
              THEN [latch EXCEPT !.gamma = Loaded(@, at.read, Half)]
              ELSE [latch EXCEPT !.beta = Loaded(@, at.read - Gammas(job), Half)]
  /\ IF at.read + 1 < 2 * Gammas(job)
     THEN at' = [at EXCEPT !.read = @ + 1] /\ Goto("PARAM_REQ")
     ELSE at' = [at EXCEPT !.read = 0] /\ Goto("FP16_REQ")
  /\ QuietA /\ QuietB

Fp16Request == Request("FP16_REQ", job.src1.buf, ReadRow, "FP16_LATCH")
Fp32Request == Request("FP32_REQ", job.src1.buf, ReadRow, "FP32_LATCH")

LineLatch(from, again, lanes, total) ==
  /\ state = from
  /\ latch' = [latch EXCEPT !.line = Loaded(@, at.read, lanes)]
  /\ IF at.read + 1 < total
     THEN at' = [at EXCEPT !.read = @ + 1] /\ Goto(again)
     ELSE at' = [at EXCEPT !.chunk = 0] /\ Goto("COMPUTE")
  /\ QuietA /\ QuietB

Fp16Latch == LineLatch("FP16_LATCH", "FP16_REQ", Half, Words(job))
Fp32Latch == LineLatch("FP32_LATCH", "FP32_REQ", Group, LineRows("ACCUM", job.n))

\* The reductions go over the elements in order.
InOrder(line) == [i \in 1 .. Elems(job) |-> line[i - 1]]

Output(i) ==
  Fp16(IF job.op = "SOFTMAX"
       THEN Softmax(latch.line[i], InOrder(latch.line))
       ELSE Norm(latch.line[i], InOrder(latch.line), latch.gamma[i], latch.beta[i]))

Compute ==
  /\ state = "COMPUTE"
  /\ latch' = [latch EXCEPT !.out = [i \in 0 .. MaxRow - 1 |->
                                       IF i < Elems(job) THEN Output(i) ELSE @[i]]]
  /\ Goto("PACK")
  /\ QuietA /\ QuietB
  /\ UNCHANGED at

Pack ==
  /\ state = "PACK"
  /\ latch' = [latch EXCEPT !.word = [l \in 0 .. Half - 1 |-> latch.out[at.chunk * Half + l]]]
  /\ Goto("WRITE")
  /\ QuietA /\ QuietB
  /\ UNCHANGED at

NextLine ==
  /\ at' = [at EXCEPT !.row = @ + 1, !.read = 0, !.chunk = 0]
  /\ Goto(LineState(job))

Write ==
  /\ state = "WRITE"
  /\ WriteA(job.dst.buf, DstRow, latch.word) /\ QuietB
  /\ IF at.chunk + 1 < Words(job)
     THEN at' = [at EXCEPT !.chunk = @ + 1] /\ Goto("PACK")
     ELSE IF at.row + 1 < job.m * Dim THEN NextLine
     ELSE UNCHANGED at /\ Goto("IDLE")
  /\ UNCHANGED latch

-----------------------------------------------------------------------------
(* GELU.                                                                   *)

Gelu16Request == Request("GELU16_REQ", job.src1.buf, Gelu16Row, "GELU16_LATCH")
Gelu32Request == Request("GELU32_REQ", job.src1.buf, Gelu32Row, "GELU32_LATCH")

Gelu16Latch ==
  /\ state = "GELU16_LATCH"
  /\ latch' = [latch EXCEPT !.gelu = rdataB]
  /\ Goto("GELU16_WRITE")
  /\ QuietA /\ QuietB
  /\ UNCHANGED at

Gelu32Latch ==
  /\ state = "GELU32_LATCH"
  /\ IF at.part = 0
     THEN latch' = [latch EXCEPT !.gelu0 = rdataB] /\ at' = [at EXCEPT !.part = 1]
          /\ Goto("GELU32_REQ")
     ELSE latch' = [latch EXCEPT !.gelu1 = rdataB] /\ UNCHANGED at
          /\ Goto("GELU32_WRITE")
  /\ QuietA /\ QuietB

MutantNextWord(again, part) ==       \* the part is not reset
  IF at.chunk + 1 < Words(job)
  THEN at' = [at EXCEPT !.chunk = @ + 1] /\ Goto(again)
  ELSE IF at.row + 1 < job.m * Dim
  THEN at' = [at EXCEPT !.row = @ + 1, !.chunk = 0] /\ Goto(again)
  ELSE UNCHANGED at /\ Goto("IDLE")

NextWord(again, part) ==
  IF at.chunk + 1 < Words(job)
  THEN at' = [at EXCEPT !.chunk = @ + 1, !.part = part] /\ Goto(again)
  ELSE IF at.row + 1 < job.m * Dim
  THEN at' = [at EXCEPT !.row = @ + 1, !.chunk = 0, !.part = part] /\ Goto(again)
  ELSE UNCHANGED at /\ Goto("IDLE")

Gelu16Write ==
  /\ state = "GELU16_WRITE"
  /\ WriteA(job.dst.buf, DstRow, [l \in 0 .. Half - 1 |-> Fp16(Gelu(latch.gelu[l]))])
  /\ QuietB
  /\ NextWord("GELU16_REQ", at.part)
  /\ UNCHANGED latch

Gelu32Write ==
  /\ state = "GELU32_WRITE"
  /\ WriteA(job.dst.buf, DstRow,
            [l \in 0 .. Half - 1 |->
               Fp16(Gelu(IF l < Group THEN latch.gelu0[l] ELSE latch.gelu1[l - Group]))])
  /\ QuietB
  /\ NextWord("GELU32_REQ", 0)
  /\ UNCHANGED latch

-----------------------------------------------------------------------------

NoLine == [i \in 0 .. MaxRow - 1 |-> <<"reset">>]

Init ==
  /\ state = "IDLE"
  /\ job = CHOOSE j \in Jobs : TRUE     \* not read before a dispatch
  /\ at = [row |-> 0, read |-> 0, chunk |-> 0, part |-> 0]
  /\ latch = [line |-> NoLine, gamma |-> NoLine, beta |-> NoLine, out |-> NoLine,
              word |-> NoRow, gelu |-> NoRow, gelu0 |-> NoRow, gelu1 |-> NoRow]

Work ==
  \/ ParamRequest \/ ParamLatch \/ Fp16Request \/ Fp16Latch \/ Fp32Request \/ Fp32Latch
  \/ Compute \/ Pack \/ Write
  \/ Gelu16Request \/ Gelu16Latch \/ Gelu16Write
  \/ Gelu32Request \/ Gelu32Latch \/ Gelu32Write

-----------------------------------------------------------------------------
(* What an accepted instruction promises, for the memory before it.  The   *)
(* destination may be the source or the parameters: lines and parameters   *)
(* are read before they are written.                                       *)

Defined(j) == NeverAhead(j.src1, j.dst, MatrixRows(j.src1, j), MatrixRows(j.dst, j))

Result(j, memory) ==
  LET columns == Elems(j)
      Src1(line, column) == Element(memory, j.src1, columns, line, column)
      Whole(line) == [i \in 1 .. columns |-> Src1(line, i - 1)]
      Param(i) == Element(memory, j.src2, 2 * columns, 0, i)
      Value(line, column) ==
        CASE j.op = "SOFTMAX"   -> Fp16(Softmax(Src1(line, column), Whole(line)))
          [] j.op = "LAYERNORM" -> Fp16(Norm(Src1(line, column), Whole(line),
                                             Param(column), Param(columns + column)))
          [] j.op = "GELU"      -> Fp16(Gelu(Src1(line, column)))
  IN  Stored(memory, j.dst, MatrixRows(j.dst, j), columns, Value)

=============================================================================
