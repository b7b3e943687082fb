-------------------------- MODULE DmaEngineProofs --------------------------
(***************************************************************************)
(* Theorems about DmaEngine, for all buffer sizes, memory sizes, burst     *)
(* limits and transfers, with and without backpressure on the W channel.   *)
(***************************************************************************)
EXTENDS DmaEngine, TLAPS

\* The bounds checked at dispatch stay true of what is left after each burst.
DmaInv == TypeOK /\ AccessInBounds

USE DmaAssumption

-----------------------------------------------------------------------------

\* A burst is never empty, never over the limit and never past the transfer.
LEMMA BurstFits ==
  ASSUME NEW n \in Nat
  PROVE  /\ BurstBeats(n) \in Nat
         /\ BurstBeats(n) <= n /\ BurstBeats(n) <= MaxBurst
         /\ n > 0 => BurstBeats(n) > 0
BY DEF BurstBeats

\* The addresses of the beat at hand.
LEMMA BeatInBounds ==
  ASSUME DmaInv, state \in Working
  PROVE  /\ job.buf \in Buffers
         /\ addr + idx \in Words
         /\ ~SramFault
         /\ Cell \in Cells
<1>1. job.buf \in Buffers
  BY DEF DmaInv, TypeOK, NoJob
<1>2. Rows[job.buf] \in Nat
  BY <1>1
<1>3. addr + idx \in Nat /\ addr + idx < DramWords
  BY DEF DmaInv, TypeOK, AccessInBounds
<1>4. row + idx \in Nat /\ row + idx < Rows[job.buf]
  BY <1>2 DEF DmaInv, TypeOK, AccessInBounds
<1>5. Cell \in {job.buf} \X (0 .. Rows[job.buf] - 1)
  BY <1>2, <1>4 DEF Cell
<1>6. QED
  BY <1>1, <1>2, <1>3, <1>4, <1>5 DEF Words, SramFault, Cells

\* The idle engine satisfies the invariant.
LEMMA InitDmaInv == Init => DmaInv
<1> SUFFICES ASSUME Init PROVE DmaInv
  OBVIOUS
<1>1. sram \in [Cells -> Values] /\ rdata \in [Buffers -> Values]
  BY DEF Init, Values
<1>2. dram \in [Words -> Values]
  BY DEF Init, Values
<1>3. 0 \in Nat /\ 0 \in 0 .. MaxTransfers
  OBVIOUS
<1>4. TypeOK
  BY <1>1, <1>2, <1>3 DEF Init, TypeOK
<1>5. AccessInBounds
  BY DEF Init, AccessInBounds, Working
<1>6. QED
  BY <1>4, <1>5 DEF DmaInv

\* Dispatch: refused with a code, empty and done, or within bounds.
LEMMA DispatchInv ==
  ASSUME DmaInv, NEW j \in Jobs, Dispatch(j)
  PROVE  DmaInv'
<1>1. /\ j.buf \in Buffers /\ j.row \in Nat /\ j.base \in Nat /\ j.len \in Nat
      /\ Rows[j.buf] \in Nat
  OBVIOUS
<1>2. TypeOK'
  <2>1. burst' \in Nat
    BY <1>1, BurstFits DEF Dispatch
  <2>2. transfers' \in 0 .. MaxTransfers
    BY DEF Dispatch, DmaInv, TypeOK
  <2>3. state' \in Working \union {"IDLE", "FAULT"}
           /\ faultCode' \in {"NONE", "DRAM_OOB", "SRAM_OOB"}
    BY DEF Dispatch, Fail, Working, DmaInv, TypeOK
  <2>4. QED
    BY <1>1, <2>1, <2>2, <2>3 DEF Dispatch, PortIdle, DmaInv, TypeOK
<1>3. AccessInBounds'
  <2>1. SUFFICES ASSUME state' \in Working
                 PROVE  /\ 0 < burst' /\ burst' <= MaxBurst /\ burst' <= remaining'
                        /\ idx' < burst'
                        /\ addr' + remaining' <= DramWords
                        /\ row' + remaining' <= Rows[job'.buf]
    BY DEF AccessInBounds
  <2>2. ~DramOob(j) /\ ~SramOob(j) /\ j.len # 0
    BY <2>1 DEF Dispatch, Fail, Working
  <2>3. j.base + j.len <= DramWords /\ j.row + j.len <= Rows[j.buf] /\ j.len > 0
    BY <1>1, <2>2 DEF DramOob, SramOob
  <2>4. 0 < BurstBeats(j.len) /\ BurstBeats(j.len) <= MaxBurst /\ BurstBeats(j.len) <= j.len
    BY <1>1, <2>3, BurstFits
  <2>5. QED
    BY <2>3, <2>4 DEF Dispatch
<1>4. QED
  BY <1>2, <1>3 DEF DmaInv

\* After a burst the registers describe the rest of the transfer.
LEMMA EndBurstInv ==
  ASSUME DmaInv, state \in Working, NEW next \in Working, EndBurst(next)
  PROVE  /\ state' \in Working \union {"IDLE"}
         /\ job' = job
         /\ row' \in Nat /\ remaining' \in Nat /\ burst' \in Nat /\ idx' \in Nat
         /\ addr' \in Nat
         /\ AccessInBounds'
<1>0. /\ row \in Nat /\ remaining \in Nat /\ burst \in Nat /\ idx \in Nat /\ addr \in Nat
      /\ Rows[job.buf] \in Nat
      /\ burst <= remaining
      /\ addr + remaining <= DramWords /\ row + remaining <= Rows[job.buf]
  BY BeatInBounds DEF DmaInv, TypeOK, AccessInBounds
<1>1. CASE LastBurst
  BY <1>0, <1>1 DEF EndBurst, regs, AccessInBounds, Working
<1>2. CASE ~LastBurst
  <2> DEFINE rest == remaining - burst
  <2>1. rest \in Nat /\ rest > 0
    BY <1>0, <1>2 DEF LastBurst
  <2>2. /\ BurstBeats(rest) \in Nat /\ 0 < BurstBeats(rest)
        /\ BurstBeats(rest) <= rest /\ BurstBeats(rest) <= MaxBurst
    BY <2>1, BurstFits
  <2>3. /\ state' = next /\ addr' = addr + burst /\ row' = row + burst
        /\ remaining' = rest /\ burst' = BurstBeats(rest) /\ idx' = 0 /\ job' = job
    BY <1>2 DEF EndBurst
  <2>4. addr' + remaining' <= DramWords /\ row' + remaining' <= Rows[job'.buf]
    BY <1>0, <2>3
  <2>5. QED
    BY <1>0, <2>1, <2>2, <2>3, <2>4 DEF AccessInBounds
<1>3. QED
  BY <1>1, <1>2

\* A step of a transfer under way keeps the invariant and meets no bound.
LEMMA ProgressInv ==
  ASSUME DmaInv, Progress
  PROVE  DmaInv'
<1>0. state \in Working
  BY DEF Progress, ReadRequest, ReadBeat, ReadError, WriteRequest, PreRead, WriteBeat,
         WriteResponse, WriteError, Working
<1>1. ~SramFault /\ Cell \in Cells /\ job.buf \in Buffers
  BY <1>0, BeatInBounds
<1> USE DEF DmaInv, TypeOK
<1>2. CASE ReadRequest
  BY <1>2 DEF ReadRequest, PortIdle, regs, AccessInBounds, Working
<1>3. CASE ReadBeat
  <2>1. MemoryWord(addr + idx) \in Values
    BY DEF MemoryWord, Values
  <2>2. /\ sram' \in [Cells -> Values] /\ rdata' \in [Buffers -> Values]
        /\ rdataBuf' \in Buffers
    BY <1>1, <1>3, <2>1 DEF ReadBeat, PortWrite
  <2>3. /\ dram' = dram /\ sysBuf' = sysBuf /\ transfers' = transfers
        /\ faultCode' = faultCode
    BY <1>1, <1>3 DEF ReadBeat
  <2>4. CASE LastBeat
    <3>1. EndBurst("LOAD_AR")
      BY <1>1, <1>3, <2>4 DEF ReadBeat
    <3>2. "LOAD_AR" \in Working
      BY DEF Working
    <3>3. QED
      BY <1>0, <2>2, <2>3, <3>1, <3>2, EndBurstInv
  <2>5. CASE ~LastBeat
    <3>1. /\ idx' = idx + 1
          /\ UNCHANGED <<state, job, row, remaining, burst, addr>>
      BY <1>1, <1>3, <2>5 DEF ReadBeat
    <3>2. idx + 1 < burst
      BY <1>0, <2>5 DEF LastBeat, AccessInBounds
    <3>3. QED
      BY <1>0, <2>2, <2>3, <3>1, <3>2 DEF AccessInBounds
  <2>6. QED
    BY <2>4, <2>5
<1>4. CASE ReadError
  BY <1>4 DEF ReadError, Fail, PortIdle, regs, AccessInBounds, Working
<1>5. CASE WriteRequest
  <2>1. 0 < burst
    BY <1>0 DEF AccessInBounds
  <2>2. QED
    BY <1>0, <1>5, <2>1 DEF WriteRequest, PortIdle, AccessInBounds, Working
<1>6. CASE PreRead
  <2>1. rdata' \in [Buffers -> Values] /\ rdataBuf' \in Buffers
    BY <1>1, <1>6 DEF PreRead, PortRead
  <2>2. QED
    BY <1>0, <1>1, <1>6, <2>1 DEF PreRead, PortRead, regs, AccessInBounds, Working
<1>7. CASE WriteBeat
  <2>1. dram' \in [Words -> Values]
    BY <1>7 DEF WriteBeat
  <2>2. idx' \in Nat /\ idx' < burst
    BY <1>0, <1>7 DEF WriteBeat, LastBeat, AccessInBounds
  <2>3. QED
    BY <1>0, <1>7, <2>1, <2>2 DEF WriteBeat, PortIdle, AccessInBounds, Working
<1>8. CASE WriteResponse
  <2>1. EndBurst("STORE_AW") /\ "STORE_AW" \in Working
    BY <1>8 DEF WriteResponse, Working
  <2>2. QED
    BY <1>0, <1>8, <2>1, EndBurstInv DEF WriteResponse, PortIdle
<1>9. CASE WriteError
  BY <1>9 DEF WriteError, Fail, PortIdle, regs, AccessInBounds, Working
<1>10. QED
  BY <1>2, <1>3, <1>4, <1>5, <1>6, <1>7, <1>8, <1>9 DEF Progress

\* Every edge keeps the invariant.
LEMMA NextDmaInv == DmaInv /\ [Next]_vars => DmaInv'
<1>1. ASSUME DmaInv, NEW j \in Jobs, Dispatch(j)
      PROVE  DmaInv'
  BY <1>1, DispatchInv
<1>2. ASSUME DmaInv, Progress
      PROVE  DmaInv'
  BY <1>2, ProgressInv
<1>3. ASSUME DmaInv, Wait
      PROVE  DmaInv'
  BY <1>3 DEF DmaInv, Wait, PortIdle, regs, TypeOK, AccessInBounds
<1>4. ASSUME DmaInv, UNCHANGED vars
      PROVE  DmaInv'
  BY <1>4 DEF DmaInv, vars, regs, TypeOK, AccessInBounds
<1>5. QED
  BY <1>1, <1>2, <1>3, <1>4 DEF Next

\* The invariant holds for every burst limit, buffer and memory size.
THEOREM DmaInvariance == Spec => []DmaInv
BY InitDmaInv, NextDmaInv, PTL DEF Spec

-----------------------------------------------------------------------------

\* All registers of the DMA engine keep their types.
THEOREM DmaTypeCorrect == Spec => []TypeOK
<1>1. DmaInv => TypeOK
  BY DEF DmaInv
<1>2. QED
  BY <1>1, DmaInvariance, PTL

\* No beat of any burst leaves the memory or the buffer, for every transfer
\* the dispatch check lets through.
THEOREM PrevalidationSuffices == Spec => []AccessInBounds
<1>1. DmaInv => AccessInBounds
  BY DEF DmaInv
<1>2. QED
  BY <1>1, DmaInvariance, PTL

\* An SRAM fault can only be the verdict of the dispatch check, and S_FAULT is
\* final.
THEOREM MidTransferFaults == Spec => OnlyTheMemoryFails
<1> DEFINE Step == /\ faultCode' = "SRAM_OOB" /\ faultCode # "SRAM_OOB" => state = "IDLE"
                   /\ state = "FAULT" => UNCHANGED <<state, sram, dram>>
<1>1. DmaInv /\ [Next]_vars => [Step]_vars
  <2>1. ASSUME DmaInv, NEW j \in Jobs, Dispatch(j)
        PROVE  Step
    BY <2>1 DEF Dispatch
  <2>2. ASSUME DmaInv, Progress
        PROVE  Step
    <3>1. state \in Working
      BY <2>2 DEF Progress, ReadRequest, ReadBeat, ReadError, WriteRequest, PreRead,
                  WriteBeat, WriteResponse, WriteError, Working
    <3>2. ~SramFault
      BY <2>2, <3>1, BeatInBounds
    <3>3. faultCode' \in {faultCode, "DRAM_OOB"}
      BY <2>2, <3>2 DEF Progress, ReadRequest, ReadBeat, ReadError, WriteRequest, PreRead,
                  WriteBeat, WriteResponse, WriteError, Fail
    <3>4. QED
      BY <3>1, <3>3 DEF Working
  <2>3. ASSUME Wait
        PROVE  Step
    BY <2>3 DEF Wait, PortIdle
  <2>4. QED
    BY <2>1, <2>2, <2>3 DEF Next
<1>2. QED
  BY <1>1, DmaInvariance, PTL DEF Spec, OnlyTheMemoryFails

-----------------------------------------------------------------------------
(* DmaEngine implements BlockTransfer, if the memory never stalls W.       *)

\* Where a transfer under way stands: the registers of the burst are offsets
\* into the job, and without stalls the word on the W channel is the one read
\* in the cycle before.
XferInv ==
  /\ state \in Working =>
       /\ job \in Jobs /\ remaining <= job.len
       /\ row = job.row + (job.len - remaining)
       /\ addr = job.base + (job.len - remaining)
       /\ job.store = (state \notin {"LOAD_AR", "LOAD_R"})
  /\ state \in {"LOAD_AR", "STORE_AW"} => idx = 0
  /\ StoredWordIsSource

\* What the invariant says of a transfer with words left.
LEMMA XferFacts ==
  ASSUME DmaInv, XferInv, state \in Working
  PROVE  /\ job \in Jobs /\ job.row \in Nat /\ job.base \in Nat /\ job.len \in Nat
         /\ row \in Nat /\ remaining \in Nat /\ burst \in Nat /\ idx \in Nat /\ addr \in Nat
         /\ 0 < burst /\ burst <= remaining /\ idx < burst /\ remaining <= job.len
         /\ row = job.row + (job.len - remaining)
         /\ addr = job.base + (job.len - remaining)
         /\ ~SramFault /\ addr + idx \in Words /\ Cell \in Cells
<1>1. ~SramFault /\ addr + idx \in Words /\ Cell \in Cells
  BY BeatInBounds
<1>2. job \in Jobs /\ job.row \in Nat /\ job.base \in Nat /\ job.len \in Nat
  BY DEF XferInv
<1>3. QED
  BY <1>1, <1>2 DEF XferInv, DmaInv, TypeOK, AccessInBounds

\* The word at hand is the next one of the job.
LEMMA NextWord ==
  ASSUME DmaInv, XferInv, state \in {"LOAD_R", "STORE_W"}
  PROVE  /\ Copied = job.len - remaining + idx /\ Copied \in Nat /\ Copied < job.len
         /\ Cell = <<job.buf, job.row + Copied>>
         /\ addr + idx = job.base + Copied
<1>1. state \in Working
  BY DEF Working
<1>2. Copied = job.len - remaining + idx
  BY DEF Copied
<1>3. /\ Copied \in Nat /\ Copied < job.len
      /\ row + idx = job.row + Copied /\ addr + idx = job.base + Copied
  BY <1>1, <1>2, XferFacts
<1>4. QED
  BY <1>2, <1>3 DEF Cell

\* The idle engine is the idle abstract transfer.
LEMMA XferInit == Init => XferInv /\ Abstract!Init
BY DEF Init, XferInv, StoredWordIsSource, Working, Abstract!Init, Copied

\* A dispatch is the abstract start, or its refusal.
LEMMA XferDispatch ==
  ASSUME DmaInv, NEW j \in Jobs, Dispatch(j)
  PROVE  XferInv' /\ Abstract!Begin
<1>1. /\ j.row \in Nat /\ j.base \in Nat /\ j.len \in Nat /\ j.store \in BOOLEAN
      /\ j.buf \in Buffers /\ Rows[j.buf] \in Nat
  OBVIOUS
<1>2. /\ state = "IDLE" /\ job' = j /\ row' = j.row /\ remaining' = j.len /\ idx' = 0
      /\ addr' = j.base /\ UNCHANGED <<sram, dram>>
  BY DEF Dispatch, PortIdle
<1>3. state' = IF DramOob(j) \/ SramOob(j) THEN "FAULT" ELSE IF j.len = 0 THEN "IDLE"
               ELSE IF j.store THEN "STORE_AW" ELSE "LOAD_AR"
  BY DEF Dispatch, Fail
<1>4. j.len - j.len = 0 /\ j.row + 0 = j.row /\ j.base + 0 = j.base
  BY <1>1
<1>5. XferInv'
  BY <1>1, <1>2, <1>3, <1>4 DEF XferInv, StoredWordIsSource, Working
<1>6. Abstract!InBounds(j) <=> ~(DramOob(j) \/ SramOob(j))
  BY <1>1 DEF Abstract!InBounds, DramOob, SramOob
<1>7. Copied = 0 /\ Copied' = 0
  BY <1>1, <1>2, <1>3, <1>4 DEF Copied
<1>8. QED
  BY <1>2, <1>3, <1>5, <1>6, <1>7 DEF Abstract!Begin

\* After the last beat of a burst, in either direction.
LEMMA XferEndBurst ==
  ASSUME DmaInv, XferInv, state \in {"LOAD_R", "STORE_B"}, NEW next, EndBurst(next),
         next = IF state = "LOAD_R" THEN "LOAD_AR" ELSE "STORE_AW"
  PROVE  /\ job' = job /\ XferInv'
         /\ \/ state' = "IDLE" /\ Copied' = 0 /\ job.len - remaining + burst = job.len
            \/ state' = next /\ Copied' = job.len - remaining + burst
<1>1. state \in Working
  BY DEF Working
<1>2. job.store = (state = "STORE_B")
  BY <1>1 DEF XferInv
<1>3. CASE LastBurst
  <2>1. state' = "IDLE" /\ job' = job
    BY <1>3 DEF EndBurst, regs
  <2>2. QED
    BY <1>1, <1>3, <2>1, XferFacts DEF LastBurst, XferInv, StoredWordIsSource, Working, Copied
<1>4. CASE ~LastBurst
  <2>1. /\ state' = next /\ addr' = addr + burst /\ row' = row + burst
        /\ remaining' = remaining - burst /\ idx' = 0 /\ job' = job
    BY <1>4 DEF EndBurst
  <2>2. /\ row' = job'.row + (job'.len - remaining') /\ addr' = job'.base + (job'.len - remaining')
        /\ remaining' <= job'.len /\ job' \in Jobs
        /\ job'.len - remaining' + 0 = job.len - remaining + burst
    BY <1>1, <2>1, XferFacts
  <2>3. XferInv'
    BY <1>2, <2>1, <2>2 DEF XferInv, StoredWordIsSource, Working
  <2>4. Copied' = job.len - remaining + burst
    BY <2>1, <2>2 DEF Copied
  <2>5. QED
    BY <2>1, <2>3, <2>4
<1>5. QED
  BY <1>3, <1>4

\* A beat of a LOAD is one word of the abstract transfer.
LEMMA XferReadBeat ==
  ASSUME DmaInv, XferInv, ReadBeat
  PROVE  XferInv' /\ Abstract!CopyWord
<1>1. state = "LOAD_R" /\ state \in Working /\ ~SramFault
  BY XferFacts DEF ReadBeat, Working
<1>2. sram' = [sram EXCEPT ![Cell] = dram[addr + idx]] /\ dram' = dram
  BY <1>1, XferFacts DEF ReadBeat, PortWrite, MemoryWord
<1>3. ~job.store
  BY <1>1 DEF XferInv
<1>4. CASE LastBeat
  <2>1. EndBurst("LOAD_AR")
    BY <1>1, <1>4 DEF ReadBeat
  <2>2. /\ job' = job /\ XferInv'
        /\ \/ state' = "IDLE" /\ Copied' = 0 /\ job.len - remaining + burst = job.len
           \/ state' = "LOAD_AR" /\ Copied' = job.len - remaining + burst
    BY <1>1, <2>1, XferEndBurst
  <2>3. Copied + 1 = job.len - remaining + burst
    BY <1>1, <1>4, NextWord, XferFacts DEF LastBeat
  <2>4. QED
    BY <1>1, <1>2, <1>3, <2>2, <2>3, NextWord DEF Abstract!CopyWord
<1>5. CASE ~LastBeat
  <2>1. idx' = idx + 1 /\ UNCHANGED <<state, job, row, remaining, burst, addr>>
    BY <1>1, <1>5 DEF ReadBeat
  <2>2. Copied' = Copied + 1
    BY <1>1, <2>1, NextWord, XferFacts DEF Copied
  <2>3. XferInv'
    BY <1>1, <2>1 DEF XferInv, StoredWordIsSource
  <2>4. QED
    BY <1>1, <1>2, <1>3, <2>1, <2>2, <2>3, NextWord DEF Abstract!CopyWord
<1>6. QED
  BY <1>4, <1>5

\* The word that goes out is the word of the source.
LEMMA XferWriteBeat ==
  ASSUME DmaInv, XferInv, WriteBeat
  PROVE  XferInv' /\ Abstract!CopyWord
<1>1. state = "STORE_W" /\ state \in Working /\ job.store
  BY DEF WriteBeat, Working, XferInv
<1>2. dram' = [dram EXCEPT ![addr + idx] = sram[Cell]] /\ sram' = sram
  BY <1>1 DEF WriteBeat, PortIdle, XferInv, StoredWordIsSource
<1>3. UNCHANGED <<job, row, remaining, burst, addr>>
  BY DEF WriteBeat
<1>4. /\ state' = IF LastBeat THEN "STORE_B" ELSE "STORE_PRE"
      /\ idx' = IF LastBeat THEN idx ELSE idx + 1
  BY DEF WriteBeat
<1>5. Copied' = Copied + 1
  BY <1>1, <1>3, <1>4, NextWord, XferFacts DEF Copied, LastBeat
<1>6. XferInv'
  BY <1>1, <1>3, <1>4 DEF XferInv, StoredWordIsSource, Working
<1>7. QED
  BY <1>1, <1>2, <1>3, <1>4, <1>5, <1>6, NextWord DEF Abstract!CopyWord

\* Between the words only the registers of the bus move.
LEMMA XferOther ==
  ASSUME DmaInv, XferInv, ~WStalls,
         ReadRequest \/ WriteRequest \/ PreRead \/ Wait
  PROVE  XferInv' /\ UNCHANGED Abstract!vars
<1>1. CASE ReadRequest
  BY <1>1 DEF ReadRequest, PortIdle, regs, XferInv, StoredWordIsSource, Working, Copied,
     Abstract!vars
<1>2. CASE WriteRequest
  <2>1. idx = 0
    BY <1>2 DEF WriteRequest, XferInv
  <2>2. QED
    BY <1>2, <2>1 DEF WriteRequest, PortIdle, XferInv, StoredWordIsSource, Working, Copied,
       Abstract!vars
<1>3. CASE PreRead
  <2>1. state = "STORE_PRE" /\ state \in Working /\ ~SramFault
    BY <1>3, XferFacts DEF PreRead, Working
  <2>2. /\ state' = "STORE_W" /\ UNCHANGED <<job, row, remaining, burst, idx, addr, sram, dram>>
        /\ rdataBuf' = job.buf /\ rdata' = [rdata EXCEPT ![job.buf] = sram[Cell]]
    BY <1>3, <2>1 DEF PreRead, PortRead, regs
  <2>3. Cell' = Cell /\ job.buf \in Buffers /\ rdata \in [Buffers -> Values]
    BY <2>1, <2>2, BeatInBounds DEF Cell, DmaInv, TypeOK
  <2>4. rdata'[rdataBuf'] = sram'[Cell']
    BY <2>2, <2>3
  <2>5. XferInv'
    BY <2>1, <2>2, <2>4 DEF XferInv, StoredWordIsSource, Working
  <2>6. QED
    BY <2>1, <2>2, <2>5 DEF Copied, Abstract!vars
<1>4. CASE Wait
  <2>1. state # "STORE_W"
    BY <1>4 DEF Wait
  <2>2. QED
    BY <1>4, <2>1 DEF Wait, PortIdle, regs, XferInv, StoredWordIsSource, Copied, Abstract!vars
<1>5. QED
  BY <1>1, <1>2, <1>3, <1>4

\* A failed transfer is a prefix of the words.
LEMMA XferStops ==
  ASSUME DmaInv, XferInv, ReadError \/ WriteError
  PROVE  XferInv' /\ Abstract!Fail
BY DEF ReadError, WriteError, Fail, PortIdle, regs, XferInv, StoredWordIsSource, Working,
       Copied, Abstract!Fail

\* The write response ends a burst or fails the transfer.
LEMMA XferResponse ==
  ASSUME DmaInv, XferInv, WriteResponse
  PROVE  XferInv' /\ (Abstract!Finish \/ UNCHANGED Abstract!vars)
<1>1. /\ state = "STORE_B" /\ EndBurst("STORE_AW") /\ UNCHANGED <<sram, dram>>
      /\ Copied = job.len - remaining + burst
  BY DEF WriteResponse, PortIdle, Copied
<1>2. /\ job' = job /\ XferInv'
      /\ \/ state' = "IDLE" /\ Copied' = 0 /\ job.len - remaining + burst = job.len
         \/ state' = "STORE_AW" /\ Copied' = job.len - remaining + burst
  BY <1>1, XferEndBurst
<1>3. QED
  BY <1>1, <1>2 DEF Abstract!Finish, Abstract!vars

\* Every edge is a step of BlockTransfer or moves nothing it sees.
LEMMA XferStep ==
  ASSUME ~WStalls
  PROVE  DmaInv /\ XferInv /\ [Next]_vars => XferInv' /\ [Abstract!Next]_Abstract!vars
<1>1. ASSUME DmaInv, XferInv, Next
      PROVE  XferInv' /\ [Abstract!Next]_Abstract!vars
  BY <1>1, XferDispatch, XferReadBeat, XferWriteBeat, XferOther, XferStops, XferResponse
     DEF Next, Progress, Abstract!Next
<1>2. ASSUME XferInv, UNCHANGED vars
      PROVE  XferInv' /\ UNCHANGED Abstract!vars
  BY <1>2 DEF vars, regs, XferInv, StoredWordIsSource, Cell, Copied, Abstract!vars
<1>3. QED
  BY <1>1, <1>2

\* Without stalls on the W channel, every transfer copies exactly its words in
\* order, for any burst limit, and one that fails a prefix of them.
THEOREM DmaRefinement ==
  ASSUME ~WStalls
  PROVE  Spec => ImplementsBlockTransfer
BY XferInit, XferStep, DmaInvariance, PTL DEF Spec, ImplementsBlockTransfer, Abstract!Spec

\* What the doc asks of the W channel holds when the memory never stalls it;
\* the run DmaStall shows the word lost when it does.
THEOREM StoreDataWithoutStalls ==
  ASSUME ~WStalls
  PROVE  Spec => []StoredWordIsSource
<1>1. XferInv => StoredWordIsSource
  BY DEF XferInv
<1>2. QED
  BY <1>1, XferInit, XferStep, DmaInvariance, PTL DEF Spec

=============================================================================
