----------------------------- MODULE DmaEngine -----------------------------
(***************************************************************************)
(* The DMA engine (dma_engine.sv) with the AXI memory behind it and SRAM   *)
(* port A in front of it (sram_subsystem.sv, sram_dp.sv, the port mux of   *)
(* taccel_top.sv).  A step is a clock edge.  Addresses and lengths are in  *)
(* 16-byte words; a transfer is cut into bursts of at most MaxBurst beats. *)
(*                                                                         *)
(* While the DMA engine works the helper and SFU engines are idle          *)
(* (Accelerator!NoForbiddenOverlap) and, in a synced program, so is the    *)
(* systolic controller: port A then follows the controller's idle outputs, *)
(* whose buffer select is src2_buf_q, the register its last MATMUL left.   *)
(***************************************************************************)
EXTENDS Naturals

CONSTANTS
  Buffers,      \* SRAM buffers
  Rows,         \* rows of each buffer
  DramWords,    \* DRAM_SIZE in words
  MaxBurst,     \* 256 in the code
  Jobs,         \* transfers the program may ask for
  ResetBuf,     \* the buffer with identifier 0, which buf_id_q holds at reset
  WStalls,      \* TRUE: the memory may hold WREADY low for some cycles
  MaxTransfers  \* bound on the transfers dispatched

ASSUME DmaAssumption ==
  /\ Rows \in [Buffers -> Nat]
  /\ DramWords \in Nat
  /\ MaxBurst \in Nat \ {0}
  /\ Jobs \subseteq [store : BOOLEAN, buf : Buffers, row : Nat, base : Nat, len : Nat]
  /\ ResetBuf \in Buffers
  /\ WStalls \in BOOLEAN
  /\ MaxTransfers \in Nat

VARIABLES
  state,      \* the FSM
  job,        \* is_store_q and buf_id_q, with the transfer they belong to
  row,        \* curr_sram_row_q
  remaining,  \* beats_remaining_q
  burst,      \* burst_beats_q
  idx,        \* burst_beat_idx_q
  addr,       \* curr_dram_addr_q
  faultCode,  \* fault_code_r
  sram,       \* contents of the buffers
  dram,       \* contents of the memory
  rdata,      \* a_rdata of each sram_dp
  rdataBuf,   \* a_buf_q: which of them port A shows
  sysBuf,     \* src2_buf_q of the idle systolic controller
  transfers   \* transfers dispatched so far

regs == <<job, row, remaining, burst, idx, addr>>
vars == <<state, regs, faultCode, sram, dram, rdata, rdataBuf, sysBuf, transfers>>

Words == 0 .. DramWords - 1
Cells == UNION {{b} \X (0 .. Rows[b] - 1) : b \in Buffers}

\* Every word starts out different from every other; a_rdata has no reset.
Unknown == <<"unknown", 0>>
Values  == Cells \union ({"dram"} \X Words) \union {Unknown}

NoJob == [store |-> FALSE, buf |-> ResetBuf, row |-> 0, base |-> 0, len |-> 0]

Working == {"LOAD_AR", "LOAD_R", "STORE_AW", "STORE_PRE", "STORE_W", "STORE_B"}

-----------------------------------------------------------------------------
(* Address arithmetic.                                                     *)

BurstBeats(n) == IF n > MaxBurst THEN MaxBurst ELSE n

DramOob(j) == j.base + j.len > DramWords
MutantSramOob(j) == j.row + j.len > Rows[j.buf] + 1      \* off by one row
SramOob(j) == IF j.len = 0 THEN j.row >= Rows[j.buf]
                           ELSE j.row + j.len > Rows[j.buf]

Cell      == <<job.buf, row + idx>>
SramFault == row + idx >= Rows[job.buf]
MemoryWord(a) == IF a \in Words THEN dram[a] ELSE Unknown
LastBeat  == idx + 1 = burst
LastBurst == remaining = burst

-----------------------------------------------------------------------------
(* SRAM port A during the cycle that ends with this step.                  *)

PortIdle == rdataBuf' = sysBuf /\ UNCHANGED <<rdata, sram>>

PortRead ==
  /\ rdataBuf' = job.buf
  /\ rdata' = IF SramFault THEN rdata ELSE [rdata EXCEPT ![job.buf] = sram[Cell]]
  /\ UNCHANGED sram

\* A write comes out on the port as well; out of range nothing happens.
PortWrite(v) ==
  /\ rdataBuf' = job.buf
  /\ IF SramFault
     THEN UNCHANGED <<rdata, sram>>
     ELSE /\ rdata' = [rdata EXCEPT ![job.buf] = v]
          /\ sram' = [sram EXCEPT ![Cell] = v]

-----------------------------------------------------------------------------
(* The engine.                                                             *)

Fail(code) == state' = "FAULT" /\ faultCode' = code

Dispatch(j) ==
  /\ state = "IDLE"
  /\ transfers < MaxTransfers
  /\ transfers' = transfers + 1
  /\ job' = j
  /\ row' = j.row
  /\ remaining' = j.len
  /\ burst' = BurstBeats(j.len)
  /\ idx' = 0
  /\ addr' = j.base
  /\ IF DramOob(j) THEN Fail("DRAM_OOB")
     ELSE IF SramOob(j) THEN Fail("SRAM_OOB")
     ELSE /\ state' = IF j.len = 0 THEN "IDLE"
                      ELSE IF j.store THEN "STORE_AW" ELSE "LOAD_AR"
          /\ UNCHANGED faultCode
  /\ PortIdle
  /\ UNCHANGED <<dram, sysBuf>>

MutantEndBurst(next) ==      \* the next burst starts at the same SRAM row
  IF LastBurst
  THEN state' = "IDLE" /\ UNCHANGED regs
  ELSE /\ state' = next
       /\ addr' = addr + burst
       /\ remaining' = remaining - burst
       /\ burst' = BurstBeats(remaining - burst)
       /\ idx' = 0
       /\ UNCHANGED <<job, row>>

\* The last beat of a burst was taken: done, or registers for the next burst.
EndBurst(next) ==
  IF LastBurst
  THEN state' = "IDLE" /\ UNCHANGED regs
  ELSE /\ state' = next
       /\ addr' = addr + burst
       /\ row' = row + burst
       /\ remaining' = remaining - burst
       /\ burst' = BurstBeats(remaining - burst)
       /\ idx' = 0
       /\ UNCHANGED job

ReadRequest ==
  /\ state = "LOAD_AR"
  /\ state' = "LOAD_R"
  /\ PortIdle
  /\ UNCHANGED <<regs, faultCode, dram, sysBuf, transfers>>

\* resp is OKAY and RLAST is up exactly on the last beat.
ReadBeat ==
  /\ state = "LOAD_R"
  /\ PortWrite(MemoryWord(addr + idx))
  /\ IF SramFault
     THEN Fail("SRAM_OOB") /\ UNCHANGED regs
     ELSE /\ IF LastBeat
             THEN EndBurst("LOAD_AR")
             ELSE idx' = idx + 1 /\ UNCHANGED <<state, job, row, remaining, burst, addr>>
          /\ UNCHANGED faultCode
  /\ UNCHANGED <<dram, sysBuf, transfers>>

\* A beat with an error response or a misplaced RLAST is not written.
ReadError ==
  /\ state = "LOAD_R"
  /\ Fail("DRAM_OOB")
  /\ PortIdle
  /\ UNCHANGED <<regs, dram, sysBuf, transfers>>

WriteRequest ==
  /\ state = "STORE_AW"
  /\ state' = "STORE_PRE"
  /\ idx' = 0
  /\ PortIdle
  /\ UNCHANGED <<job, row, remaining, burst, addr, faultCode, dram, sysBuf, transfers>>

PreRead ==
  /\ state = "STORE_PRE"
  /\ PortRead
  /\ IF SramFault THEN Fail("SRAM_OOB")
                  ELSE state' = "STORE_W" /\ UNCHANGED faultCode
  /\ UNCHANGED <<regs, dram, sysBuf, transfers>>

MutantWriteBeat ==           \* the beat counter does not move
  /\ state = "STORE_W"
  /\ dram' = [dram EXCEPT ![addr + idx] = rdata[rdataBuf]]
  /\ state' = IF LastBeat THEN "STORE_B" ELSE "STORE_PRE"
  /\ PortIdle
  /\ UNCHANGED <<regs, faultCode, sysBuf, transfers>>

\* dma_w_data is whatever port A shows in the cycle WREADY comes up.
WriteBeat ==
  /\ state = "STORE_W"
  /\ dram' = [dram EXCEPT ![addr + idx] = rdata[rdataBuf]]
  /\ IF LastBeat
     THEN state' = "STORE_B" /\ UNCHANGED idx
     ELSE state' = "STORE_PRE" /\ idx' = idx + 1
  /\ PortIdle
  /\ UNCHANGED <<job, row, remaining, burst, addr, faultCode, sysBuf, transfers>>

WriteResponse ==
  /\ state = "STORE_B"
  /\ EndBurst("STORE_AW")
  /\ PortIdle
  /\ UNCHANGED <<faultCode, dram, sysBuf, transfers>>

WriteError ==
  /\ state = "STORE_B"
  /\ Fail("DRAM_OOB")
  /\ PortIdle
  /\ UNCHANGED <<regs, dram, sysBuf, transfers>>

\* No handshake this cycle: nothing dispatched, ready or valid still low.
Wait ==
  /\ state \in {"IDLE", "FAULT", "LOAD_AR", "LOAD_R", "STORE_AW", "STORE_B"}
       \union (IF WStalls THEN {"STORE_W"} ELSE {})
  /\ PortIdle
  /\ UNCHANGED <<state, regs, faultCode, dram, sysBuf, transfers>>

-----------------------------------------------------------------------------

Init ==
  /\ state = "IDLE"
  /\ job = NoJob
  /\ row = 0
  /\ remaining = 0
  /\ burst = 0
  /\ idx = 0
  /\ addr = 0
  /\ faultCode = "NONE"
  /\ sram = [c \in Cells |-> c]
  /\ dram = [a \in Words |-> <<"dram", a>>]
  /\ rdata = [b \in Buffers |-> Unknown]
  /\ sysBuf \in Buffers
  /\ rdataBuf = sysBuf
  /\ transfers = 0

Progress == \/ ReadRequest \/ ReadBeat \/ ReadError
            \/ WriteRequest \/ PreRead \/ WriteBeat \/ WriteResponse \/ WriteError

Next == (\E j \in Jobs : Dispatch(j)) \/ Progress \/ Wait

Spec == Init /\ [][Next]_vars

\* The memory answers every request in the end.
FairSpec == Spec /\ WF_vars(Progress)

-----------------------------------------------------------------------------
(* Properties.                                                             *)

\* Type invariant: the registers of dma_engine.sv stay in range. What could go
\* wrong is that a burst takes more beats than remain and the count underflows.
TypeOK ==
  /\ state \in Working \union {"IDLE", "FAULT"}
  /\ job \in Jobs \union {NoJob}
  /\ row \in Nat /\ remaining \in Nat /\ burst \in Nat /\ idx \in Nat /\ addr \in Nat
  /\ faultCode \in {"NONE", "DRAM_OOB", "SRAM_OOB"}
  /\ sram \in [Cells -> Values]
  /\ dram \in [Words -> Values]
  /\ rdata \in [Buffers -> Values]
  /\ rdataBuf \in Buffers
  /\ sysBuf \in Buffers
  /\ transfers \in 0 .. MaxTransfers

\* The check made once at dispatch covers every access of every burst: all the
\* beats still to come lie inside the DRAM and inside the buffer.
AccessInBounds ==
  state \in Working =>
    /\ 0 < burst /\ burst <= MaxBurst /\ burst <= remaining /\ idx < burst
    /\ addr + remaining <= DramWords
    /\ row + remaining <= Rows[job.buf]

\* A transfer the check let through never meets an SRAM fault, and a faulted
\* engine moves nothing any more.
OnlyTheMemoryFails ==
  [][/\ faultCode' = "SRAM_OOB" /\ faultCode # "SRAM_OOB" => state = "IDLE"
     /\ state = "FAULT" => UNCHANGED <<state, sram, dram>>]_vars

\* rtl_plan.md line 384, "Handle read and write backpressure cleanly": while
\* WVALID is up the data of the beat is the SRAM word the beat stands for.
StoredWordIsSource == state = "STORE_W" => rdata[rdataBuf] = sram[Cell]

\* Every transfer ends, in success or in a fault.
TransferEnds == state \in Working ~> state \in {"IDLE", "FAULT"}

-----------------------------------------------------------------------------
(* The engine implements BlockTransfer.                                    *)

Copied ==
  CASE state = "IDLE" \/ state = "FAULT" -> 0
    [] state = "STORE_B" -> job.len - remaining + burst
    [] OTHER             -> job.len - remaining + idx

Abstract == INSTANCE BlockTransfer WITH
  copied <- Copied,
  status <- CASE state = "IDLE"  -> "idle"
              [] state = "FAULT" -> "fault"
              [] OTHER           -> "busy"

\* A transfer copies exactly its words, in order, whatever the bursts, and a
\* faulted one a prefix of them.
ImplementsBlockTransfer == Abstract!Spec

=============================================================================
