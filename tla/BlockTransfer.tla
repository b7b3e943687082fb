--------------------------- MODULE BlockTransfer ---------------------------
(***************************************************************************)
(* What a LOAD or STORE promises, without bursts, channels or clock: it    *)
(* copies len consecutive words in order and touches nothing else; out of  *)
(* bounds it touches nothing at all; a fault on the way leaves the words   *)
(* already copied in place and is final (dma_engine.sv, header and FSM     *)
(* comments).                                                              *)
(***************************************************************************)
EXTENDS Naturals

CONSTANTS Buffers, Rows, DramWords, Jobs

VARIABLES
  sram,    \* [cells -> values], a cell being <<buffer, row>>
  dram,    \* [word address -> values]
  job,     \* the transfer under way
  copied,  \* how many of its words are in place
  status   \* "idle", "busy" or "fault"

vars == <<sram, dram, job, copied, status>>

InBounds(j) ==
  /\ j.base + j.len <= DramWords
  /\ IF j.len = 0 THEN j.row < Rows[j.buf] ELSE j.row + j.len <= Rows[j.buf]

Begin ==
  /\ status = "idle"
  /\ job' \in Jobs
  /\ status' = IF ~InBounds(job') THEN "fault" ELSE IF job'.len = 0 THEN "idle" ELSE "busy"
  /\ UNCHANGED <<sram, dram, copied>>

CopyWord ==
  /\ status = "busy"
  /\ copied < job.len
  /\ LET c == <<job.buf, job.row + copied>>
         a == job.base + copied
     IN IF job.store
        THEN dram' = [dram EXCEPT ![a] = sram[c]] /\ UNCHANGED sram
        ELSE sram' = [sram EXCEPT ![c] = dram[a]] /\ UNCHANGED dram
  /\ \/ copied' = copied + 1 /\ UNCHANGED status
     \/ copied + 1 = job.len /\ copied' = 0 /\ status' = "idle"
  /\ UNCHANGED job

Finish ==
  /\ status = "busy"
  /\ copied = job.len
  /\ copied' = 0
  /\ status' = "idle"
  /\ UNCHANGED <<sram, dram, job>>

Fail ==
  /\ status = "busy"
  /\ copied' = 0
  /\ status' = "fault"
  /\ UNCHANGED <<sram, dram, job>>

Next == Begin \/ CopyWord \/ Finish \/ Fail

Init ==
  /\ copied = 0
  /\ status = "idle"

Spec == Init /\ [][Next]_vars

=============================================================================
