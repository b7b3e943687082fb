--------------------------- MODULE AcceleratorInv ---------------------------
(***************************************************************************)
(* The inductive invariant of Accelerator and the mapping under which it   *)
(* implements IssueOrder, in a module of their own so that TLC checks them *)
(* on instances and AcceleratorProofs proves them for all.                 *)
(***************************************************************************)
EXTENDS Accelerator

CONSTANT Empty   \* no instruction is being issued

ASSUME EmptyAssumption == Empty \notin Instruction

\* A read of instruction memory is under way only while the control unit
\* waits for it or has already stopped.
FetchInv == fetch # "IDLE" => ctrl \in {"FETCH", "FAULT"}

\* The wait states hold the instruction that led into them, and the program
\* ends at MaxPC.
IssueInv ==
  /\ ctrl = "SYNC_WAIT" => insn.op = "SYNC"
  /\ ctrl = "DISP_WAIT" => insn.op \in HelperOps
  /\ ctrl \in {"ISSUE", "SYNC_WAIT", "DISP_WAIT"} /\ pc = MaxPC => insn.op = "HALT"

HelperInv == helper # "IDLE" => ctrl \in {"DISP_WAIT", "FAULT"}

\* Why the fixed port priority is enough: a helper only runs under DISP_WAIT
\* with everything else quiet, an SFU operation starts when all are idle and
\* keeps every later dispatch out.
OverlapInv ==
  /\ HelperBusy => /\ ctrl = "DISP_WAIT"
                   /\ dma = "IDLE" /\ sys = "IDLE" /\ ~sysLatched /\ sfu = "IDLE"
                   /\ fetch = "IDLE"
  /\ SfuBusy => dma = "IDLE" /\ sys = "IDLE" /\ ~HelperBusy

\* A refused instruction stays in the register: nothing is being fetched.
FaultInv == ctrl = "FAULT" => UnitReason \/ (fetch = "IDLE" /\ InsnReason)

\* What the wait states rest on: the latched mask is still that of the SYNC, an
\* instruction that waits was accepted, nothing can start beside a helper, even
\* one that has just finished, and nothing at all before the first cycle.
WaitInv ==
  /\ ctrl \in {"SYNC_WAIT", "DISP_WAIT"} => ~Rejected(insn)
  /\ ctrl = "SYNC_WAIT" => syncMask = insn.mask
  /\ ctrl = "DISP_WAIT" => dma = "IDLE" /\ sys = "IDLE" /\ ~sysLatched /\ sfu = "IDLE"
  /\ ctrl = "IDLE" => AllIdle /\ ~ExtFault /\ pc = 0

\* The conjunction of the above with the properties is preserved by every step.
IInv == TypeOK /\ FetchInv /\ IssueInv /\ HelperInv /\ OverlapInv /\ FaultInv
          /\ WaitInv /\ SyncBarrier /\ NoLostWork

-----------------------------------------------------------------------------
(* What IssueOrder sees: an instruction from the cycle it is issued in, and *)
(* an engine at work while it moves data or holds its busy line for a       *)
(* reason other than a fault.                                               *)

Current == IF ctrl \in {"ISSUE", "SYNC_WAIT", "DISP_WAIT"} THEN insn ELSE Empty

Working == {e \in AsyncEngines \union {"helper"} :
              \/ e = "dma" /\ dma = "BUSY"
              \/ e = "sys" /\ sys # "IDLE"
              \/ e = "sfu" /\ sfu = "BUSY"
              \/ e = "helper" /\ helper = "BUSY"}

Faulted == {u \in AsyncEngines \union {"helper", "fetch"} :
              \/ u = "dma" /\ DmaFault
              \/ u = "sys" /\ SysFault
              \/ u = "sfu" /\ SfuFault
              \/ u = "helper" /\ HelperFault
              \/ u = "fetch" /\ fetch = "FAULT"}

Status == IF ctrl = "HALT" THEN "done" ELSE IF ctrl = "FAULT" THEN "fault" ELSE "run"

Order == INSTANCE IssueOrder WITH
  current <- Current, begun <- ctrl = "DISP_WAIT", working <- Working,
  faulted <- Faulted, status <- Status

\* Every behaviour of the clocked machine is one the ISA allows: instructions
\* retire once and in order, and only when what they wait for is over.
ImplementsIssueOrder == Order!Spec

=============================================================================
