------------------------- MODULE AcceleratorProofs -------------------------
(***************************************************************************)
(* Theorems about Accelerator and the observation registers beside it, for *)
(* every instruction set, every tile set and every program length.         *)
(***************************************************************************)
EXTENDS Observability, AcceleratorInv, TLAPS

USE InsnAssumption, TileAssumption, BoundAssumption

-----------------------------------------------------------------------------

\* Reset establishes the invariant.
LEMMA InitIInv == Init => IInv
<1> SUFFICES ASSUME Init PROVE IInv
  OBVIOUS
<1>1. TypeOK
  <2>1. pc \in 0 .. MaxPC
    BY BoundAssumption DEF Init
  <2>2. insn \in Insns \union {Plain("NOP")}
    BY DEF Init
  <2>3. QED
    BY <2>1, <2>2 DEF Init, TypeOK, Running, Terminal
<1>2. FetchInv /\ IssueInv /\ HelperInv /\ OverlapInv /\ FaultInv
  BY DEF Init, FetchInv, IssueInv, HelperInv, OverlapInv, FaultInv, HelperBusy, SfuBusy
<1>3. SyncBarrier /\ NoLostWork
  BY DEF Init, SyncBarrier, NoLostWork
<1>4. WaitInv
  BY DEF Init, WaitInv, AllIdle, DmaBusy, SysBusy, HelperBusy, SfuBusy, ExtFault, DmaFault,
         HelperFault, SfuFault, SysFault, FaultCodes
<1>5. QED
  BY <1>1, <1>2, <1>3, <1>4 DEF IInv

\* The words that can be in the instruction register are instructions.
LEMMA InsnType ==
  ASSUME TypeOK
  PROVE  insn \in Instruction
<1>1. Plain("NOP") \in Instruction
  BY DEF Plain, Instruction, Ops, ConfigOps
<1>2. QED
  BY <1>1 DEF TypeOK

\* The program counter moves only when an instruction retires.
LEMMA ControlType ==
  ASSUME IInv, ControlStep
  PROVE  /\ ctrl' \in {"IDLE"} \union Running \union Terminal
         /\ pc' \in 0 .. MaxPC
         /\ syncMask' \subseteq AsyncEngines
         /\ faultCode' \in FaultCodes \union {"NONE"}
<1> USE DEF IInv, TypeOK, Running, Terminal
<1>1. CASE Start
  BY <1>1 DEF Start
<1>2. CASE TakeExtFault
  <2>1. ExtFaultCode \in FaultCodes
    BY DEF ExtFaultCode, FaultCodes, DmaFault, HelperFault, SfuFault
  <2>2. QED
    BY <1>2, <2>1 DEF TakeExtFault
<1>3. CASE InsnArrives
  BY <1>3 DEF InsnArrives
<1>4. CASE Reject
  BY <1>4 DEF Reject, RejectCode, IllegalCode, FaultCodes
<1>5. CASE NoConfig
  BY <1>5 DEF NoConfig, FaultCodes
<1>6. CASE IssueRetire
  <2>1. ctrl = "ISSUE" /\ insn.op # "HALT"
    BY <1>6 DEF IssueRetire, IssueRetires, Issuing, DmaDispatch, SysDispatch,
                SfuDispatch, ConfigOps, DmaOps, SfuOps
  <2>2. pc # MaxPC
    BY <2>1 DEF IssueInv
  <2>3. QED
    BY <1>6, <2>2 DEF IssueRetire
<1>7. CASE Halt
  BY <1>7 DEF Halt
<1>8. CASE SyncBlock
  <2>1. insn.mask \subseteq AsyncEngines
    BY InsnType DEF Instruction
  <2>2. QED
    BY <1>8, <2>1 DEF SyncBlock
<1>9. CASE HelperStart
  BY <1>9 DEF HelperStart
<1>10. CASE WaitRetire
  <2>1. pc # MaxPC
    BY <1>10 DEF WaitRetire, SyncRetires, IssueInv, HelperOps, TileHelperOps
  <2>2. QED
    BY <1>10, <2>1 DEF WaitRetire
<1>11. CASE Hold
  BY <1>11 DEF Hold
<1>12. QED
  BY <1>1, <1>2, <1>3, <1>4, <1>5, <1>6, <1>7, <1>8, <1>9, <1>10, <1>11
     DEF ControlStep

\* What the other registers hold after an edge.
LEMMA UnitsType ==
  ASSUME IInv, Next
  PROVE  TypeOK'
<1>1. insn' \in Insns \union {Plain("NOP")} /\ fetch' \in {"IDLE", "WAIT", "RESP", "FAULT"}
  BY DEF Next, FetchStep, Fetchable, IInv, TypeOK
<1>2. tile' \in Tiles \union {NoTile}
  BY DEF Next, TileStep, IInv, TypeOK
<1>3. dma' \in {"IDLE", "BUSY", "DRAM_OOB", "SRAM_OOB"}
  BY DEF Next, DmaStep, IInv, TypeOK
<1>4. sys' \in {"IDLE", "BUSY", "OOB"} /\ sysLatched' \in BOOLEAN
  BY DEF Next, SysStep, SysFault, IInv, TypeOK
<1>5. helper' \in {"IDLE", "BUSY", "UNSUPPORTED_OP", "SRAM_OOB"}
  BY DEF Next, HelperStep, IInv, TypeOK
<1>6. sfu' \in {"IDLE", "BUSY", "UNSUPPORTED_OP", "SRAM_OOB"}
  BY DEF Next, SfuStep, IInv, TypeOK
<1>7. /\ pending' \subseteq AsyncEngines
      /\ unsynced' \subseteq {"dma", "sys"}
      /\ lost' \subseteq AsyncEngines \union {"helper"}
  BY DEF Next, HistoryStep, Dispatched, Undisciplined, IInv, TypeOK
<1>8. QED
  BY <1>1, <1>2, <1>3, <1>4, <1>5, <1>6, <1>7, ControlType DEF Next, TypeOK

\* A read of instruction memory is under way in FETCH only.
LEMMA FetchStepInv ==
  ASSUME IInv, Next
  PROVE  FetchInv'
BY DEF IInv, FetchInv, Next, ControlStep, FetchStep, Start, TakeExtFault, InsnArrives,
       Reject, NoConfig, IssueRetire, IssueRetires, Halt, SyncBlock, HelperStart,
       HelperDispatch, WaitRetire, SyncRetires, Hold, Issuing, Running, Terminal

\* The instruction register moves only under S_FETCH or after the end.
LEMMA InsnHeld ==
  ASSUME IInv, Next, ctrl \notin {"FETCH", "FAULT"}
  PROVE  insn' = insn
BY DEF IInv, FetchInv, Next, FetchStep

\* An instruction beyond FETCH is one that was decoded and is legal there.
LEMMA IssueStepInv ==
  ASSUME IInv, Next
  PROVE  IssueInv'
<1>1. CASE ctrl' = "SYNC_WAIT"
  <2>1. insn.op = "SYNC" /\ ctrl \in {"ISSUE", "SYNC_WAIT"} /\ pc' = pc
    BY <1>1 DEF Next, ControlStep, Start, TakeExtFault, InsnArrives, Reject, NoConfig,
         IssueRetire, Halt, SyncBlock, HelperStart, WaitRetire, Hold, Issuing, IInv,
         IssueInv
  <2>2. QED
    BY <1>1, <2>1, InsnHeld DEF IInv, IssueInv
<1>2. CASE ctrl' = "DISP_WAIT"
  <2>1. insn.op \in HelperOps /\ ctrl \in {"ISSUE", "DISP_WAIT"} /\ pc' = pc
    BY <1>2 DEF Next, ControlStep, Start, TakeExtFault, InsnArrives, Reject, NoConfig,
         IssueRetire, Halt, SyncBlock, HelperStart, HelperDispatch, WaitRetire, Hold,
         Issuing, IInv, IssueInv
  <2>2. QED
    BY <1>2, <2>1, InsnHeld DEF IInv, IssueInv
<1>3. CASE ctrl' = "ISSUE"
  <2>1. \/ InsnArrives
        \/ Hold /\ ctrl = "ISSUE"
    BY <1>3 DEF Next, ControlStep, Start, TakeExtFault, InsnArrives, Reject, NoConfig,
         IssueRetire, Halt, SyncBlock, HelperStart, WaitRetire, Hold
  <2>2. CASE InsnArrives
    <3>1. insn' \in Fetchable /\ pc' = pc
      BY <2>2 DEF Next, FetchStep, InsnArrives
    <3>2. QED
      BY <1>3, <3>1 DEF Fetchable, IssueInv
  <2>3. CASE Hold /\ ctrl = "ISSUE"
    <3>1. insn' = insn /\ pc' = pc
      BY <2>3, InsnHeld DEF Hold
    <3>2. QED
      BY <1>3, <2>3, <3>1 DEF IInv, IssueInv
  <2>4. QED
    BY <2>1, <2>2, <2>3
<1>4. CASE ctrl' \notin {"SYNC_WAIT", "DISP_WAIT", "ISSUE"}
  BY <1>4 DEF IssueInv
<1>5. QED
  BY <1>1, <1>2, <1>3, <1>4

\* A helper operation under way keeps the control unit in S_DISP_WAIT, or it
\* faulted and the control unit stopped for it.
LEMMA HelperStepInv ==
  ASSUME IInv, Next
  PROVE  HelperInv'
<1> USE DEF IInv, HelperInv
<1>1. SUFFICES ASSUME helper' # "IDLE"
               PROVE  ctrl' \in {"DISP_WAIT", "FAULT"}
  OBVIOUS
<1>2. CASE HelperDispatch
  BY <1>2 DEF Next, ControlStep, Start, TakeExtFault, InsnArrives, Reject, NoConfig,
     IssueRetire, IssueRetires, Halt, SyncBlock, HelperStart, WaitRetire, SyncRetires,
     Hold, HelperDispatch, Issuing, DmaDispatch, SysDispatch, SfuDispatch, HelperOps,
     TileHelperOps, ConfigOps, DmaOps, SfuOps, Terminal
<1>3. CASE ~HelperDispatch
  <2>1. helper # "IDLE"
    BY <1>1, <1>3 DEF Next, HelperStep
  <2>2. helper = "BUSY" \/ helper \in FaultCodes
    BY <2>1 DEF TypeOK, FaultCodes
  <2>3. QED
    BY <2>1, <2>2 DEF Next, ControlStep, Start, TakeExtFault, InsnArrives, Reject,
       NoConfig, IssueRetire, IssueRetires, Halt, SyncBlock, HelperStart, HelperDispatch,
       WaitRetire, SyncRetires, Hold, Issuing, Terminal, HelperBusy, ExtFault,
       HelperFault, FaultCodes
<1>4. QED
  BY <1>2, <1>3

\* Helpers and SFU operations start with everything else idle, and nothing
\* starts before they are over.
LEMMA OverlapStepInv ==
  ASSUME IInv, Next
  PROVE  OverlapInv'
<1> USE DEF IInv, TypeOK, HelperBusy, SfuBusy, DmaBusy, SysBusy, AllIdle
<1>1. ASSUME helper' = "BUSY"
      PROVE  /\ ctrl' = "DISP_WAIT"
             /\ dma' = "IDLE" /\ sys' = "IDLE" /\ ~sysLatched' /\ sfu' = "IDLE"
             /\ fetch' = "IDLE"
  <2>1. HelperDispatch \/ helper = "BUSY"
    BY <1>1 DEF Next, HelperStep
  <2>2. /\ dma = "IDLE" /\ sys = "IDLE" /\ ~sysLatched /\ sfu = "IDLE"
        /\ fetch = "IDLE" /\ helper \in {"IDLE", "BUSY"} /\ ~ExtFault
        /\ ctrl \in {"ISSUE", "DISP_WAIT"}
    BY <2>1 DEF HelperDispatch, Issuing, ExtFault, SfuFault, HelperFault, SysFault,
                DmaFault, FaultCodes, OverlapInv, FetchInv
  <2>3. ~DmaDispatch /\ ~SysDispatch /\ ~SfuDispatch
    BY <2>1, <2>2 DEF HelperDispatch, DmaDispatch, SysDispatch, SfuDispatch, HelperOps,
         TileHelperOps, DmaOps, SfuOps, Issuing, OverlapInv
  <2>4. dma' = "IDLE" /\ sys' = "IDLE" /\ ~sysLatched' /\ sfu' = "IDLE" /\ fetch' = "IDLE"
    BY <2>2, <2>3 DEF Next, DmaStep, SysStep, SysFault, SfuStep, FetchStep
  <2>5. ctrl' = "DISP_WAIT"
    <3>1. CASE HelperDispatch
      BY <2>2, <3>1 DEF Next, ControlStep, Start, TakeExtFault, InsnArrives, Reject,
           NoConfig, IssueRetire, IssueRetires, Halt, SyncBlock, HelperStart, WaitRetire,
           SyncRetires, Hold, HelperDispatch, Issuing, DmaDispatch, SysDispatch,
           SfuDispatch, HelperOps, TileHelperOps, ConfigOps, DmaOps, SfuOps, Terminal
    <3>2. CASE helper = "BUSY"
      BY <2>2, <3>2 DEF OverlapInv, Next, ControlStep, Start, TakeExtFault, InsnArrives,
           Reject, NoConfig, IssueRetire, IssueRetires, Halt, SyncBlock, HelperStart,
           HelperDispatch, WaitRetire, SyncRetires, Hold, Issuing, Terminal
    <3>3. QED
      BY <2>1, <3>1, <3>2
  <2>6. QED
    BY <2>4, <2>5
<1>2. ASSUME sfu' = "BUSY"
      PROVE  dma' = "IDLE" /\ sys' = "IDLE" /\ helper' # "BUSY"
  <2>1. SfuDispatch \/ sfu = "BUSY"
    BY <1>2 DEF Next, SfuStep
  <2>2. dma = "IDLE" /\ sys = "IDLE" /\ helper # "BUSY"
    BY <2>1 DEF SfuDispatch, OverlapInv
  <2>3. ~DmaDispatch /\ ~SysDispatch /\ ~HelperDispatch
    BY <2>1 DEF SfuDispatch, DmaDispatch, SysDispatch, HelperDispatch, DmaOps, SfuOps,
         HelperOps, TileHelperOps
  <2>4. QED
    BY <2>2, <2>3 DEF Next, DmaStep, SysStep, HelperStep
<1>3. QED
  BY <1>1, <1>2 DEF OverlapInv

\* Which instruction the control unit waits on, and for what.
LEMMA WaitStepInv ==
  ASSUME IInv, Next
  PROVE  WaitInv'
<1> USE DEF IInv, TypeOK, WaitInv
<1>1. ASSUME ctrl' \in {"SYNC_WAIT", "DISP_WAIT"}
      PROVE  ~Rejected(insn') /\ (ctrl' = "SYNC_WAIT" => syncMask' = insn'.mask)
  <2>1. \/ SyncBlock
        \/ HelperStart
        \/ Hold /\ ctrl \in {"SYNC_WAIT", "DISP_WAIT"}
    BY <1>1 DEF Next, ControlStep, Start, TakeExtFault, InsnArrives, Reject, NoConfig,
         IssueRetire, Halt, WaitRetire, Hold
  <2>2. ~Rejected(insn) /\ ctrl \notin {"FETCH", "FAULT"}
    BY <2>1 DEF SyncBlock, HelperStart, HelperDispatch, Issuing
  <2>3. insn' = insn
    BY <2>2, InsnHeld
  <2>4. ctrl' = "SYNC_WAIT" => syncMask' = insn.mask
    BY <2>1 DEF SyncBlock, HelperStart, Hold
  <2>5. QED
    BY <2>2, <2>3, <2>4
<1>2. ASSUME ctrl' = "DISP_WAIT"
      PROVE  dma' = "IDLE" /\ sys' = "IDLE" /\ ~sysLatched' /\ sfu' = "IDLE"
  <2>1. HelperStart \/ (Hold /\ ctrl = "DISP_WAIT")
    BY <1>2 DEF Next, ControlStep, Start, TakeExtFault, InsnArrives, Reject, NoConfig,
         IssueRetire, Halt, SyncBlock, WaitRetire, Hold
  <2>2. dma = "IDLE" /\ sys = "IDLE" /\ ~sysLatched /\ sfu = "IDLE"
    BY <2>1 DEF HelperStart, HelperDispatch, Issuing, AllIdle, DmaBusy, SysBusy, SfuBusy,
         ExtFault, SfuFault, SysFault, FaultCodes
  <2>3. ~DmaDispatch /\ ~SysDispatch /\ ~SfuDispatch
    BY <2>1 DEF HelperStart, HelperDispatch, DmaDispatch, SysDispatch, SfuDispatch, Issuing,
         HelperOps, TileHelperOps, DmaOps, SfuOps
  <2>4. QED
    BY <2>2, <2>3 DEF Next, DmaStep, SysStep, SysFault, SfuStep
<1>3. ASSUME ctrl' = "IDLE"
      PROVE  AllIdle' /\ ~ExtFault' /\ pc' = 0
  <2>1. Hold /\ ctrl = "IDLE"
    BY <1>3 DEF Next, ControlStep, Start, TakeExtFault, InsnArrives, Reject, NoConfig,
         IssueRetire, Halt, SyncBlock, HelperStart, WaitRetire, Hold
  <2>2. /\ dma = "IDLE" /\ sys = "IDLE" /\ ~sysLatched /\ sfu = "IDLE" /\ helper = "IDLE"
        /\ fetch = "IDLE"
    BY <2>1 DEF AllIdle, DmaBusy, SysBusy, SfuBusy, HelperBusy, ExtFault, SfuFault, SysFault,
         HelperFault, FaultCodes, FetchInv
  <2>3. ~DmaDispatch /\ ~SysDispatch /\ ~SfuDispatch /\ ~HelperDispatch
    BY <2>1 DEF DmaDispatch, SysDispatch, SfuDispatch, HelperDispatch, Issuing
  <2>4. /\ dma' = "IDLE" /\ sys' = "IDLE" /\ ~sysLatched' /\ sfu' = "IDLE"
        /\ helper' = "IDLE" /\ fetch' = "IDLE"
    BY <2>1, <2>2, <2>3 DEF Next, DmaStep, SysStep, SysFault, SfuStep, HelperStep, FetchStep
  <2>5. pc' = 0
    BY <2>1 DEF Hold
  <2>6. QED
    BY <2>4, <2>5 DEF AllIdle, DmaBusy, SysBusy, SfuBusy, HelperBusy, ExtFault, DmaFault, SfuFault,
         SysFault, HelperFault, FaultCodes
<1>4. QED
  BY <1>1, <1>2, <1>3

\* An instruction that was fenced saw every engine of its mask idle, and no
\* engine starts in the cycle in which a fence is passed except its own.
LEMMA BarrierStepInv ==
  ASSUME IInv, Next
  PROVE  SyncBarrier'
<1> USE DEF IInv, TypeOK, SyncBarrier
<1>1. ASSUME NEW e \in Fenced
      PROVE  /\ e = "dma" => dma = "IDLE"
             /\ e = "sys" => sys = "IDLE" /\ ~sysLatched
             /\ e = "sfu" => sfu = "IDLE"
  <2>1. ~ExtFault
    BY <1>1 DEF Fenced, HelperDispatch, SfuDispatch, SyncRetires, IssueRetires, Issuing
  <2>2. e \in AsyncEngines => e \notin BusyEngines
    BY <1>1 DEF Fenced, HelperDispatch, SfuDispatch, SyncRetires, IssueRetires, SyncClear,
         AllIdle, BusyEngines, DmaDispatch, SysDispatch, DmaOps, SfuOps, ConfigOps
  <2>3. QED
    BY <2>1, <2>2 DEF BusyEngines, AsyncEngines, DmaBusy, SysBusy, SfuBusy, ExtFault,
         SysFault, SfuFault, FaultCodes
<1>2. "dma" \notin pending' => dma' = "IDLE"
  <2>1. SUFFICES ASSUME "dma" \notin pending'
                 PROVE  dma' = "IDLE"
    OBVIOUS
  <2>2. ~DmaDispatch
    BY <2>1 DEF Next, HistoryStep, Dispatched, AsyncEngines
  <2>3. dma = "IDLE"
    BY <2>1, <1>1 DEF Next, HistoryStep
  <2>4. QED
    BY <2>2, <2>3 DEF Next, DmaStep
<1>3. "sys" \notin pending' => sys' = "IDLE" /\ ~sysLatched'
  <2>1. SUFFICES ASSUME "sys" \notin pending'
                 PROVE  sys' = "IDLE" /\ ~sysLatched'
    OBVIOUS
  <2>2. ~SysDispatch
    BY <2>1 DEF Next, HistoryStep, Dispatched, AsyncEngines
  <2>3. sys = "IDLE" /\ ~sysLatched
    BY <2>1, <1>1 DEF Next, HistoryStep
  <2>4. QED
    BY <2>2, <2>3 DEF Next, SysStep, SysFault
<1>4. "sfu" \notin pending' => sfu' = "IDLE"
  <2>1. SUFFICES ASSUME "sfu" \notin pending'
                 PROVE  sfu' = "IDLE"
    OBVIOUS
  <2>2. ~SfuDispatch
    BY <2>1 DEF Next, HistoryStep, Dispatched, AsyncEngines
  <2>3. sfu = "IDLE"
    BY <2>1, <1>1 DEF Next, HistoryStep
  <2>4. QED
    BY <2>2, <2>3 DEF Next, SfuStep
<1>5. QED
  BY <1>2, <1>3, <1>4

\* An engine ignores a dispatch only when it is among the unsynced.
LEMMA LostStepInv ==
  ASSUME IInv, Next
  PROVE  NoLostWork'
<1> USE DEF IInv, TypeOK
<1>1. SfuDispatch => sfu = "IDLE"
  BY DEF SfuDispatch, AllIdle, SfuBusy, Issuing, ExtFault, SfuFault, FaultCodes
<1>2. HelperDispatch => helper = "IDLE"
  BY DEF HelperDispatch, AllIdle, HelperBusy, Issuing, ExtFault, HelperFault, FaultCodes
<1>3. DmaDispatch /\ dma # "IDLE" => "dma" \in Undisciplined
  BY DEF Undisciplined, SyncBarrier
<1>4. SysDispatch /\ sys # "IDLE" => "sys" \in Undisciplined
  BY DEF Undisciplined, SyncBarrier
<1>5. QED
  BY <1>1, <1>2, <1>3, <1>4 DEF NoLostWork, Next, HistoryStep

\* A unit's fault stays until reset: none of them leaves its fault state.
LEMMA UnitFaultKept ==
  ASSUME IInv, Next
  PROVE  /\ fetch = "FAULT" => fetch' = "FAULT"
         /\ DmaFault => dma' = dma
         /\ HelperFault => helper' = helper
         /\ SfuFault => sfu' = sfu
         /\ SysFault => sysLatched'
BY DEF Next, FetchStep, DmaStep, HelperStep, SfuStep, SysStep, DmaFault, HelperFault,
       SfuFault, FaultCodes

\* In S_FAULT the code is what it was at the step into S_FAULT, and so is what
\* it names: a unit keeps its fault, and a refused instruction is not replaced
\* because no read of instruction memory is under way.
LEMMA FaultStepInv ==
  ASSUME IInv, Next
  PROVE  FaultInv'
<1> USE DEF IInv
<1>1. SUFFICES ASSUME ctrl' = "FAULT"
               PROVE  UnitReason' \/ (fetch' = "IDLE" /\ InsnReason')
  BY DEF FaultInv
<1>2. ASSUME UnitReason, faultCode' = faultCode
      PROVE  UnitReason'
  BY <1>2, UnitFaultKept DEF UnitReason, DmaFault, HelperFault, SfuFault, SysFault
<1>3. CASE TakeExtFault
  BY <1>3, UnitFaultKept DEF TakeExtFault, ExtFault, ExtFaultCode, UnitReason, DmaFault,
     HelperFault, SfuFault
<1>4. ASSUME Issuing \/ ctrl = "ISSUE" \/ ctrl = "FAULT", fetch = "IDLE", ~TileWrite
      PROVE  fetch' = "IDLE" /\ insn' = insn /\ tile' = tile
  BY <1>4 DEF Issuing, Next, FetchStep, TileStep
<1>5. CASE Reject
  <2>1. fetch = "IDLE" /\ ~TileWrite
    BY <1>5 DEF Reject, TileWrite, Issuing, FetchInv
  <2>2. QED
    BY <1>4, <1>5, <2>1 DEF Reject, InsnReason
<1>6. CASE NoConfig
  <2>1. fetch = "IDLE" /\ ~TileWrite
    BY <1>6 DEF NoConfig, Issuing, TileWrite, FetchInv, Configured, TileOps,
       TileHelperOps, SfuOps
  <2>2. QED
    BY <1>4, <1>6, <2>1 DEF NoConfig, Issuing, InsnReason, Configured
<1>7. CASE Hold /\ ctrl = "FAULT"
  <2>1. CASE UnitReason
    BY <1>2, <1>7, <2>1 DEF Hold
  <2>2. CASE fetch = "IDLE" /\ InsnReason
    <3>1. ~TileWrite
      BY <1>7 DEF TileWrite, Issuing
    <3>2. QED
      BY <1>4, <1>7, <2>2, <3>1 DEF Hold, InsnReason, Configured
  <2>3. QED
    BY <1>7, <2>1, <2>2 DEF FaultInv
<1>8. QED
  BY <1>1, <1>3, <1>5, <1>6, <1>7 DEF Next, ControlStep, Start, InsnArrives, IssueRetire,
     Halt, SyncBlock, HelperStart, WaitRetire, Hold

\* Every edge keeps the invariant.
LEMMA NextIInv == IInv /\ [Next]_vars => IInv'
<1>1. ASSUME IInv, Next
      PROVE  IInv'
  BY <1>1, UnitsType, FetchStepInv, IssueStepInv, HelperStepInv, OverlapStepInv,
     WaitStepInv, BarrierStepInv, LostStepInv, FaultStepInv DEF IInv
<1>2. ASSUME IInv, UNCHANGED vars
      PROVE  IInv'
  BY <1>2 DEF vars, IInv, TypeOK, FetchInv, IssueInv, HelperInv, OverlapInv, WaitInv,
       SyncBarrier, NoLostWork, FaultInv, UnitReason, InsnReason, AllIdle, DmaBusy, SysBusy,
       HelperBusy, SfuBusy, ExtFault, DmaFault, HelperFault, SfuFault, SysFault, Configured
<1>3. QED
  BY <1>1, <1>2

\* The inductive invariant holds of every program on every set of units.
THEOREM Invariance == Spec => []IInv
BY InitIInv, NextIInv, PTL DEF Spec

-----------------------------------------------------------------------------

\* Every register keeps to its range; in particular the program counter never
\* passes the HALT at the end of the program.
THEOREM TypeCorrect == Spec => []TypeOK
<1>1. IInv => TypeOK
  BY DEF IInv
<1>2. QED
  BY <1>1, Invariance, PTL

\* The overlap flag of taccel_top is never raised, whatever the program.
THEOREM OverlapFree == Spec => []NoForbiddenOverlap
<1>1. IInv => NoForbiddenOverlap
  BY DEF IInv, OverlapInv, NoForbiddenOverlap, HelperBusy, SfuBusy, DmaBusy, SysBusy
<1>2. QED
  BY <1>1, Invariance, PTL

\* A passed SYNC or fence means that what it names is over.
THEOREM BarrierHolds == Spec => []SyncBarrier
<1>1. IInv => SyncBarrier
  BY DEF IInv
<1>2. QED
  BY <1>1, Invariance, PTL

\* Under the SYNC discipline every dispatched operation is taken; helper and
\* SFU operations are taken under any program.
THEOREM NothingLost == Spec => []NoLostWork
<1>1. IInv => NoLostWork
  BY DEF IInv
<1>2. QED
  BY <1>1, Invariance, PTL

\* A halted program that synced everything left no engine at work and no fault
\* unreported.
THEOREM SyncedHalt == Spec => []SyncedHaltIsClean
<1>1. IInv => SyncedHaltIsClean
  <2>1. SUFFICES ASSUME IInv, ctrl = "HALT", pending = {}
                 PROVE  AllIdle /\ ~ExtFault
    BY DEF SyncedHaltIsClean
  <2>2. QED
    BY <2>1 DEF IInv, TypeOK, SyncBarrier, FetchInv, HelperInv, AllIdle, ExtFault, DmaBusy,
       SysBusy, HelperBusy, SfuBusy, DmaFault, HelperFault, SfuFault, SysFault, FaultCodes
<1>2. QED
  BY <1>1, Invariance, PTL

\* The fault code the host reads is never stale or invented: a unit still holds
\* it, or it is the control unit's verdict on the instruction it stopped at.
THEOREM TruthfulFault == Spec => []FaultCodeTruthful
<1>1. IInv => FaultCodeTruthful
  BY DEF IInv, FaultInv, FaultCodeTruthful
<1>2. QED
  BY <1>1, Invariance, PTL


-----------------------------------------------------------------------------
(* What a helper operation reads.                                          *)

\* While a helper operation runs nothing is issued or fetched, so the tile
\* registers, the instruction and its pc stay what it was dispatched with.
THEOREM HelperUndisturbed == Spec => HelperInputsStable
<1>1. ASSUME IInv, Next, HelperBusy
      PROVE  UNCHANGED <<tile, insn, pc>>
  <2>1. ctrl = "DISP_WAIT"
    BY <1>1 DEF IInv, OverlapInv
  <2>2. insn' = insn
    BY <1>1, <2>1, InsnHeld
  <2>3. tile' = tile
    BY <1>1, <2>1 DEF Next, TileStep, TileWrite, Issuing
  <2>4. pc' = pc
    BY <1>1, <2>1 DEF Next, ControlStep, Start, TakeExtFault, InsnArrives, Reject, NoConfig,
         IssueRetire, IssueRetires, Halt, SyncBlock, HelperStart, WaitRetire, SyncRetires,
         Hold, Issuing, DmaDispatch, SysDispatch, SfuDispatch
  <2>5. QED
    BY <2>2, <2>3, <2>4
<1>2. IInv /\ [Next]_vars => [HelperBusy => UNCHANGED <<tile, insn, pc>>]_vars
  BY <1>1
<1>3. QED
  BY <1>2, Invariance, PTL DEF Spec, HelperInputsStable

-----------------------------------------------------------------------------
(* Accelerator implements IssueOrder.                                      *)

USE EmptyAssumption

\* The engines that get a dispatch pulse in this cycle.
Given == {e \in AsyncEngines \union {"helper"} :
            \/ e = "dma" /\ DmaDispatch
            \/ e = "sys" /\ SysDispatch
            \/ e = "sfu" /\ SfuDispatch
            \/ e = "helper" /\ HelperDispatch}

\* IssueOrder reads the instruction set the same way.
LEMMA SameIsa ==
  /\ Order!Instruction = Instruction
  /\ Order!DmaOps = DmaOps /\ Order!SfuOps = SfuOps /\ Order!HelperOps = HelperOps
  /\ \A i : Order!Rejected(i) = Rejected(i)
<1>1. /\ Order!ConfigOps = ConfigOps /\ Order!DmaOps = DmaOps /\ Order!SfuOps = SfuOps
      /\ Order!TileHelperOps = TileHelperOps /\ Order!HelperOps = HelperOps
      /\ Order!DroppedOps = DroppedOps /\ Order!ReservedOps = ReservedOps
      /\ Order!AsyncEngines = AsyncEngines
  BY DEF Order!ConfigOps, ConfigOps, Order!DmaOps, DmaOps, Order!SfuOps, SfuOps,
         Order!TileHelperOps, TileHelperOps, Order!HelperOps, HelperOps, Order!DroppedOps,
         DroppedOps, Order!ReservedOps, ReservedOps, Order!AsyncEngines, AsyncEngines
<1>2. Order!TileOps = TileOps
  BY <1>1 DEF Order!TileOps, TileOps
<1>3. Order!BufferOps = BufferOps /\ Order!Ops = Ops
  BY <1>1, <1>2 DEF Order!BufferOps, BufferOps, Order!Ops, Ops
<1>4. Order!Instruction = Instruction
  BY <1>1, <1>3 DEF Order!Instruction, Instruction
<1>5. \A i : Order!Rejected(i) = Rejected(i)
  BY <1>1, <1>3 DEF Order!Rejected, Rejected, Order!Illegal, Illegal, Order!Unsupported,
     Unsupported
<1>6. QED
  BY <1>1, <1>4, <1>5

\* Between two edges engines finish, fault or take what they are given; a unit
\* that did not work and was given nothing shows no new fault.
LEMMA EnginesStep ==
  ASSUME IInv, Next, NEW D, Given \subseteq D
  PROVE  Order!EnginesMove(D)
<1>1. /\ dma' = "BUSY" => dma = "BUSY" \/ DmaDispatch
      /\ sys' # "IDLE" => sys # "IDLE" \/ SysDispatch
      /\ sfu' = "BUSY" => sfu = "BUSY" \/ SfuDispatch
      /\ helper' = "BUSY" => helper = "BUSY" \/ HelperDispatch
  BY DEF Next, DmaStep, SysStep, SfuStep, HelperStep
<1>2. /\ DmaFault' => DmaFault \/ dma = "BUSY" \/ DmaDispatch
      /\ SfuFault' => SfuFault \/ sfu = "BUSY" \/ SfuDispatch
      /\ HelperFault' => HelperFault \/ helper = "BUSY" \/ HelperDispatch
  BY DEF Next, DmaStep, SfuStep, HelperStep, IInv, TypeOK, DmaFault, SfuFault, HelperFault
<1>3. SysFault' => SysFault \/ sys # "IDLE"
  BY DEF Next, SysStep, IInv, TypeOK, SysFault
<1>4. /\ DmaFault => DmaFault'
      /\ SfuFault => SfuFault'
      /\ HelperFault => HelperFault'
      /\ SysFault => SysFault'
      /\ fetch = "FAULT" => fetch' = "FAULT"
  BY UnitFaultKept DEF DmaFault, SysFault, SfuFault, HelperFault
<1>5. Working' \subseteq Working \union Given
  BY <1>1 DEF Working, Given
<1>6. Faulted \subseteq Faulted'
  BY <1>4 DEF Faulted
<1>7. Faulted' \ Faulted \subseteq Working \union Given \union {"fetch"}
  BY <1>2, <1>3 DEF Faulted, Working, Given
<1>8. QED
  BY <1>5, <1>6, <1>7 DEF Order!EnginesMove

\* Outside S_ISSUE, and when the word in S_ISSUE is not one for an engine, no
\* engine is given anything; a retiring word gives its own engine work.
LEMMA GivenTo ==
  /\ ~Issuing => Given = {}
  /\ ~HelperDispatch => Given \subseteq Order!EngineOf(insn)
  /\ Given \subseteq Order!EngineOf(insn) \union {"helper"}
BY SameIsa DEF Given, Order!EngineOf, DmaDispatch, SysDispatch, SfuDispatch, HelperDispatch,
       DmaOps, SfuOps, HelperOps, TileHelperOps

\* What IssueOrder sees when no unit holds a fault.
LEMMA NoFaultSeen ==
  /\ ~ExtFault => Faulted = {}
  /\ AllIdle => Working = {}
  /\ Working \intersect AsyncEngines \subseteq BusyEngines
BY DEF ExtFault, Faulted, Working, AllIdle, BusyEngines, DmaBusy, SysBusy, SfuBusy,
       HelperBusy, AsyncEngines

\* Reset is the start of IssueOrder.
LEMMA InitMaps == Init => Order!Init
BY DEF Init, Order!Init, Current, Working, Faulted, Status, DmaFault, SysFault, SfuFault,
       HelperFault, FaultCodes

\* Every edge is one step of IssueOrder, or only its engines move.
LEMMA StepMaps ==
  ASSUME IInv, Next
  PROVE  Order!Next
<1> DEFINE Begun == ctrl = "DISP_WAIT"
<1>1. insn \in Instruction /\ insn # Empty
  BY InsnType DEF IInv
<1>2. insn' \in Instruction /\ insn' # Empty
  <2>1. Plain("NOP") \in Instruction
    BY DEF Plain, Instruction, Ops, ConfigOps
  <2>2. QED
    BY <2>1, UnitsType DEF TypeOK
<1>3. ASSUME Given = {}, pc' = pc, Current' = Current, Begun' = Begun, Status' = Status
      PROVE  Order!Next
  BY <1>3, EnginesStep DEF Order!Next, Order!Background
<1>4. CASE Start
  <2>1. Given = {}
    BY <1>4, GivenTo DEF Start, Issuing
  <2>2. QED
    BY <1>3, <1>4, <2>1 DEF Start, IInv, WaitInv, Current, Status
<1>5. CASE TakeExtFault
  <2>1. Given = {}
    BY <1>5, GivenTo DEF TakeExtFault, Issuing
  <2>2. QED
    BY <1>5, <2>1, EnginesStep DEF TakeExtFault, Running, Current, Status, Order!Next, Order!Stop
<1>6. CASE InsnArrives
  <2>1. Given = {}
    BY <1>6, GivenTo DEF InsnArrives, Issuing
  <2>2. QED
    BY <1>2, <1>6, <2>1, EnginesStep, SameIsa DEF InsnArrives, Current, Status, Order!Next, Order!Take
<1>7. CASE Reject
  <2>1. Given = {}
    BY <1>7, GivenTo DEF Reject, Issuing
  <2>2. QED
    BY <1>7, <2>1, EnginesStep DEF Reject, Current, Status, Order!Next, Order!Stop
<1>8. CASE NoConfig
  <2>1. Given = {}
    BY <1>8 DEF NoConfig, Given, DmaDispatch, SysDispatch, SfuDispatch, HelperDispatch,
         Configured, TileOps, TileHelperOps, SfuOps, DmaOps, HelperOps
  <2>2. QED
    BY <1>8, <2>1, EnginesStep DEF NoConfig, Issuing, Current, Status, Order!Next, Order!Stop
<1>9. CASE IssueRetire
  <2>1. ctrl = "ISSUE" /\ Faulted = {} /\ ~Rejected(insn)
    BY <1>9, NoFaultSeen DEF IssueRetire, IssueRetires, Issuing
  <2>2. insn.op # "HALT" /\ insn.op \notin HelperOps
    BY <1>9 DEF IssueRetire, IssueRetires, DmaDispatch, SysDispatch, SfuDispatch, ConfigOps,
         DmaOps, SfuOps, HelperOps, TileHelperOps
  <2>3. insn.op = "SYNC" => insn.mask \intersect Working = {}
    <3>1. ASSUME insn.op = "SYNC"
          PROVE  SyncClear(insn.mask) /\ insn.mask \subseteq AsyncEngines
      BY <1>1, <1>9, <3>1 DEF IssueRetire, IssueRetires, DmaDispatch, SysDispatch, SfuDispatch,
           ConfigOps, DmaOps, SfuOps, Instruction
    <3>2. QED
      BY <3>1, NoFaultSeen DEF SyncClear
  <2>4. insn.op \in SfuOps => Working = {}
    BY <1>9, NoFaultSeen DEF IssueRetire, IssueRetires, DmaDispatch, SysDispatch, SfuDispatch,
         ConfigOps, DmaOps, SfuOps
  <2>5. Order!EnginesMove(Order!EngineOf(insn))
    BY <2>2, GivenTo, EnginesStep DEF HelperDispatch
  <2>6. /\ pc' = pc + 1 /\ Current = insn /\ Current' = Empty
        /\ ~Begun' /\ Status = "run" /\ Status' = "run"
    BY <1>9, <2>1 DEF IssueRetire, Current, Status
  <2>7. QED
    BY <1>1, <2>1, <2>2, <2>3, <2>4, <2>5, <2>6, SameIsa DEF Order!Next, Order!Retire
<1>10. CASE Halt
  <2>1. Given = {}
    BY <1>10 DEF Halt, Given, DmaDispatch, SysDispatch, SfuDispatch, HelperDispatch, DmaOps,
         SfuOps, HelperOps, TileHelperOps
  <2>2. Faulted = {} /\ ctrl = "ISSUE"
    BY <1>10, NoFaultSeen DEF Halt, Issuing
  <2>3. QED
    BY <1>1, <1>10, <2>1, <2>2, EnginesStep DEF Halt, Current, Status, Order!Next, Order!Stop
<1>11. CASE SyncBlock
  <2>1. Given = {}
    BY <1>11 DEF SyncBlock, Given, DmaDispatch, SysDispatch, SfuDispatch, HelperDispatch,
         DmaOps, SfuOps, HelperOps, TileHelperOps
  <2>2. ctrl = "ISSUE" /\ insn' = insn
    BY <1>11, InsnHeld DEF SyncBlock, Issuing
  <2>3. QED
    BY <1>3, <1>11, <2>1, <2>2 DEF SyncBlock, Current, Status
<1>12. CASE HelperStart
  <2>1. Given \subseteq {"helper"}
    BY <1>12 DEF HelperStart, Given, DmaDispatch, SysDispatch, SfuDispatch, HelperDispatch,
         DmaOps, SfuOps, HelperOps, TileHelperOps
  <2>2. ctrl = "ISSUE" /\ insn' = insn /\ insn.op \in HelperOps
    BY <1>12, InsnHeld DEF HelperStart, HelperDispatch, Issuing
  <2>3. Faulted = {} /\ Working = {}
    BY <1>12, NoFaultSeen DEF HelperStart, HelperDispatch, Issuing
  <2>4. /\ pc' = pc /\ Current = insn /\ Current' = insn
        /\ ~Begun /\ Begun' /\ Status = "run" /\ Status' = "run"
    BY <1>12, <2>2 DEF HelperStart, Current, Status
  <2>5. QED
    BY <1>1, <2>1, <2>2, <2>3, <2>4, EnginesStep, SameIsa DEF Order!Next, Order!Begin
<1>13. CASE WaitRetire
  <2>1. ctrl \in {"SYNC_WAIT", "DISP_WAIT"} /\ Faulted = {}
    BY <1>13, NoFaultSeen DEF WaitRetire, SyncRetires
  <2>2. ~Rejected(insn) /\ insn.op # "HALT" /\ insn.op \notin SfuOps
    BY <2>1 DEF IInv, WaitInv, IssueInv, HelperOps, TileHelperOps, SfuOps
  <2>3. insn.op = "SYNC" => insn.mask \intersect Working = {}
    <3>1. ASSUME insn.op = "SYNC"
          PROVE  SyncClear(insn.mask) /\ insn.mask \subseteq AsyncEngines
      BY <1>1, <1>13, <3>1 DEF WaitRetire, SyncRetires, IInv, WaitInv, IssueInv, HelperOps,
           TileHelperOps, Instruction
    <3>2. QED
      BY <3>1, NoFaultSeen DEF SyncClear
  <2>4. insn.op \in HelperOps => Begun /\ Working = {}
    <3>1. ASSUME insn.op \in HelperOps
          PROVE  ctrl = "DISP_WAIT" /\ AllIdle
      BY <1>13, <2>1, <3>1 DEF WaitRetire, SyncRetires, IInv, WaitInv, IssueInv, HelperOps,
           TileHelperOps, AllIdle, DmaBusy, SysBusy, SfuBusy
    <3>2. QED
      BY <3>1, NoFaultSeen
  <2>5. Order!EnginesMove(Order!EngineOf(insn))
    <3>1. Given = {}
      BY <2>1, GivenTo DEF Issuing
    <3>2. QED
      BY <3>1, EnginesStep
  <2>6. /\ pc' = pc + 1 /\ Current = insn /\ Current' = Empty
        /\ ~Begun' /\ Status = "run" /\ Status' = "run"
    BY <1>13, <2>1 DEF WaitRetire, Current, Status
  <2>7. QED
    BY <1>1, <2>1, <2>2, <2>3, <2>4, <2>5, <2>6, SameIsa DEF Order!Next, Order!Retire
<1>14. CASE Hold
  <2>1. Given = {}
    BY <1>14, GivenTo DEF Hold, Given, Issuing, Terminal
  <2>2. ctrl \notin {"FETCH", "FAULT"} => insn' = insn
    BY InsnHeld
  <2>3. QED
    BY <1>3, <1>14, <2>1, <2>2 DEF Hold, Current, Status
<1>15. QED
  BY <1>4, <1>5, <1>6, <1>7, <1>8, <1>9, <1>10, <1>11, <1>12, <1>13, <1>14
     DEF Next, ControlStep

\* The clocked control unit with its engines implements IssueOrder: for every
\* program, every behaviour is one in which instructions retire once, in order,
\* and only when what they wait for is over.
THEOREM Refinement == Spec => ImplementsIssueOrder
<1>1. ASSUME IInv, UNCHANGED vars
      PROVE  UNCHANGED Order!vars
  BY <1>1 DEF vars, Order!vars, Current, Working, Faulted, Status, DmaFault, SysFault,
       SfuFault, HelperFault
<1>2. IInv /\ [Next]_vars => [Order!Next]_Order!vars
  BY <1>1, StepMaps
<1>3. QED
  BY <1>2, Invariance, InitMaps, PTL DEF Spec, ImplementsIssueOrder, Order!Spec

-----------------------------------------------------------------------------
(* The observation registers.                                              *)

FaultOf(e) ==
  CASE e = "dma"    -> DmaFault
    [] e = "sys"    -> SysFault
    [] e = "sfu"    -> SfuFault
    [] e = "helper" -> HelperFault

ObsTypeOK ==
  /\ retirePulse \in Ops \union {""}
  /\ runActive \in BOOLEAN
  /\ retired \in Nat
  /\ issuePc \in [Engines -> Nat]
  /\ job \in [Engines -> Nat]

\* The pulses come with the step into the terminal state they report.
PulseInv ==
  /\ retirePulse = "HALT" => ctrl = "HALT"
  /\ ctrlPulse # NoPulse => ctrl = "FAULT" /\ ctrlPulse.source = "CONTROL"

\* Nothing is latched while the run goes on.  When it has stopped, either the
\* context is latched under the code of the control unit, or it is on its way.
ContextInv ==
  /\ ctrl \in Running \union {"IDLE"} => obsFault = NoPulse
  /\ ctrl = "FAULT" /\ obsFault = NoPulse =>
       ctrlPulse # NoPulse /\ ctrlPulse.code = faultCode

\* The pc booked for an engine is that of the instruction it took, as long as
\* its dispatches are not lost, and one that faulted takes no other.
IssueInvariant ==
  /\ \A e \in Engines \ unsynced : issuePc[e] = job[e]
  /\ ctrl = "IDLE" => job = [e \in Engines |-> 0]
  /\ obsFault.source \in Engines => FaultOf(obsFault.source)

ObsInv == ObsTypeOK /\ PulseInv /\ ContextInv /\ IssueInvariant
            /\ RetiredCountExact /\ ObsAgreesWithControl /\ FaultAttributed

\* The observer adds no step and forbids none that the accelerator has.
LEMMA ObsStepIsStep == [ObsNext]_allVars => [Next]_vars
BY DEF ObsNext, allVars

\* The observed machine is the accelerator: what is proved of every behaviour
\* of the one holds of every behaviour of the other.
THEOREM ObserverIsPassive == ObsSpec => Spec
<1>1. ObsInit => Init
  BY DEF ObsInit
<1>2. QED
  BY <1>1, ObsStepIsStep, PTL DEF ObsSpec, Spec

\* The control unit's step, told by what the observer sees of it.
LEMMA RetireStep ==
  ASSUME IInv, Next
  PROVE  /\ IssueRetires \/ WaitRetires => ctrl' = "FETCH" /\ pc' = pc + 1 /\ ctrl # "IDLE"
         /\ Halts => ctrl' = "HALT" /\ pc' = pc
         /\ ~IssueRetires /\ ~WaitRetires /\ ctrl # "IDLE" => pc' = pc
         /\ ctrl' = "HALT" => Halts \/ ctrl = "HALT"
<1>1. ASSUME IssueRetires
      PROVE  IssueRetire
  BY <1>1 DEF IssueRetires, Issuing, Next, ControlStep, Start, TakeExtFault, InsnArrives,
     Reject, NoConfig, Halt, SyncBlock, HelperStart, HelperDispatch, WaitRetire, SyncRetires,
     Hold, Terminal, Configured, DmaDispatch, SysDispatch, SfuDispatch, ConfigOps, DmaOps,
     SfuOps, HelperOps, TileHelperOps, TileOps
<1>2. ASSUME WaitRetires
      PROVE  WaitRetire
  BY <1>2 DEF WaitRetires, WaitRetire, SyncRetires, Next, ControlStep, Start, TakeExtFault,
     InsnArrives, Reject, NoConfig, IssueRetire, IssueRetires, Issuing, Halt, SyncBlock,
     HelperStart, HelperDispatch, Hold, Terminal
<1>3. ASSUME Halts
      PROVE  Halt
  BY <1>3 DEF Halts, Halt, Issuing, Next, ControlStep, Start, TakeExtFault, InsnArrives,
     Reject, NoConfig, Configured, IssueRetire, IssueRetires, DmaDispatch, SysDispatch,
     SfuDispatch, SyncBlock, HelperStart, HelperDispatch, WaitRetire, SyncRetires, Hold,
     Terminal, ConfigOps, DmaOps, SfuOps, HelperOps, TileHelperOps, TileOps
<1>4. ASSUME ~IssueRetires, ~WaitRetires, ctrl # "IDLE"
      PROVE  pc' = pc
  BY <1>4 DEF Next, ControlStep, Start, TakeExtFault, InsnArrives, Reject, NoConfig,
     IssueRetire, Halt, SyncBlock, HelperStart, WaitRetire, WaitRetires, Hold
<1>5. ASSUME ctrl' = "HALT"
      PROVE  Halts \/ ctrl = "HALT"
  BY <1>5 DEF Next, ControlStep, Start, TakeExtFault, InsnArrives, Reject, NoConfig,
     IssueRetire, Halt, Halts, SyncBlock, HelperStart, WaitRetire, Hold
<1>6. IssueRetires \/ WaitRetires => ctrl # "IDLE"
  BY DEF IssueRetires, Issuing, WaitRetires, SyncRetires
<1>7. QED
  BY <1>1, <1>2, <1>3, <1>4, <1>5, <1>6 DEF IssueRetire, WaitRetire, Halt

\* How a run stops.
LEMMA StopStep ==
  ASSUME IInv, Next
  PROVE  /\ ctrl \in Terminal => ctrl' = ctrl /\ faultCode' = faultCode
         /\ ctrl' = "IDLE" => ctrl = "IDLE"
         /\ ctrl' = "FAULT" /\ ctrl # "FAULT" => TakeExtFault \/ Reject \/ NoConfig
         /\ ctrl' \in Running => (ctrl \in Running /\ ~ExtFault) \/ Start
         /\ ctrl = "IDLE" => Start \/ Hold
<1>1. /\ ctrl \in Terminal => Hold
      /\ ctrl = "IDLE" => Start \/ Hold
  BY DEF Next, ControlStep, Start, TakeExtFault, InsnArrives, Reject, NoConfig, IssueRetire,
     IssueRetires, Halt, SyncBlock, HelperStart, HelperDispatch, WaitRetire, SyncRetires,
     Hold, Issuing, Running, Terminal
<1>2. /\ ctrl' = "IDLE" => ctrl = "IDLE"
      /\ ctrl' = "FAULT" /\ ctrl # "FAULT" => TakeExtFault \/ Reject \/ NoConfig
  BY DEF Next, ControlStep, Start, TakeExtFault, InsnArrives, Reject, NoConfig, IssueRetire,
     Halt, SyncBlock, HelperStart, WaitRetire, Hold
<1>3. ctrl' \in Running => (ctrl \in Running /\ ~ExtFault) \/ Start
  BY DEF Next, ControlStep, Start, TakeExtFault, InsnArrives, Reject, NoConfig, IssueRetire,
     IssueRetires, Halt, SyncBlock, HelperStart, HelperDispatch, WaitRetire, SyncRetires,
     Hold, Issuing, Running, Terminal
<1>4. QED
  BY <1>1, <1>2, <1>3 DEF Hold

\* The counter against the pc, one edge on.
LEMMA CountStep ==
  ASSUME IInv, ObsInv, ObsNext
  PROVE  RetiredCountExact'
<1>1. Next /\ pc \in Nat /\ pc' \in Nat
  <2>1. Next
    BY DEF ObsNext
  <2>2. QED
    BY <2>1, UnitsType DEF IInv, TypeOK
<1>2. insn.op # ""
  BY InsnType DEF IInv, Instruction, Ops, ConfigOps, DmaOps, HelperOps, TileHelperOps, TileOps,
     SfuOps, DroppedOps, ReservedOps
<1>3. retirePulse' # "" <=> IssueRetires \/ Halts \/ WaitRetires
  BY <1>2 DEF ObsNext, PulseStep
<1>4. retired \in Nat /\ RetiredCountExact
  BY DEF ObsInv, ObsTypeOK
<1>5. CASE RunStart
  <2>1. Start
    BY <1>1, <1>5, StopStep DEF RunStart, Hold
  <2>2. ~IssueRetires /\ ~Halts /\ ~WaitRetires
    BY <2>1 DEF Start, IssueRetires, Halts, Issuing, WaitRetires, SyncRetires
  <2>3. QED
    BY <1>3, <1>5, <2>1, <2>2 DEF RetiredCountExact, RunStart, Start
<1>6. CASE Watch /\ ctrl = "IDLE"
  BY <1>1, <1>6, StopStep DEF Watch, RetiredCountExact, Start, Hold
<1>7. CASE Watch /\ ctrl # "IDLE"
  <2>1. retired' = retired + (IF retirePulse # "" THEN 1 ELSE 0)
    BY <1>7 DEF Watch
  <2>2. pc + (IF ctrl = "HALT" THEN 1 ELSE 0) = retired'
    BY <1>4, <1>7, <2>1 DEF RetiredCountExact
  <2>3. retired' = (IF ctrl = "HALT" THEN pc + 1 ELSE pc)
    BY <1>1, <2>2
  <2>4. CASE IssueRetires \/ WaitRetires
    <3>1. ctrl # "HALT" /\ ctrl' # "HALT" /\ pc' = pc + 1
      BY <1>1, <2>4, RetireStep, StopStep DEF Terminal
    <3>2. pc' + 0 = retired' + 1
      BY <1>1, <2>3, <3>1
    <3>3. QED
      BY <1>3, <2>4, <3>1, <3>2 DEF RetiredCountExact
  <2>5. CASE Halts
    <3>1. ctrl # "HALT" /\ ctrl' = "HALT" /\ pc' = pc
      BY <1>1, <2>5, RetireStep DEF Halts, Issuing
    <3>2. pc' + 1 = retired' + 1
      BY <1>1, <2>3, <3>1
    <3>3. QED
      BY <1>3, <2>5, <3>1, <3>2 DEF RetiredCountExact
  <2>6. CASE ~IssueRetires /\ ~WaitRetires /\ ~Halts
    <3>1. (ctrl = "HALT" <=> ctrl' = "HALT") /\ pc' = pc
      BY <1>1, <1>7, <2>6, RetireStep, StopStep DEF Terminal
    <3>2. pc' + (IF ctrl' = "HALT" THEN 1 ELSE 0) = retired' + 0
      BY <1>1, <2>3, <3>1
    <3>3. QED
      BY <1>3, <2>6, <3>1, <3>2 DEF RetiredCountExact
  <2>7. QED
    BY <2>4, <2>5, <2>6
<1>8. QED
  BY <1>5, <1>6, <1>7 DEF ObsNext

\* The observation registers keep their types.
LEMMA ObsTypeStep ==
  ASSUME IInv, ObsInv, ObsNext
  PROVE  ObsTypeOK'
<1>1. retired \in Nat /\ issuePc \in [Engines -> Nat] /\ job \in [Engines -> Nat]
      /\ runActive \in BOOLEAN /\ pc \in Nat
  <2>1. pc \in Nat
    BY DEF IInv, TypeOK
  <2>2. QED
    BY <2>1 DEF ObsInv, ObsTypeOK
<1>2. retirePulse' \in Ops \union {""}
  BY InsnType DEF ObsNext, PulseStep, IInv, Instruction
<1>3. runActive' \in BOOLEAN
  BY <1>1 DEF ObsNext, RunStart, Watch
<1>4. retired' \in Nat
  <2>1. CASE RunStart
    BY <2>1 DEF RunStart
  <2>2. CASE Watch /\ retirePulse = ""
    <3>1. retired' = retired + 0
      BY <2>2 DEF Watch
    <3>2. QED
      BY <1>1, <3>1
  <2>3. CASE Watch /\ retirePulse # ""
    <3>1. retired' = retired + 1
      BY <2>3 DEF Watch
    <3>2. QED
      BY <1>1, <3>1
  <2>4. QED
    BY <2>1, <2>2, <2>3 DEF ObsNext
<1>5. issuePc' \in [Engines -> Nat]
  <2>1. CASE RunStart
    BY <2>1 DEF RunStart
  <2>2. CASE Watch
    BY <1>1, <2>2 DEF Watch
  <2>3. QED
    BY <2>1, <2>2 DEF ObsNext
<1>6. job' \in [Engines -> Nat]
  BY <1>1 DEF ObsNext, JobStep
<1>7. QED
  BY <1>2, <1>3, <1>4, <1>5, <1>6 DEF ObsTypeOK

\* What a pulse says of the control unit.
LEMMA PulseInvStep ==
  ASSUME IInv, ObsInv, ObsNext
  PROVE  PulseInv'
<1>1. Next
  BY DEF ObsNext
<1>2. ASSUME retirePulse' = "HALT"
      PROVE  ctrl' = "HALT"
  <2>1. Halts
    <3>1. insn.op = "HALT" /\ (IssueRetires \/ Halts \/ WaitRetires)
      BY <1>2 DEF ObsNext, PulseStep
    <3>2. ~IssueRetires
      BY <3>1 DEF IssueRetires, DmaDispatch, SysDispatch, SfuDispatch, ConfigOps, DmaOps,
           SfuOps
    <3>3. ~WaitRetires
      BY <3>1 DEF WaitRetires, SyncRetires, IInv, IssueInv, HelperOps, TileHelperOps
    <3>4. QED
      BY <3>1, <3>2, <3>3
  <2>2. QED
    BY <1>1, <2>1, RetireStep
<1>3. ASSUME ctrlPulse' # NoPulse
      PROVE  ctrl' = "FAULT" /\ ctrlPulse'.source = "CONTROL"
  <2>1. \/ ctrl = "ISSUE" /\ ~ExtFault /\ Rejected(insn)
        \/ Issuing /\ ~Configured
    BY <1>3 DEF ObsNext, PulseStep
  <2>2. ctrl' = "FAULT"
    BY <1>1, <2>1 DEF Next, ControlStep, Start, TakeExtFault, InsnArrives, Reject, NoConfig,
       IssueRetire, IssueRetires, Halt, SyncBlock, HelperStart, HelperDispatch, WaitRetire,
       SyncRetires, Hold, Issuing, Terminal, DmaDispatch, SysDispatch, SfuDispatch,
       Configured, ConfigOps, TileOps, TileHelperOps, DmaOps, SfuOps
  <2>3. ctrlPulse'.source = "CONTROL"
    BY <2>1 DEF ObsNext, PulseStep
  <2>4. QED
    BY <2>2, <2>3
<1>4. QED
  BY <1>2, <1>3 DEF PulseInv

\* The two priorities, of the merge and of the observer, name the same unit.
LEMMA SameCode ==
  ASSUME ExtFault, ctrlPulse = NoPulse
  PROVE  FaultContext.code = ExtFaultCode /\ FaultContext # NoPulse
BY DEF ExtFault, FaultContext, ExtFaultCode, NoPulse

\* A quiet observer latches nothing.
LEMMA NoContext ==
  ASSUME ~ExtFault, ctrlPulse = NoPulse
  PROVE  FaultContext = NoPulse
BY DEF ExtFault, FaultContext

\* What the latched context says of the first fault.
LEMMA ContextInvStep ==
  ASSUME IInv, ObsInv, ObsNext
  PROVE  ContextInv'
<1>1. Next /\ PulseInv /\ ContextInv
  BY DEF ObsNext, ObsInv
<1>2. ASSUME ctrl' \in Running \union {"IDLE"}
      PROVE  obsFault' = NoPulse
  <2>1. ctrl \in Running \union {"IDLE"} /\ ~ExtFault
    BY <1>1, <1>2, StopStep DEF IInv, WaitInv, Start
  <2>2. obsFault = NoPulse /\ ctrlPulse = NoPulse
    BY <1>1, <2>1 DEF ContextInv, PulseInv, Running
  <2>3. QED
    BY <2>1, <2>2, NoContext DEF ObsNext, RunStart, Watch
<1>3. ASSUME ctrl' = "FAULT", obsFault' = NoPulse
      PROVE  ctrlPulse' # NoPulse /\ ctrlPulse'.code = faultCode'
  <2>1. obsFault' = IF obsFault = NoPulse THEN FaultContext ELSE obsFault
    BY <1>3 DEF ObsNext, RunStart, Watch
  <2>2. CASE ctrl = "FAULT"
    <3>1. obsFault = NoPulse /\ FaultContext = NoPulse
      BY <1>3, <2>1
    <3>2. ctrlPulse # NoPulse
      BY <1>1, <2>2, <3>1 DEF ContextInv
    <3>3. QED
      BY <3>1, <3>2 DEF FaultContext
  <2>3. CASE ctrl # "FAULT"
    <3>1. ctrlPulse = NoPulse
      BY <1>1, <2>3 DEF PulseInv
    <3>2. ~ExtFault
      BY <1>3, <2>1, <3>1, SameCode
    <3>3. Reject \/ NoConfig
      BY <1>1, <1>3, <2>3, <3>2, StopStep DEF TakeExtFault
    <3>4. QED
      BY <3>3 DEF Reject, NoConfig, Issuing, ObsNext, PulseStep, NoPulse
  <2>4. QED
    BY <2>2, <2>3
<1>4. QED
  BY <1>2, <1>3 DEF ContextInv

\* The observer and the control unit, one edge on.
LEMMA AgreesStep ==
  ASSUME IInv, ObsInv, ObsNext
  PROVE  ObsAgreesWithControl'
<1>1. Next /\ PulseInv /\ ContextInv /\ ObsAgreesWithControl
  BY DEF ObsNext, ObsInv
<1>2. ASSUME ctrl' \in Running
      PROVE  runActive'
  <2>1. CASE Start
    BY <2>1 DEF Start, ObsNext, RunStart, Watch
  <2>2. CASE ctrl \in Running /\ ~ExtFault
    <3>1. ~TerminalEvent /\ runActive
      BY <1>1, <2>2 DEF PulseInv, TerminalEvent, ObsAgreesWithControl, Running
    <3>2. QED
      BY <3>1 DEF ObsNext, RunStart, Watch
  <2>3. QED
    BY <1>1, <1>2, <2>1, <2>2, StopStep
<1>3. ASSUME ctrl' \in Terminal, runActive'
      PROVE  retirePulse' = "HALT" \/ ctrlPulse' # NoPulse
  <2>1. runActive /\ ~TerminalEvent
    BY <1>3 DEF ObsNext, RunStart, Watch, Terminal
  <2>2. ctrl \notin Terminal
    BY <1>1, <2>1 DEF ObsAgreesWithControl, TerminalEvent
  <2>3. CASE ctrl' = "HALT"
    BY <1>1, <2>2, <2>3, RetireStep DEF Terminal, ObsNext, PulseStep, Halts
  <2>4. CASE ctrl' = "FAULT"
    <3>1. Reject \/ NoConfig
      BY <1>1, <2>1, <2>2, <2>4, StopStep DEF Terminal, TakeExtFault, TerminalEvent
    <3>2. QED
      BY <3>1 DEF Reject, NoConfig, Issuing, ObsNext, PulseStep, NoPulse
  <2>5. QED
    BY <1>3, <2>3, <2>4 DEF Terminal
<1>4. ASSUME ctrl' = "FAULT", obsFault' # NoPulse
      PROVE  obsFault'.code = faultCode'
  <2>1. obsFault' = IF obsFault = NoPulse THEN FaultContext ELSE obsFault
    BY <1>4 DEF ObsNext, RunStart, Watch
  <2>2. CASE ctrl = "FAULT"
    <3>1. faultCode' = faultCode
      BY <1>1, <2>2, StopStep DEF Terminal
    <3>2. CASE obsFault = NoPulse
      BY <1>1, <2>1, <2>2, <3>1, <3>2 DEF ContextInv, FaultContext
    <3>3. CASE obsFault # NoPulse
      BY <1>1, <2>1, <2>2, <3>1, <3>3 DEF ObsAgreesWithControl
    <3>4. QED
      BY <3>2, <3>3
  <2>3. CASE ctrl # "FAULT"
    <3>1. ctrlPulse = NoPulse
      BY <1>1, <2>3 DEF PulseInv
    <3>2. TakeExtFault \/ Reject \/ NoConfig
      BY <1>1, <1>4, <2>3, StopStep
    <3>3. obsFault = NoPulse
      BY <1>1, <3>2 DEF ContextInv, TakeExtFault, Reject, NoConfig, Issuing, Running
    <3>4. ExtFault
      BY <1>4, <2>1, <3>1, <3>3, NoContext
    <3>5. QED
      BY <2>1, <3>1, <3>2, <3>3, <3>4, SameCode DEF TakeExtFault, Reject, NoConfig, Issuing
  <2>4. QED
    BY <2>2, <2>3
<1>5. QED
  BY <1>2, <1>3, <1>4 DEF ObsAgreesWithControl

\* An engine that holds a fault is not idle and keeps it, and while any unit
\* holds one nothing is dispatched.
LEMMA FaultStops ==
  ASSUME IInv, Next, NEW e \in Engines, FaultOf(e)
  PROVE  ExtFault /\ FaultOf(e)' /\ \A u \in Engines : ~DispatchedTo(u)
<1>1. ExtFault
  BY DEF FaultOf, ExtFault, Engines, AsyncEngines
<1>2. FaultOf(e)'
  BY UnitFaultKept DEF FaultOf, Engines, AsyncEngines, DmaFault, SysFault, SfuFault,
     HelperFault
<1>3. \A u \in Engines : ~DispatchedTo(u)
  BY <1>1 DEF DispatchedTo, DmaDispatch, SysDispatch, SfuDispatch, HelperDispatch, Issuing,
     Engines, AsyncEngines
<1>4. QED
  BY <1>1, <1>2, <1>3

\* A dispatch that its engine ignores makes the engine one of the unsynced.
LEMMA IgnoredIsUnsynced ==
  ASSUME IInv, Next, NEW e \in Engines, DispatchedTo(e), ~EngineIdle(e)
  PROVE  e \in unsynced'
<1>1. e \in lost'
  BY DEF Next, HistoryStep, DispatchedTo, EngineIdle, Engines, AsyncEngines
<1>2. QED
  BY <1>1, LostStepInv DEF NoLostWork

\* An issue pc is that of the job the engine took.
LEMMA IssueInvariantStep ==
  ASSUME IInv, ObsInv, ObsNext
  PROVE  IssueInvariant' /\ FaultAttributed'
<1>1. Next /\ PulseInv /\ IssueInvariant /\ FaultAttributed /\ unsynced \subseteq unsynced'
  BY DEF ObsNext, ObsInv, Next, HistoryStep
<1>2. ctrl = "IDLE" => \A e \in Engines : ~DispatchedTo(e)
  BY DEF DispatchedTo, DmaDispatch, SysDispatch, SfuDispatch, HelperDispatch, Issuing,
     Engines, AsyncEngines
<1>3. job' = [e \in Engines |-> IF DispatchedTo(e) /\ EngineIdle(e) THEN pc ELSE job[e]]
  BY DEF ObsNext, JobStep
<1>4. ctrl = "IDLE" => job' = [e \in Engines |-> 0]
  BY <1>1, <1>2, <1>3 DEF IssueInvariant
<1>5. ASSUME NEW e \in Engines \ unsynced'
      PROVE  issuePc'[e] = job'[e]
  <2>1. e \in Engines \ unsynced /\ issuePc[e] = job[e]
    BY <1>1 DEF IssueInvariant
  <2>2. CASE RunStart
    BY <1>4, <2>2 DEF RunStart
  <2>3. CASE Watch
    <3>1. issuePc'[e] = IF DispatchedTo(e) THEN pc ELSE issuePc[e]
      BY <2>1, <2>3 DEF Watch
    <3>2. DispatchedTo(e) => EngineIdle(e)
      BY <1>1, <2>1, IgnoredIsUnsynced
    <3>3. QED
      BY <1>3, <2>1, <3>1, <3>2
  <2>4. QED
    BY <2>2, <2>3 DEF ObsNext
<1>6. ctrl' = "IDLE" => job' = [e \in Engines |-> 0]
  BY <1>1, <1>4, StopStep
<1>7. ASSUME NEW e \in Engines, obsFault'.source = e
      PROVE  FaultOf(e)' /\ (e \notin unsynced' => obsFault'.pc = job'[e])
  <2>1. FaultOf(e) /\ (e \notin unsynced => obsFault'.pc = job[e])
    <3>1. obsFault' # NoPulse
      BY <1>7 DEF NoPulse, Engines, AsyncEngines
    <3>2. obsFault' = IF obsFault = NoPulse THEN FaultContext ELSE obsFault
      BY <3>1 DEF ObsNext, RunStart, Watch
    <3>3. CASE obsFault # NoPulse
      BY <1>1, <1>7, <3>2, <3>3 DEF IssueInvariant, FaultAttributed
    <3>4. CASE obsFault = NoPulse
      <4>1. ctrlPulse = NoPulse
        BY <1>1, <1>7, <3>2, <3>4 DEF FaultContext, PulseInv, Engines, AsyncEngines
      <4>2. FaultOf(e) /\ obsFault'.pc = issuePc[e]
        BY <1>7, <3>1, <3>2, <3>4, <4>1 DEF FaultContext, FaultOf, Engines, AsyncEngines
      <4>3. QED
        BY <1>1, <4>2 DEF IssueInvariant
    <3>5. QED
      BY <3>3, <3>4
  <2>2. FaultOf(e)' /\ \A u \in Engines : ~DispatchedTo(u)
    BY <1>1, <2>1, FaultStops
  <2>3. job'[e] = job[e]
    BY <1>3, <2>2
  <2>4. QED
    BY <1>1, <2>1, <2>2, <2>3
<1>8. IssueInvariant'
  <2>1. \A e \in Engines : obsFault'.source = e => FaultOf(e)'
    BY <1>7
  <2>2. obsFault'.source \in Engines => FaultOf(obsFault.source)'
    BY <2>1 DEF FaultOf, Engines, AsyncEngines
  <2>3. QED
    BY <1>5, <1>6, <2>2 DEF IssueInvariant
<1>9. FaultAttributed'
  BY <1>7 DEF FaultAttributed
<1>10. QED
  BY <1>8, <1>9

\* Reset establishes the invariants.
LEMMA ObsInitInv == ObsInit => IInv /\ ObsInv
<1> SUFFICES ASSUME ObsInit PROVE IInv /\ ObsInv
  OBVIOUS
<1>1. IInv
  BY InitIInv DEF ObsInit
<1>2. ObsTypeOK /\ PulseInv
  BY DEF ObsInit, ObsTypeOK, PulseInv
<1>3. ContextInv /\ IssueInvariant /\ FaultAttributed
  BY DEF ObsInit, Init, ContextInv, IssueInvariant, FaultAttributed, NoPulse, Engines,
     AsyncEngines
<1>4. RetiredCountExact /\ ObsAgreesWithControl
  BY DEF ObsInit, Init, RetiredCountExact, ObsAgreesWithControl, Running, Terminal
<1>5. QED
  BY <1>1, <1>2, <1>3, <1>4 DEF ObsInv

\* Every edge keeps them.
LEMMA ObsNextInv == IInv /\ ObsInv /\ [ObsNext]_allVars => IInv' /\ ObsInv'
<1>1. ASSUME IInv, ObsInv, ObsNext
      PROVE  ObsInv'
  BY <1>1, ObsTypeStep, PulseInvStep, ContextInvStep, AgreesStep, IssueInvariantStep,
     CountStep DEF ObsInv
<1>2. ASSUME ObsInv, UNCHANGED allVars
      PROVE  ObsInv'
  BY <1>2 DEF allVars, vars, obsVars, ObsInv, ObsTypeOK, PulseInv, ContextInv,
     IssueInvariant, FaultAttributed, RetiredCountExact, ObsAgreesWithControl, FaultOf,
     DmaFault, SysFault, SfuFault, HelperFault
<1>3. QED
  BY <1>1, <1>2, ObsStepIsStep, NextIInv

\* The invariants of the observer hold beside those of the accelerator.
THEOREM ObsInvariance == ObsSpec => [](IInv /\ ObsInv)
BY ObsInitInv, ObsNextInv, PTL DEF ObsSpec

-----------------------------------------------------------------------------

\* The retired count the runner reads is exact in every cycle of a run, but for
\* the pulse that is still registered: no instruction is missed or booked twice,
\* by whichever branch of the FSM it retires.
THEOREM CountIsExact == ObsSpec => []RetiredCountExact
<1>1. ObsInv => RetiredCountExact
  BY DEF ObsInv
<1>2. QED
  BY <1>1, ObsInvariance, PTL

\* The observer's run flag and fault context, latched on other edges and by
\* another priority, never contradict the control unit's done and fault code.
THEOREM ObserverAgrees == ObsSpec => []ObsAgreesWithControl
<1>1. ObsInv => ObsAgreesWithControl
  BY DEF ObsInv
<1>2. QED
  BY <1>1, ObsInvariance, PTL

\* A latched engine fault names the pc of the instruction the engine really
\* took, if the program kept the SYNC discipline towards that engine.
THEOREM FaultPcIsTheJobs == ObsSpec => []FaultAttributed
<1>1. ObsInv => FaultAttributed
  BY DEF ObsInv
<1>2. QED
  BY <1>1, ObsInvariance, PTL

=============================================================================
