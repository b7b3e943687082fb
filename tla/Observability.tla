--------------------------- MODULE Observability ---------------------------
(***************************************************************************)
(* The run counters and the latched fault context of taccel_top.sv beside  *)
(* the accelerator they watch.  The native program runner reads them after *)
(* a run to say which instruction faulted and how many retired.            *)
(***************************************************************************)
EXTENDS Accelerator

VARIABLES
  retirePulse,  \* obs_retire_pulse and obs_retire_opcode: "" or the opcode
  ctrlPulse,    \* obs_ctrl_fault_pulse, its code and pc
  runActive,    \* obs_run_active_q
  retired,      \* obs_retired_insn_count_q
  overlap,      \* obs_forbidden_overlap_violation_q
  issuePc,      \* obs_dma_issue_pc_q, obs_sys_issue_pc_q, ...
  obsFault,     \* obs_fault_valid_q, obs_fault_source_q, ..._code_q, ..._pc_q
  job           \* history: pc of the instruction each engine really took

obsVars == <<retirePulse, ctrlPulse, runActive, retired, overlap, issuePc,
             obsFault, job>>
allVars == <<vars, obsVars>>

Engines == AsyncEngines \union {"helper"}

NoPulse == [source |-> "NONE", code |-> "NONE", pc |-> 0]

-----------------------------------------------------------------------------
(* The pulses the control unit registers for the observer.                 *)

MutantWaitRetires == SyncRetires        \* a helper operation is not counted

WaitRetires == SyncRetires \/ (ctrl = "DISP_WAIT" /\ ~ExtFault /\ ~HelperBusy)
Halts       == Issuing /\ insn.op = "HALT"

PulseStep ==
  /\ retirePulse' = IF IssueRetires \/ Halts \/ WaitRetires THEN insn.op ELSE ""
  /\ ctrlPulse' =
       IF ctrl = "ISSUE" /\ ~ExtFault /\ Rejected(insn)
       THEN [source |-> "CONTROL", code |-> RejectCode(insn), pc |-> pc]
       ELSE IF Issuing /\ ~Configured
       THEN [source |-> "CONTROL", code |-> "NO_CONFIG", pc |-> pc]
       ELSE NoPulse

-----------------------------------------------------------------------------
(* The observer.                                                           *)

DispatchedTo(e) ==
  CASE e = "dma"    -> DmaDispatch
    [] e = "sys"    -> SysDispatch
    [] e = "sfu"    -> SfuDispatch
    [] e = "helper" -> HelperDispatch

EngineIdle(e) ==
  CASE e = "dma"    -> dma = "IDLE"
    [] e = "sys"    -> sys = "IDLE"
    [] e = "sfu"    -> sfu = "IDLE"
    [] e = "helper" -> helper = "IDLE"

Overlapping == \/ HelperBusy /\ (DmaBusy \/ SysBusy \/ SfuBusy)
               \/ SfuBusy /\ (DmaBusy \/ SysBusy \/ HelperBusy)

MutantFaultContext ==    \* the DMA engine before the fetch unit
  IF ctrlPulse # NoPulse THEN ctrlPulse
  ELSE IF DmaFault THEN [source |-> "dma", code |-> dma, pc |-> issuePc["dma"]]
  ELSE IF fetch = "FAULT" THEN [source |-> "FETCH", code |-> "DRAM_OOB", pc |-> pc]
  ELSE NoPulse

\* The first fault seen is kept; a fetch fault is booked on the current pc.
FaultContext ==
  IF ctrlPulse # NoPulse THEN ctrlPulse
  ELSE IF fetch = "FAULT" THEN [source |-> "FETCH", code |-> "DRAM_OOB", pc |-> pc]
  ELSE IF DmaFault    THEN [source |-> "dma", code |-> dma, pc |-> issuePc["dma"]]
  ELSE IF HelperFault THEN [source |-> "helper", code |-> helper, pc |-> issuePc["helper"]]
  ELSE IF SfuFault    THEN [source |-> "sfu", code |-> sfu, pc |-> issuePc["sfu"]]
  ELSE IF SysFault    THEN [source |-> "sys", code |-> "SRAM_OOB", pc |-> issuePc["sys"]]
  ELSE NoPulse

TerminalEvent == ctrlPulse # NoPulse \/ ExtFault \/ retirePulse = "HALT"

\* start is only ever looked at while no run is active and neither done nor
\* fault is up, which is when the control unit is idle (ObsAgreesWithControl).
RunStart ==
  /\ ctrl = "IDLE"
  /\ ctrl' = "FETCH"
  /\ runActive' = TRUE
  /\ retired' = 0
  /\ overlap' = FALSE
  /\ issuePc' = [e \in Engines |-> 0]
  /\ obsFault' = NoPulse

MutantWatch ==           \* issue_pc samples the incremented counter
  /\ ~(ctrl = "IDLE" /\ ctrl' = "FETCH")
  /\ runActive' = (runActive /\ ~TerminalEvent)
  /\ retired' = retired + (IF retirePulse # "" THEN 1 ELSE 0)
  /\ overlap' = (overlap \/ Overlapping)
  /\ issuePc' = [e \in Engines |-> IF DispatchedTo(e) THEN pc' ELSE issuePc[e]]
  /\ obsFault' = IF obsFault = NoPulse THEN FaultContext ELSE obsFault

Watch ==
  /\ ~(ctrl = "IDLE" /\ ctrl' = "FETCH")
  /\ runActive' = (runActive /\ ~TerminalEvent)
  /\ retired' = retired + (IF retirePulse # "" THEN 1 ELSE 0)
  /\ overlap' = (overlap \/ Overlapping)
  /\ issuePc' = [e \in Engines |-> IF DispatchedTo(e) THEN pc ELSE issuePc[e]]
  /\ obsFault' = IF obsFault = NoPulse THEN FaultContext ELSE obsFault

JobStep ==
  job' = [e \in Engines |-> IF DispatchedTo(e) /\ EngineIdle(e) THEN pc ELSE job[e]]

ObsInit ==
  /\ Init
  /\ retirePulse = ""
  /\ ctrlPulse = NoPulse
  /\ runActive = FALSE
  /\ retired = 0
  /\ overlap = FALSE
  /\ issuePc = [e \in Engines |-> 0]
  /\ obsFault = NoPulse
  /\ job = [e \in Engines |-> 0]

ObsNext == Next /\ PulseStep /\ (RunStart \/ Watch) /\ JobStep

ObsSpec == ObsInit /\ [][ObsNext]_allVars

ObsFairSpec == ObsSpec /\ Fairness

-----------------------------------------------------------------------------
(* Properties.                                                             *)

\* Every instruction the control unit passed is counted exactly once, those
\* that retire out of SYNC_WAIT and DISP_WAIT and the final HALT included.
RetiredCountExact ==
  ctrl # "IDLE" =>
    pc + (IF ctrl = "HALT" THEN 1 ELSE 0)
      = retired + (IF retirePulse # "" THEN 1 ELSE 0)

\* The observer and the control unit agree on when the run ends, give or take
\* the one cycle the pulses are late, and on why it stopped: the two latch the
\* code on different edges and from separately written priorities.
ObsAgreesWithControl ==
  /\ ctrl \in Running => runActive
  /\ ctrl \in Terminal /\ runActive => retirePulse = "HALT" \/ ctrlPulse # NoPulse
  /\ ctrl = "FAULT" /\ obsFault # NoPulse => obsFault.code = faultCode

\* rtl_debugging_plan.md line 219: obs_*_issue_pc_q lead from a faulting unit
\* back to the instruction that was dispatched to it, if the program kept the
\* SYNC discipline towards that unit.
FaultAttributed ==
  obsFault.source \in Engines \ unsynced => obsFault.pc = job[obsFault.source]

=============================================================================
