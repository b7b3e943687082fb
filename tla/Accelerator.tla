---------------------------- MODULE Accelerator ----------------------------
(***************************************************************************)
(* The control unit (control_unit.sv) with the five units it sequences, as *)
(* taccel_top.sv wires them.  A step is one rising clock edge: every unit  *)
(* reads the registers of all the others and all of them move at once.     *)
(*                                                                         *)
(* The engines appear here with what the control unit observes of them:    *)
(* busy, fault and fault code.  How long they work and whether they fault  *)
(* is open; DmaEngine and the modules after it say what they do.           *)
(*                                                                         *)
(* The program is not fixed: whenever a read of instruction memory returns *)
(* any member of Insns may arrive.  The ISA has no branch, so this ranges  *)
(* over all programs of at most MaxPC + 1 instructions.                    *)
(***************************************************************************)
EXTENDS Isa

CONSTANTS
  Insns,      \* instructions that programs are made of
  Tiles,      \* CONFIG_TILE settings
  NoTile,     \* the tile registers before the first CONFIG_TILE
  MaxPC       \* bound on the program: the word at MaxPC can only be HALT

ASSUME InsnAssumption   == Insns \subseteq Instruction /\ Plain("HALT") \in Insns
ASSUME TileAssumption   == NoTile \notin Tiles
ASSUME BoundAssumption  == MaxPC \in Nat

VARIABLES
  ctrl,       \* the FSM of the control unit
  pc,         \* pc_reg
  insn,       \* insn_data_q, decoded
  syncMask,   \* sync_mask_q
  faultCode,  \* fault_code_r
  tile,       \* tile_m, tile_n, tile_k and tile_valid
  fetch,      \* the fetch unit; "RESP" while a good beat is on its R channel
  dma,        \* the DMA engine, in D_FAULT when it holds a fault code
  sys,        \* the systolic controller; "OOB" while its SRAM access faults
  sysLatched, \* sys_sram_fault_latched
  helper,     \* the blocking helper engine, in H_FAULT when a fault code
  sfu,        \* the SFU engine, in F_FAULT when a fault code
  pending,    \* history: engines given work since a SYNC last covered them
  unsynced,   \* history: engines the program used without the SYNC due before
  lost        \* history: engines that ignored a dispatch pulse

vars == <<ctrl, pc, insn, syncMask, faultCode, tile, fetch, dma, sys,
          sysLatched, helper, sfu, pending, unsynced, lost>>

Running  == {"FETCH", "ISSUE", "SYNC_WAIT", "DISP_WAIT"}
Terminal == {"HALT", "FAULT"}

-----------------------------------------------------------------------------
(* What the units show each other during a cycle.                          *)

DmaBusy    == dma # "IDLE"
SysBusy    == sys # "IDLE"
HelperBusy == helper = "BUSY"
SfuBusy    == sfu = "BUSY"

AllIdle    == ~DmaBusy /\ ~SysBusy /\ ~HelperBusy /\ ~SfuBusy

\* Variants named "Mutant..." are defects the properties must notice; no
\* specification uses them.

MutantBusyEngines == {e \in AsyncEngines : \/ e = "dma" /\ DmaBusy  \* bit 2 forgotten
                                           \/ e = "sys" /\ SysBusy}

BusyEngines == {e \in AsyncEngines : \/ e = "dma" /\ DmaBusy
                                     \/ e = "sys" /\ SysBusy
                                     \/ e = "sfu" /\ SfuBusy}

DmaFault    == dma \in FaultCodes
HelperFault == helper \in FaultCodes
SfuFault    == sfu \in FaultCodes
SysFault    == sys = "OOB" \/ sysLatched

MutantExtFault == fetch = "FAULT" \/ HelperFault \/ SfuFault \/ SysFault \* DMA forgotten

ExtFault == fetch = "FAULT" \/ DmaFault \/ HelperFault \/ SfuFault \/ SysFault

MutantExtFaultCode ==    \* no case for the fetch unit
  CASE DmaFault -> dma
    [] ~DmaFault /\ HelperFault -> helper
    [] ~DmaFault /\ ~HelperFault /\ SfuFault -> sfu
    [] OTHER -> "SRAM_OOB"

\* The priority of the merge in taccel_top; fetch and SRAM have one code each.
ExtFaultCode ==
  CASE fetch = "FAULT" -> "DRAM_OOB"
    [] fetch # "FAULT" /\ DmaFault -> dma
    [] fetch # "FAULT" /\ ~DmaFault /\ HelperFault -> helper
    [] fetch # "FAULT" /\ ~DmaFault /\ ~HelperFault /\ SfuFault -> sfu
    [] OTHER -> "SRAM_OOB"

-----------------------------------------------------------------------------
(* The dispatch and write-enable pulses: combinational in S_ISSUE.         *)

Issuing == ctrl = "ISSUE" /\ ~ExtFault /\ ~Rejected(insn)

Configured == insn.op \in TileOps => tile # NoTile

MutantDmaDispatch == Issuing /\ insn.op \in DmaOps     \* no sfu_busy stall
DmaDispatch    == Issuing /\ insn.op \in DmaOps /\ ~SfuBusy
SysDispatch    == Issuing /\ insn.op = "MATMUL" /\ Configured
                    /\ ~SfuBusy /\ ~HelperBusy
HelperDispatch == Issuing /\ insn.op \in HelperOps /\ Configured /\ AllIdle
SfuDispatch    == Issuing /\ insn.op \in SfuOps /\ Configured /\ AllIdle
TileWrite      == Issuing /\ insn.op = "CONFIG_TILE"

MutantSyncClear(mask) == (mask \ {"sys"}) \intersect BusyEngines = {}
SyncClear(mask) == mask \intersect BusyEngines = {}

\* The instruction in S_ISSUE leaves it this cycle and does not come back.
IssueRetires ==
  /\ Issuing
  /\ \/ insn.op \in ConfigOps
     \/ insn.op = "SYNC" /\ SyncClear(insn.mask)
     \/ DmaDispatch \/ SysDispatch \/ SfuDispatch

MutantSyncRetires == ctrl = "SYNC_WAIT" /\ ~ExtFault    \* waits one cycle only

SyncRetires == ctrl = "SYNC_WAIT" /\ ~ExtFault /\ SyncClear(syncMask)

-----------------------------------------------------------------------------
(* The control unit.                                                       *)

Start ==
  /\ ctrl = "IDLE"
  /\ ctrl' = "FETCH"
  /\ pc' = 0
  /\ UNCHANGED <<syncMask, faultCode>>

\* S_FETCH, S_ISSUE, S_SYNC_WAIT and S_DISP_WAIT all look at ext_fault first.
TakeExtFault ==
  /\ ctrl \in Running
  /\ ExtFault
  /\ ctrl' = "FAULT"
  /\ faultCode' = ExtFaultCode
  /\ UNCHANGED <<pc, syncMask>>

InsnArrives ==
  /\ ctrl = "FETCH"
  /\ ~ExtFault
  /\ fetch = "RESP"
  /\ ctrl' = "ISSUE"
  /\ UNCHANGED <<pc, syncMask, faultCode>>

Reject ==
  /\ ctrl = "ISSUE"
  /\ ~ExtFault
  /\ Rejected(insn)
  /\ ctrl' = "FAULT"
  /\ faultCode' = RejectCode(insn)
  /\ UNCHANGED <<pc, syncMask>>

NoConfig ==
  /\ Issuing
  /\ ~Configured
  /\ ctrl' = "FAULT"
  /\ faultCode' = "NO_CONFIG"
  /\ UNCHANGED <<pc, syncMask>>

IssueRetire ==
  /\ IssueRetires
  /\ ctrl' = "FETCH"
  /\ pc' = pc + 1
  /\ UNCHANGED <<syncMask, faultCode>>

Halt ==
  /\ Issuing
  /\ insn.op = "HALT"
  /\ ctrl' = "HALT"
  /\ UNCHANGED <<pc, syncMask, faultCode>>

SyncBlock ==
  /\ Issuing
  /\ insn.op = "SYNC"
  /\ ~SyncClear(insn.mask)
  /\ ctrl' = "SYNC_WAIT"
  /\ syncMask' = insn.mask
  /\ UNCHANGED <<pc, faultCode>>

MutantHelperStart ==     \* a helper treated like an SFU operation
  /\ HelperDispatch
  /\ ctrl' = "FETCH"
  /\ pc' = pc + 1
  /\ UNCHANGED <<syncMask, faultCode>>

HelperStart ==
  /\ HelperDispatch
  /\ ctrl' = "DISP_WAIT"
  /\ UNCHANGED <<pc, syncMask, faultCode>>

MutantWaitRetire ==      \* S_DISP_WAIT lasts one cycle
  /\ \/ SyncRetires
     \/ ctrl = "DISP_WAIT" /\ ~ExtFault
  /\ ctrl' = "FETCH"
  /\ pc' = pc + 1
  /\ UNCHANGED <<syncMask, faultCode>>

WaitRetire ==
  /\ \/ SyncRetires
     \/ ctrl = "DISP_WAIT" /\ ~ExtFault /\ ~HelperBusy
  /\ ctrl' = "FETCH"
  /\ pc' = pc + 1
  /\ UNCHANGED <<syncMask, faultCode>>

\* The cycles in which the FSM holds: no start, no instruction yet, a stalled
\* dispatch, a busy engine named by the mask, a busy helper, a terminal state.
Hold ==
  /\ \/ ctrl \in {"IDLE"} \union Terminal
     \/ ctrl = "FETCH" /\ ~ExtFault /\ fetch # "RESP"
     \/ /\ Issuing
        /\ Configured
        /\ insn.op \in DmaOps \union HelperOps \union SfuOps \union {"MATMUL"}
        /\ ~DmaDispatch /\ ~SysDispatch /\ ~HelperDispatch /\ ~SfuDispatch
     \/ ctrl = "SYNC_WAIT" /\ ~ExtFault /\ ~SyncClear(syncMask)
     \/ ctrl = "DISP_WAIT" /\ ~ExtFault /\ HelperBusy
  /\ UNCHANGED <<ctrl, pc, syncMask, faultCode>>

ControlStep ==
  \/ Start \/ TakeExtFault \/ InsnArrives \/ Reject \/ NoConfig \/ IssueRetire
  \/ Halt \/ SyncBlock \/ HelperStart \/ WaitRetire \/ Hold

-----------------------------------------------------------------------------
(* The units around it.                                                    *)

Fetchable == {i \in Insns : pc = MaxPC => i.op = "HALT"}

MutantFetchStep ==       \* fetch_req also raised in S_ISSUE
  \/ /\ fetch = "IDLE"
     /\ fetch' = IF ctrl \in {"FETCH", "ISSUE"} THEN "WAIT" ELSE "IDLE"
     /\ UNCHANGED insn
  \/ /\ fetch = "WAIT"
     /\ fetch' \in {"WAIT", "RESP", "FAULT"}
     /\ UNCHANGED insn
  \/ /\ fetch = "RESP"
     /\ fetch' = "IDLE"
     /\ insn' \in Fetchable
  \/ /\ fetch = "FAULT"
     /\ UNCHANGED <<fetch, insn>>

\* One read at a time; the word is registered at the end of the beat.
FetchStep ==
  \/ /\ fetch = "IDLE"
     /\ fetch' = IF ctrl = "FETCH" THEN "WAIT" ELSE "IDLE"
     /\ UNCHANGED insn
  \/ /\ fetch = "WAIT"
     /\ fetch' \in {"WAIT", "RESP", "FAULT"}
     /\ UNCHANGED insn
  \/ /\ fetch = "RESP"
     /\ fetch' = "IDLE"
     /\ insn' \in Fetchable
  \/ /\ fetch = "FAULT"
     /\ UNCHANGED <<fetch, insn>>

TileStep == IF TileWrite THEN tile' \in Tiles ELSE UNCHANGED tile

\* D_IDLE is the only state that looks at dispatch.  A transfer of length 0
\* stays there; a transfer out of bounds goes straight to D_FAULT.
DmaStep ==
  CASE dma = "IDLE" /\ DmaDispatch -> dma' \in {"IDLE", "BUSY", "DRAM_OOB", "SRAM_OOB"}
    [] dma = "BUSY"                -> dma' \in {"IDLE", "BUSY", "DRAM_OOB", "SRAM_OOB"}
    [] OTHER                       -> UNCHANGED dma

\* The controller never stops on its own SRAM fault; taccel_top latches it.
SysStep ==
  /\ CASE sys = "IDLE" /\ SysDispatch -> sys' = "BUSY"
       [] sys # "IDLE"                -> sys' \in {"IDLE", "BUSY", "OOB"}
       [] OTHER                       -> UNCHANGED sys
  /\ sysLatched' = SysFault

\* BUF_COPY of length 0 stays in H_IDLE.
HelperStep ==
  CASE helper = "IDLE" /\ HelperDispatch ->
         helper' \in {"BUSY", "UNSUPPORTED_OP", "SRAM_OOB"}
                       \union (IF insn.op = "BUF_COPY" THEN {"IDLE"} ELSE {})
    [] helper = "BUSY" -> helper' \in {"IDLE", "BUSY", "SRAM_OOB"}
    [] OTHER           -> UNCHANGED helper

SfuStep ==
  CASE sfu = "IDLE" /\ SfuDispatch -> sfu' \in {"BUSY", "UNSUPPORTED_OP", "SRAM_OOB"}
    [] sfu = "BUSY"                -> sfu' \in {"IDLE", "BUSY", "SRAM_OOB"}
    [] OTHER                       -> UNCHANGED sfu

-----------------------------------------------------------------------------
(* History.                                                                *)

Dispatched == {e \in AsyncEngines : \/ e = "dma" /\ DmaDispatch
                                    \/ e = "sys" /\ SysDispatch
                                    \/ e = "sfu" /\ SfuDispatch}

\* Engines this cycle's instruction waited for: those a SYNC names, and all of
\* them when the control unit fences a helper or SFU dispatch by itself.
Fenced ==
  IF HelperDispatch \/ SfuDispatch THEN AsyncEngines
  ELSE IF SyncRetires THEN syncMask
  ELSE IF IssueRetires /\ insn.op = "SYNC" THEN insn.mask
  ELSE {}

\* The SYNC discipline of the code generators: no transfer while an earlier
\* one is unsynced, no MATMUL while an earlier one is.  Helper and SFU
\* operations need none.
Undisciplined == {e \in {"dma", "sys"} \intersect pending :
                    \/ e = "dma" /\ DmaDispatch
                    \/ e = "sys" /\ SysDispatch}

HistoryStep ==
  /\ pending' = (pending \ Fenced) \union Dispatched
  /\ unsynced' = unsynced \union Undisciplined
  /\ lost' = lost \union {e \in AsyncEngines \union {"helper"} :
                            \/ e = "dma" /\ DmaDispatch /\ dma # "IDLE"
                            \/ e = "sys" /\ SysDispatch /\ sys # "IDLE"
                            \/ e = "sfu" /\ SfuDispatch /\ sfu # "IDLE"
                            \/ e = "helper" /\ HelperDispatch /\ helper # "IDLE"}

-----------------------------------------------------------------------------

Init ==
  /\ ctrl = "IDLE"
  /\ pc = 0
  /\ insn = Plain("NOP")
  /\ syncMask = {}
  /\ faultCode = "NONE"
  /\ tile = NoTile
  /\ fetch = "IDLE"
  /\ dma = "IDLE"
  /\ sys = "IDLE"
  /\ sysLatched = FALSE
  /\ helper = "IDLE"
  /\ sfu = "IDLE"
  /\ pending = {}
  /\ unsynced = {}
  /\ lost = {}

Next == /\ ControlStep
        /\ FetchStep
        /\ TileStep
        /\ DmaStep
        /\ SysStep
        /\ HelperStep
        /\ SfuStep
        /\ HistoryStep

Spec == Init /\ [][Next]_vars

(***************************************************************************)
(* Fairness.  The clock ticks; a memory read is answered; an engine at     *)
(* work stops after finitely many cycles because each of its loops counts  *)
(* up to a registered bound; and the host raises start.                    *)
(***************************************************************************)
Fairness ==
  /\ WF_vars(Next)
  /\ WF_vars(Next /\ Start)
  /\ WF_vars(Next /\ fetch # fetch')
  /\ WF_vars(Next /\ dma = "BUSY" /\ dma' # "BUSY")
  /\ WF_vars(Next /\ sys # "IDLE" /\ sys' = "IDLE")
  /\ WF_vars(Next /\ helper = "BUSY" /\ helper' # "BUSY")
  /\ WF_vars(Next /\ sfu = "BUSY" /\ sfu' # "BUSY")

FairSpec == Spec /\ Fairness

-----------------------------------------------------------------------------
(* Properties.                                                             *)

\* Type invariant: the registers of control_unit.sv hold the values of their
\* enumerations, the program counter stays inside the program, and each unit
\* shows the control unit one of the states listed at its variable.
TypeOK ==
  /\ ctrl \in {"IDLE"} \union Running \union Terminal
  /\ pc \in 0 .. MaxPC
  /\ insn \in Insns \union {Plain("NOP")}
  /\ syncMask \subseteq AsyncEngines
  /\ faultCode \in FaultCodes \union {"NONE"}
  /\ tile \in Tiles \union {NoTile}
  /\ fetch \in {"IDLE", "WAIT", "RESP", "FAULT"}
  /\ dma \in {"IDLE", "BUSY", "DRAM_OOB", "SRAM_OOB"}
  /\ sys \in {"IDLE", "BUSY", "OOB"}
  /\ sysLatched \in BOOLEAN
  /\ helper \in {"IDLE", "BUSY", "UNSUPPORTED_OP", "SRAM_OOB"}
  /\ sfu \in {"IDLE", "BUSY", "UNSUPPORTED_OP", "SRAM_OOB"}
  /\ pending \subseteq AsyncEngines
  /\ unsynced \subseteq {"dma", "sys"}
  /\ lost \subseteq AsyncEngines \union {"helper"}

\* obs_forbidden_overlap_violation_q of taccel_top is never set: a helper or
\* SFU operation never runs while any other SRAM user is at work.  The port
\* priority of taccel_top is only correct because of it.
NoForbiddenOverlap ==
  /\ HelperBusy => ~DmaBusy /\ ~SysBusy /\ ~SfuBusy
  /\ SfuBusy    => ~DmaBusy /\ ~SysBusy /\ ~HelperBusy

\* An engine that no unsynced instruction was given to is idle and faultless:
\* a SYNC, or the fence in front of a helper or SFU operation, is passed only
\* when everything it waits for is over.
SyncBarrier ==
  /\ "dma" \notin pending => dma = "IDLE"
  /\ "sys" \notin pending => sys = "IDLE" /\ ~sysLatched
  /\ "sfu" \notin pending => sfu = "IDLE"

\* A program that synced everything before HALT cannot finish with done while
\* an engine still works or holds a fault nobody reported.
SyncedHaltIsClean ==
  ctrl = "HALT" /\ pending = {} => AllIdle /\ ~ExtFault

\* Work the control unit retires is taken by its engine: helper and SFU
\* operations always, DMA and MATMUL if the program keeps the SYNC discipline
\* towards that engine, whatever it does to the others.
NoLostWork == lost \subseteq unsynced

\* The fault code the host reads is one that some unit raised and still holds,
\* or the reason the control unit had for refusing the instruction at pc.
UnitReason ==
  \/ faultCode = "DRAM_OOB" /\ fetch = "FAULT"
  \/ DmaFault /\ faultCode = dma
  \/ HelperFault /\ faultCode = helper
  \/ SfuFault /\ faultCode = sfu
  \/ faultCode = "SRAM_OOB" /\ sysLatched

InsnReason ==
  \/ Rejected(insn) /\ faultCode = RejectCode(insn)
  \/ ~Configured /\ faultCode = "NO_CONFIG"

FaultCodeTruthful == ctrl = "FAULT" => UnitReason \/ InsnReason

\* The helper engine uses the tile registers it was dispatched under until it
\* is done (it reads n_tiles live, blocking_helper_engine.sv:660, 727, 765),
\* and the instruction register it was decoded from.
HelperInputsStable ==
  [][HelperBusy => UNCHANGED <<tile, insn, pc>>]_vars

\* Every started program ends in done or fault.
EventuallyTerminal == (ctrl = "FETCH") ~> (ctrl \in Terminal)

=============================================================================
