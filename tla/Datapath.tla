------------------------------ MODULE Datapath ------------------------------
(***************************************************************************)
(* The helper engine and the SFU on the SRAM, behind the control unit: one *)
(* instruction at a time, and none after a fault.  That the control unit   *)
(* keeps it so, and keeps the DMA engine and the systolic controller away, *)
(* is shown by NoForbiddenOverlap of Accelerator.                          *)
(***************************************************************************)
EXTENDS Sram

CONSTANTS
  HelperJobs, SfuJobs,  \* the instructions
  MaxRow,               \* SFU_MAX_ROW_ELEMS
  MaxOps                \* bound: how many are dispatched

VARIABLES
  hState, hJob, hAt, hLatch,   \* the helper engine
  sState, sJob, sAt, sLatch,   \* the SFU engine
  ops,                         \* history: how many were dispatched
  last,                        \* history: which engine had the last one
  before                       \* history: the SRAM before it

history == <<ops, last, before>>

Helper == INSTANCE HelperEngine
            WITH Jobs <- HelperJobs, state <- hState, job <- hJob, at <- hAt, latch <- hLatch
Sfu == INSTANCE SfuEngine
            WITH Jobs <- SfuJobs, state <- sState, job <- sJob, at <- sAt, latch <- sLatch

helper == <<hState, hJob, hAt, hLatch>>
sfu    == <<sState, sJob, sAt, sLatch>>
vars   == <<sram, helper, sfu, history>>

ASSUME JobAssumption ==
  /\ HelperJobs \subseteq Helper!Job
  /\ SfuJobs \subseteq Sfu!Job
  /\ MaxRow \in Nat \ {0} /\ MaxOps \in Nat

BothIdle == hState = "IDLE" /\ sState = "IDLE"

\* The control unit issues when both engines are idle and none has faulted.
Issue(engine) ==
  /\ BothIdle
  /\ ops < MaxOps
  /\ ops' = ops + 1
  /\ last' = engine
  /\ before' = mem

IssueHelper == Issue("helper") /\ Helper!Dispatch /\ UNCHANGED sfu
IssueSfu    == Issue("sfu") /\ Sfu!Dispatch /\ UNCHANGED helper

HelperWork == Helper!Work /\ UNCHANGED <<sfu, history>>
SfuWork    == Sfu!Work /\ UNCHANGED <<helper, history>>

Init ==
  /\ SramInit
  /\ Helper!Init
  /\ Sfu!Init
  /\ ops = 0
  /\ last = "none"
  /\ before = mem

Next == IssueHelper \/ IssueSfu \/ HelperWork \/ SfuWork

Spec == Init /\ [][Next]_vars

\* The engines are clocked: one that can take a step takes it.
FairSpec == Spec /\ WF_vars(HelperWork) /\ WF_vars(SfuWork)

-----------------------------------------------------------------------------

\* Once an instruction has passed the checks at its dispatch no step of its
\* walk leaves a buffer: the engines' fault branches inside the walks, which
\* would leave a half-written destination, are never taken
\* (blocking_helper_engine.sv:578, sfu_engine.sv:450).
AccessInBounds ==
  \A access \in Helper!Accesses \union Sfu!Accesses :
    access[2] \in 0 .. BufRows[access[1]] - 1

\* When the helper engine is done its destination holds the result computed
\* from the SRAM as it was, overlap included, and nothing else has changed.
HelperResult ==
  last = "helper" /\ hState = "IDLE" /\ Helper!Defined(hJob)
    => mem = Helper!Result(hJob, before)

\* The same for the SFU, also when it writes over its own source or
\* parameters.
SfuResult ==
  last = "sfu" /\ sState = "IDLE" /\ Sfu!Defined(sJob)
    => mem = Sfu!Result(sJob, before)

\* Every operation ends: blocking instructions hold the control unit until it
\* does.
OperationEnds == (Helper!Busy ~> ~Helper!Busy) /\ (Sfu!Busy ~> ~Sfu!Busy)

=============================================================================
