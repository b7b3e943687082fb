----------------------------- MODULE IssueOrder -----------------------------
(***************************************************************************)
(* What the accelerator promises a program (isa_spec.md sections 3.1-3.3,  *)
(* rtl_plan.md section 2.6), without clock, fetch or stalls: instructions  *)
(* retire one at a time and in order; LOAD, STORE, MATMUL and the SFU      *)
(* operations leave their engine at work behind them; helper operations    *)
(* and SYNC retire only when what they wait for is over; nothing retires   *)
(* while a fault stands.                                                   *)
(***************************************************************************)
EXTENDS Isa

CONSTANT Empty   \* no instruction is being issued

VARIABLES
  pc,       \* index of the next instruction to retire
  current,  \* the instruction at pc once it is known, else Empty
  begun,    \* its helper operation has been handed over
  working,  \* the engines at work
  faulted,  \* the units that hold a fault
  status    \* "run", "done" or "fault"

vars == <<pc, current, begun, working, faulted, status>>

Engines == AsyncEngines \union {"helper"}
Units   == Engines \union {"fetch"}

Init ==
  /\ pc = 0
  /\ current = Empty
  /\ begun = FALSE
  /\ working = {}
  /\ faulted = {}
  /\ status = "run"

\* In any step engines may finish and units at work may fault.  Only the
\* engines in started can begin; a fault stays.
EnginesMove(started) ==
  /\ working' \subseteq working \union started
  /\ faulted \subseteq faulted'
  /\ faulted' \ faulted \subseteq working \union started \union {"fetch"}

Take ==
  /\ status = "run"
  /\ current = Empty
  /\ current' \in Instruction
  /\ EnginesMove({})
  /\ UNCHANGED <<pc, begun, status>>

EngineOf(i) ==
  CASE i.op \in DmaOps  -> {"dma"}
    [] i.op = "MATMUL"  -> {"sys"}
    [] i.op \in SfuOps  -> {"sfu"}
    [] OTHER            -> {}

Begin ==
  /\ status = "run"
  /\ faulted = {}
  /\ current # Empty
  /\ ~begun
  /\ current.op \in HelperOps
  /\ working = {}
  /\ begun' = TRUE
  /\ EnginesMove({"helper"})
  /\ UNCHANGED <<pc, current, status>>

Retire ==
  /\ status = "run"
  /\ faulted = {}
  /\ current # Empty
  /\ ~Rejected(current)
  /\ current.op # "HALT"
  /\ current.op = "SYNC" => current.mask \intersect working = {}
  /\ current.op \in HelperOps => begun /\ working = {}
  /\ current.op \in SfuOps => working = {}
  /\ pc' = pc + 1
  /\ current' = Empty
  /\ begun' = FALSE
  /\ EnginesMove(EngineOf(current))
  /\ UNCHANGED status

Stop ==
  /\ status = "run"
  /\ \/ status' = "fault"
     \/ /\ status' = "done"
        /\ faulted = {}
        /\ current # Empty
        /\ current.op = "HALT"
  /\ EnginesMove({})
  /\ current' = Empty
  /\ begun' = FALSE
  /\ UNCHANGED pc

\* Engines run on between the issue steps and after the machine has stopped.
Background ==
  /\ EnginesMove({})
  /\ UNCHANGED <<pc, current, begun, status>>

Next == Take \/ Begin \/ Retire \/ Stop \/ Background

Spec == Init /\ [][Next]_vars

=============================================================================
