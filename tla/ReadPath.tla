------------------------------ MODULE ReadPath ------------------------------
(***************************************************************************)
(* The shared AXI read channel: the fetch unit (fetch_unit.sv), the read   *)
(* half of the DMA engine (dma_engine.sv), the arbiter between them        *)
(* (taccel_top.sv) and the memory that serves them.  A step is a clock     *)
(* edge; ready says whether the memory raises ARREADY in that cycle and    *)
(* beat what is on the R channel.  Addresses and data are left out: a      *)
(* request is known by the unit it is for.                                 *)
(***************************************************************************)
EXTENDS Naturals

CONSTANTS
  MaxBurst,   \* beats of the longest burst, 256 in the code
  MaxBeats    \* bound on the beats of one LOAD

ASSUME ReadAssumption == MaxBurst \in Nat \ {0} /\ MaxBeats \in Nat \ {0}

VARIABLES
  ctrl,       \* control unit: "FETCH", "ISSUE", "WAIT" or "STOP"
  fetchS,     \* FSM of the fetch unit
  dmaS,       \* FSM of the DMA engine, its read states
  remaining,  \* beats_remaining_q
  left,       \* beats of the current burst still to come: burst_beats_q - idx
  inflight,   \* rd_inflight_q
  owner,      \* dma_r_owner_q: TRUE if the read in flight is the DMA engine's
  prefer,     \* prefer_fetch_after_dma_q
  served,     \* memory: [by, left], the request it is working on
  passed      \* history: grants to the other unit while this one asks

vars == <<ctrl, fetchS, dmaS, remaining, left, inflight, owner, prefer, served, passed>>

Idle == [by |-> "none", left |-> 0]

\* What the R channel can carry: a good beat, a beat with an error response,
\* a beat whose RLAST is wrong.
NoBeat  == "none"
Beats   == {"ok", "error", "badlast"}

Burst(n) == IF n > MaxBurst THEN MaxBurst ELSE n

-----------------------------------------------------------------------------
(* The arbiter's combinational half.                                       *)

FetchArValid == fetchS = "AR_REQ"
DmaArValid   == dmaS = "LOAD_AR"

SelectDma   == ~inflight /\ DmaArValid /\ ~(FetchArValid /\ prefer)
SelectFetch == ~inflight /\ FetchArValid /\ (prefer \/ ~DmaArValid)
ArValid     == SelectDma \/ SelectFetch

\* The two ready signals have equations of their own.
MutantDmaArReady(ready) == ready /\ ~inflight      \* no look at the preference
DmaArReady(ready)   == ready /\ ~inflight /\ (~FetchArValid \/ ~prefer)
FetchArReady(ready) == ready /\ ~inflight /\ (~DmaArValid \/ prefer)

RReady == inflight /\ IF owner THEN dmaS = "LOAD_R" ELSE fetchS = "WAIT_R"

\* RLAST of a beat: right or wrong for the request being served.
Last(beat) == (served.left = 1) = (beat # "badlast")

Accepted(ready) == ready /\ ArValid
Taken(beat)     == beat # NoBeat /\ RReady
Completes(beat) == Taken(beat) /\ Last(beat)

-----------------------------------------------------------------------------

MutantArbiterStep(ready, beat) ==     \* the preference is never set
  /\ inflight' = IF Completes(beat) THEN FALSE ELSE inflight \/ Accepted(ready)
  /\ owner' = IF Accepted(ready) THEN SelectDma ELSE owner
  /\ prefer' = (prefer /\ ~(Accepted(ready) /\ SelectFetch))

ArbiterStep(ready, beat) ==
  /\ inflight' = IF Completes(beat) THEN FALSE ELSE inflight \/ Accepted(ready)
  /\ owner' = IF Accepted(ready) THEN SelectDma ELSE owner
  /\ prefer' = \/ Completes(beat) /\ owner
               \/ prefer /\ ~(Accepted(ready) /\ SelectFetch)

FetchBeat(beat) == fetchS = "WAIT_R" /\ beat # NoBeat /\ inflight /\ ~owner
InsnValid(beat) == FetchBeat(beat) /\ beat # "error" /\ Last(beat)

\* fetch_req is up throughout S_FETCH; a fault of either unit ends the run.  An
\* instruction retires in its issue cycle or waits for other engines: a SYNC in
\* S_SYNC_WAIT, a helper operation in S_DISP_WAIT, and in S_ISSUE a LOAD that an
\* SFU operation holds back, which the DMA engine is idle for.
ControlStep(beat) ==
  IF fetchS = "FAULT" \/ dmaS = "FAULT" THEN ctrl' = "STOP"
  ELSE CASE ctrl = "FETCH" -> ctrl' = IF InsnValid(beat) THEN "ISSUE" ELSE "FETCH"
         [] ctrl = "ISSUE" -> ctrl' \in {"FETCH", "WAIT", "STOP"}
                                \union (IF dmaS = "IDLE" THEN {"ISSUE"} ELSE {})
         [] ctrl = "WAIT"  -> ctrl' \in {"FETCH", "WAIT"}
         [] ctrl = "STOP"  -> UNCHANGED ctrl

FetchStep(ready, beat) ==
  CASE fetchS = "IDLE" -> fetchS' = IF ctrl = "FETCH" THEN "AR_REQ" ELSE "IDLE"
    [] fetchS = "AR_REQ" ->
         fetchS' = IF FetchArReady(ready) THEN "WAIT_R" ELSE "AR_REQ"
    [] FetchBeat(beat) -> fetchS' = IF InsnValid(beat) THEN "IDLE" ELSE "FAULT"
    [] OTHER -> UNCHANGED fetchS

\* A LOAD is dispatched in the cycle in which it retires.
DmaDispatch ==
  \/ UNCHANGED <<dmaS, remaining, left>>
  \/ /\ dmaS = "IDLE" /\ ctrl = "ISSUE" /\ ctrl' = "FETCH"
     /\ \E n \in 1 .. MaxBeats :
          dmaS' = "LOAD_AR" /\ remaining' = n /\ left' = Burst(n)

DmaBeat(beat) ==
  IF beat = "error" \/ Last(beat) # (left = 1)
  THEN dmaS' = "FAULT" /\ UNCHANGED <<remaining, left>>
  ELSE IF left > 1
  THEN left' = left - 1 /\ UNCHANGED <<dmaS, remaining>>
  ELSE IF remaining <= MaxBurst
  THEN dmaS' = "IDLE" /\ remaining' = 0 /\ left' = 0
  ELSE /\ dmaS' = "LOAD_AR"
       /\ remaining' = remaining - MaxBurst
       /\ left' = Burst(remaining - MaxBurst)

DmaStep(ready, beat) ==
  CASE dmaS = "IDLE" -> DmaDispatch
    [] dmaS = "LOAD_AR" /\ DmaArReady(ready) ->
         dmaS' = "LOAD_R" /\ UNCHANGED <<remaining, left>>
    [] dmaS = "LOAD_R" /\ beat # NoBeat /\ inflight /\ owner -> DmaBeat(beat)
    [] OTHER -> UNCHANGED <<dmaS, remaining, left>>

\* One request at a time, single beats for the fetch unit.
MemoryStep(ready, beat) ==
  served' = IF Accepted(ready)
            THEN IF SelectDma THEN [by |-> "dma", left |-> left]
                              ELSE [by |-> "fetch", left |-> 1]
            ELSE IF Completes(beat) THEN Idle
            ELSE IF Taken(beat) /\ served.left > 1
                 THEN [served EXCEPT !.left = @ - 1]
            ELSE served

HistoryStep(ready) ==
  passed' = [fetch |-> IF ~FetchArValid \/ (Accepted(ready) /\ SelectFetch) THEN 0
                       ELSE IF Accepted(ready) THEN passed.fetch + 1 ELSE passed.fetch,
             dma   |-> IF ~DmaArValid \/ (Accepted(ready) /\ SelectDma) THEN 0
                       ELSE IF Accepted(ready) THEN passed.dma + 1 ELSE passed.dma]

Cycle(ready, beat) ==
  /\ ArbiterStep(ready, beat)
  /\ ControlStep(beat)
  /\ FetchStep(ready, beat)
  /\ DmaStep(ready, beat)
  /\ MemoryStep(ready, beat)
  /\ HistoryStep(ready)

-----------------------------------------------------------------------------

Init ==
  /\ ctrl = "FETCH"
  /\ fetchS = "IDLE"
  /\ dmaS = "IDLE"
  /\ remaining = 0
  /\ left = 0
  /\ inflight = FALSE
  /\ owner = FALSE
  /\ prefer = FALSE
  /\ served = Idle
  /\ passed = [fetch |-> 0, dma |-> 0]

OnBus == {NoBeat} \union (IF served.by = "none" THEN {} ELSE Beats)

Next == \E ready \in BOOLEAN, beat \in OnBus : Cycle(ready, beat)

Spec == Init /\ [][Next]_vars

\* The memory accepts a request that stays and returns the beats it owes.
MemoryFairness ==
  /\ WF_vars(ArValid /\ \E beat \in OnBus : Cycle(TRUE, beat))
  /\ WF_vars(RReady /\ \E ready \in BOOLEAN, beat \in OnBus \ {NoBeat} : Cycle(ready, beat))

FairSpec == Spec /\ MemoryFairness

-----------------------------------------------------------------------------
(* Properties.                                                             *)

\* Arbiter, units and memory agree on whose read is in flight: a beat can never
\* reach the unit that did not ask for it, nor a unit believe it was granted.
OwnersAgree ==
  /\ inflight = (served.by # "none")
  /\ inflight => owner = (served.by = "dma")
  /\ fetchS = "WAIT_R" => served.by = "fetch"
  /\ dmaS = "LOAD_R"   => served.by = "dma" /\ served.left = left
  /\ served.by = "fetch" => fetchS \in {"WAIT_R", "FAULT"}
  /\ served.by = "dma"   => dmaS \in {"LOAD_R", "FAULT"}

\* The comment on the arbiter: one fetch may slip in between two DMA bursts.
\* Neither unit is passed over twice, so neither starves.
BoundedBypass == passed.fetch <= 1 /\ passed.dma <= 1

\* A fetch that asks is answered and a LOAD ends, however the two contend,
\* unless the other unit has failed, which stops the whole accelerator.
RequestsServed ==
  /\ fetchS = "AR_REQ" ~> (fetchS \in {"IDLE", "FAULT"} \/ dmaS = "FAULT")
  /\ dmaS = "LOAD_AR" ~> (dmaS \in {"IDLE", "FAULT"} \/ fetchS = "FAULT")

=============================================================================
