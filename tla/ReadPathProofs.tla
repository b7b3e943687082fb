--------------------------- MODULE ReadPathProofs ---------------------------
(***************************************************************************)
(* Theorems about the shared read channel, for every burst length, every   *)
(* LOAD, and whatever the memory answers and when.                         *)
(***************************************************************************)
EXTENDS ReadPath, TLAPS

ReadTypeOK ==
  /\ ctrl \in {"FETCH", "ISSUE", "WAIT", "STOP"}
  /\ fetchS \in {"IDLE", "AR_REQ", "WAIT_R", "FAULT"}
  /\ dmaS \in {"IDLE", "LOAD_AR", "LOAD_R", "FAULT"}
  /\ remaining \in Nat /\ left \in Nat
  /\ inflight \in BOOLEAN /\ owner \in BOOLEAN /\ prefer \in BOOLEAN
  /\ served \in [by : {"none", "fetch", "dma"}, left : Nat]
  /\ passed \in [fetch : Nat, dma : Nat]

\* A burst that is asked for or under way still has beats to come, and the
\* memory serves the fetch unit single beats.
CountInv ==
  /\ dmaS \in {"LOAD_AR", "LOAD_R"} => left > 0 /\ remaining > 0
  /\ served.by = "fetch" => served.left = 1
  /\ served.by = "dma" => served.left > 0

\* A unit that was passed over once is next: the preference stands for the
\* fetch unit as soon as the burst it waits for ends, and cannot be set against
\* the DMA engine while it waits.
TurnInv ==
  /\ \/ passed.fetch = 0
     \/ passed.fetch = 1 /\ fetchS = "AR_REQ" /\ (prefer \/ (inflight /\ owner))
  /\ \/ passed.dma = 0
     \/ passed.dma = 1 /\ dmaS = "LOAD_AR" /\ ~prefer /\ ~(inflight /\ owner)

ReadInv == ReadTypeOK /\ CountInv /\ OwnersAgree /\ TurnInv

-----------------------------------------------------------------------------

USE ReadAssumption

\* After reset nobody asks and nothing is owed.
LEMMA InitReadInv == Init => ReadInv
<1> SUFFICES ASSUME Init PROVE ReadInv
  OBVIOUS
<1>1. ReadTypeOK
  BY DEF Init, ReadTypeOK, Idle
<1>2. CountInv /\ OwnersAgree /\ TurnInv
  BY DEF Init, CountInv, OwnersAgree, TurnInv, Idle
<1>3. QED
  BY <1>1, <1>2 DEF ReadInv

\* The ready signals have equations of their own, yet a unit sees its request
\* accepted exactly when the arbiter drives that request and it is accepted.
LEMMA ReadyIsGrant ==
  ASSUME NEW ready
  PROVE  /\ (DmaArValid /\ DmaArReady(ready)) <=> (Accepted(ready) /\ SelectDma)
         /\ (FetchArValid /\ FetchArReady(ready)) <=> (Accepted(ready) /\ SelectFetch)
         /\ ~(SelectDma /\ SelectFetch)
         /\ Accepted(ready) => SelectDma \/ SelectFetch
         /\ Accepted(ready) => ~inflight
BY DEF DmaArValid, FetchArValid, DmaArReady, FetchArReady, Accepted, ArValid, SelectDma,
       SelectFetch

\* A burst asked for is never empty and never over the limit.
LEMMA BurstBounds ==
  ASSUME NEW n \in Nat
  PROVE  Burst(n) \in Nat /\ (n > 0 => Burst(n) > 0)
BY DEF Burst

-----------------------------------------------------------------------------
(* What one cycle does, by what happens on the bus.                        *)

\* The DMA engine's request is accepted: the fetch unit stays where it is, or
\* begins to ask.
LEMMA DmaGranted ==
  ASSUME ReadInv, NEW ready, NEW beat, Cycle(ready, beat), Accepted(ready), SelectDma
  PROVE  /\ inflight' /\ owner' /\ prefer' = prefer /\ ~(fetchS = "AR_REQ" /\ prefer)
         /\ served' = [by |-> "dma", left |-> left]
         /\ dmaS = "LOAD_AR" /\ dmaS' = "LOAD_R" /\ left' = left /\ remaining' = remaining
         /\ fetchS' # "WAIT_R" /\ (fetchS = "AR_REQ" => fetchS' = "AR_REQ")
         /\ passed' = [fetch |-> IF fetchS = "AR_REQ" THEN passed.fetch + 1 ELSE 0, dma |-> 0]
<1>1. /\ ~inflight /\ dmaS = "LOAD_AR" /\ ~(fetchS = "AR_REQ" /\ prefer) /\ ~SelectFetch
      /\ DmaArReady(ready) /\ ~(FetchArValid /\ FetchArReady(ready))
  BY ReadyIsGrant DEF SelectDma, DmaArValid, FetchArValid
<1>2. ~Taken(beat) /\ ~Completes(beat) /\ ~FetchBeat(beat)
  BY <1>1 DEF Taken, Completes, RReady, FetchBeat
<1>3. inflight' /\ owner' /\ prefer' = prefer
  BY <1>1, <1>2 DEF Cycle, ArbiterStep, ReadInv, ReadTypeOK
<1>4. served' = [by |-> "dma", left |-> left]
  BY DEF Cycle, MemoryStep
<1>5. dmaS' = "LOAD_R" /\ left' = left /\ remaining' = remaining
  BY <1>1 DEF Cycle, DmaStep
<1>6. fetchS # "WAIT_R"
  BY <1>1 DEF ReadInv, OwnersAgree
<1>7. fetchS' # "WAIT_R" /\ (fetchS = "AR_REQ" => fetchS' = "AR_REQ")
  BY <1>1, <1>2, <1>6 DEF Cycle, FetchStep, FetchArValid, ReadInv, ReadTypeOK
<1>8. passed' = [fetch |-> IF fetchS = "AR_REQ" THEN passed.fetch + 1 ELSE 0, dma |-> 0]
  BY <1>1 DEF Cycle, HistoryStep, FetchArValid
<1>9. QED
  BY <1>1, <1>3, <1>4, <1>5, <1>7, <1>8

\* What the DMA engine does in a cycle in which nothing on the bus is for it.
LEMMA DmaApart ==
  ASSUME ReadInv, NEW ready, NEW beat, DmaStep(ready, beat),
         ~(Accepted(ready) /\ SelectDma),
         ~(dmaS = "LOAD_R" /\ beat # NoBeat /\ inflight /\ owner)
  PROVE  \/ UNCHANGED <<dmaS, remaining, left>>
         \/ /\ dmaS = "IDLE" /\ dmaS' = "LOAD_AR"
            /\ remaining' \in Nat /\ remaining' > 0 /\ left' \in Nat /\ left' > 0
<1>1. ~(dmaS = "LOAD_AR" /\ DmaArReady(ready))
  BY ReadyIsGrant DEF DmaArValid
<1>2. CASE dmaS = "IDLE"
  <2>1. SUFFICES ASSUME NEW n \in 1 .. MaxBeats, remaining' = n, left' = Burst(n)
                 PROVE  remaining' \in Nat /\ remaining' > 0 /\ left' \in Nat /\ left' > 0
    BY <1>2 DEF DmaStep, DmaDispatch
  <2>2. n \in Nat /\ n > 0
    OBVIOUS
  <2>3. QED
    BY <2>1, <2>2, BurstBounds
<1>3. CASE dmaS # "IDLE"
  BY <1>1, <1>3 DEF DmaStep
<1>4. QED
  BY <1>2, <1>3

\* The fetch unit's request is accepted.
LEMMA FetchGranted ==
  ASSUME ReadInv, NEW ready, NEW beat, Cycle(ready, beat), Accepted(ready), SelectFetch
  PROVE  /\ inflight' /\ ~owner' /\ ~prefer' /\ (dmaS = "LOAD_AR" => prefer)
         /\ served' = [by |-> "fetch", left |-> 1]
         /\ fetchS' = "WAIT_R" /\ dmaS' # "LOAD_R" /\ (dmaS = "LOAD_AR" => dmaS' = "LOAD_AR")
         /\ \/ UNCHANGED <<dmaS, remaining, left>>
            \/ /\ dmaS = "IDLE" /\ dmaS' = "LOAD_AR"
               /\ remaining' \in Nat /\ remaining' > 0 /\ left' \in Nat /\ left' > 0
         /\ passed' = [fetch |-> 0, dma |-> IF dmaS = "LOAD_AR" THEN passed.dma + 1 ELSE 0]
<1>1. /\ ~inflight /\ fetchS = "AR_REQ" /\ (dmaS = "LOAD_AR" => prefer) /\ ~SelectDma
      /\ FetchArReady(ready)
  BY ReadyIsGrant DEF SelectFetch, DmaArValid, FetchArValid
<1>2. ~Taken(beat) /\ ~Completes(beat)
  BY <1>1 DEF Taken, Completes, RReady
<1>3. inflight' /\ ~owner' /\ ~prefer'
  BY <1>1, <1>2 DEF Cycle, ArbiterStep, ReadInv, ReadTypeOK
<1>4. served' = [by |-> "fetch", left |-> 1]
  BY <1>1 DEF Cycle, MemoryStep
<1>5. fetchS' = "WAIT_R"
  BY <1>1 DEF Cycle, FetchStep, FetchBeat
<1>6. dmaS # "LOAD_R"
  BY <1>1 DEF ReadInv, OwnersAgree
<1>7. \/ UNCHANGED <<dmaS, remaining, left>>
      \/ /\ dmaS = "IDLE" /\ dmaS' = "LOAD_AR"
         /\ remaining' \in Nat /\ remaining' > 0 /\ left' \in Nat /\ left' > 0
  BY <1>1, <1>6, DmaApart DEF Cycle
<1>8. passed' = [fetch |-> 0, dma |-> IF dmaS = "LOAD_AR" THEN passed.dma + 1 ELSE 0]
  BY <1>1 DEF Cycle, HistoryStep, DmaArValid
<1>9. QED
  BY <1>1, <1>3, <1>4, <1>5, <1>6, <1>7, <1>8

\* A beat reaches the DMA engine: the burst goes on, or the read in flight ends,
\* or the engine has failed and the read stays for ever.
LEMMA DmaBeatTaken ==
  ASSUME ReadInv, NEW ready, NEW beat, Cycle(ready, beat), inflight, owner, Taken(beat)
  PROVE  /\ owner' /\ fetchS' # "WAIT_R" /\ (fetchS = "AR_REQ" => fetchS' = "AR_REQ")
         /\ \/ /\ inflight' /\ prefer' = prefer /\ dmaS' \in {"LOAD_R", "FAULT"}
               /\ served' \in [by : {"dma"}, left : Nat \ {0}]
               /\ dmaS' = "LOAD_R" => served'.left = left'
            \/ /\ ~inflight' /\ prefer' /\ dmaS' \in {"IDLE", "LOAD_AR", "FAULT"}
               /\ served' = Idle
         /\ remaining' \in Nat /\ left' \in Nat
         /\ dmaS' \in {"LOAD_AR", "LOAD_R"} => left' > 0 /\ remaining' > 0
         /\ passed' = [fetch |-> IF fetchS = "AR_REQ" THEN passed.fetch ELSE 0, dma |-> 0]
<1>1. /\ dmaS = "LOAD_R" /\ beat # NoBeat /\ served.by = "dma" /\ served.left = left
      /\ left \in Nat /\ left > 0 /\ remaining \in Nat /\ remaining > 0
      /\ served \in [by : {"none", "fetch", "dma"}, left : Nat]
  BY DEF Taken, RReady, ReadInv, ReadTypeOK, OwnersAgree, CountInv
<1>2. ~Accepted(ready) /\ ~FetchBeat(beat) /\ fetchS # "WAIT_R"
  BY <1>1, ReadyIsGrant DEF FetchBeat, ReadInv, OwnersAgree
<1>3. /\ owner' /\ inflight' = ~Last(beat)
      /\ prefer' = IF Last(beat) THEN TRUE ELSE prefer
  BY <1>2 DEF Cycle, ArbiterStep, Completes, ReadInv, ReadTypeOK
<1>4. DmaBeat(beat)
  BY <1>1 DEF Cycle, DmaStep
<1>5. fetchS' # "WAIT_R" /\ (fetchS = "AR_REQ" => fetchS' = "AR_REQ")
  BY <1>2, ReadyIsGrant DEF Cycle, FetchStep, FetchArValid, ReadInv, ReadTypeOK
<1>6. passed' = [fetch |-> IF fetchS = "AR_REQ" THEN passed.fetch ELSE 0, dma |-> 0]
  BY <1>1, <1>2 DEF Cycle, HistoryStep, FetchArValid, DmaArValid
<1>7. CASE Last(beat)
  <2>1. ~inflight' /\ prefer' /\ served' = Idle
    BY <1>2, <1>3, <1>7 DEF Cycle, MemoryStep, Completes
  <2>2. dmaS' \in {"IDLE", "LOAD_AR", "FAULT"} /\ remaining' \in Nat /\ left' \in Nat
        /\ (dmaS' = "LOAD_AR" => left' > 0 /\ remaining' > 0)
    <3>1. CASE beat = "error" \/ Last(beat) # (left = 1)
      BY <1>1, <1>4, <3>1 DEF DmaBeat, Last
    <3>2. CASE ~(beat = "error" \/ Last(beat) # (left = 1)) /\ remaining <= MaxBurst
      BY <1>1, <1>4, <1>7, <3>2 DEF DmaBeat, Last
    <3>3. CASE ~(beat = "error" \/ Last(beat) # (left = 1)) /\ ~(remaining <= MaxBurst)
      <4>1. /\ dmaS' = "LOAD_AR" /\ remaining' = remaining - MaxBurst
            /\ left' = Burst(remaining - MaxBurst)
        BY <1>1, <1>4, <1>7, <3>3 DEF DmaBeat, Last
      <4>2. remaining - MaxBurst \in Nat /\ remaining - MaxBurst > 0
        BY <1>1, <3>3
      <4>3. QED
        BY <4>1, <4>2, BurstBounds
    <3>4. QED
      BY <3>1, <3>2, <3>3
  <2>3. QED
    BY <1>3, <1>5, <1>6, <2>1, <2>2
<1>8. CASE ~Last(beat)
  <2>1. inflight' /\ prefer' = prefer
    BY <1>3, <1>8
  <2>2. served' = IF served.left > 1 THEN [served EXCEPT !.left = @ - 1] ELSE served
    BY <1>2, <1>8 DEF Cycle, MemoryStep, Completes
  <2>3. served' \in [by : {"dma"}, left : Nat \ {0}]
        /\ served'.left = (IF left > 1 THEN left - 1 ELSE left)
    BY <1>1, <2>2
  <2>4. \/ dmaS' = "FAULT" /\ remaining' = remaining /\ left' = left
        \/ dmaS' = "LOAD_R" /\ remaining' = remaining /\ left > 1 /\ left' = left - 1
    BY <1>1, <1>4, <1>8 DEF DmaBeat, Last
  <2>5. dmaS' \in {"LOAD_R", "FAULT"} /\ remaining' \in Nat /\ left' \in Nat
        /\ (dmaS' = "LOAD_R" => left' > 0 /\ remaining' > 0 /\ served'.left = left')
    BY <1>1, <2>3, <2>4
  <2>6. QED
    BY <1>3, <1>5, <1>6, <2>1, <2>3, <2>5
<1>9. QED
  BY <1>7, <1>8

\* A beat reaches the fetch unit, which takes the word or has failed.
LEMMA FetchBeatTaken ==
  ASSUME ReadInv, NEW ready, NEW beat, Cycle(ready, beat), inflight, ~owner, Taken(beat)
  PROVE  /\ ~owner' /\ prefer' = prefer
         /\ \/ inflight' /\ served' = served /\ fetchS' = "FAULT" /\ served.by = "fetch"
            \/ ~inflight' /\ served' = Idle /\ fetchS' \in {"IDLE", "FAULT"}
         /\ dmaS' # "LOAD_R" /\ (dmaS = "LOAD_AR" => dmaS' = "LOAD_AR")
         /\ \/ UNCHANGED <<dmaS, remaining, left>>
            \/ /\ dmaS = "IDLE" /\ dmaS' = "LOAD_AR"
               /\ remaining' \in Nat /\ remaining' > 0 /\ left' \in Nat /\ left' > 0
         /\ passed' = [fetch |-> 0, dma |-> IF dmaS = "LOAD_AR" THEN passed.dma ELSE 0]
<1>1. /\ fetchS = "WAIT_R" /\ beat # NoBeat /\ served.by = "fetch" /\ served.left = 1
      /\ dmaS # "LOAD_R"
  BY DEF Taken, RReady, ReadInv, ReadTypeOK, OwnersAgree, CountInv
<1>2. ~Accepted(ready) /\ FetchBeat(beat)
  BY <1>1, ReadyIsGrant DEF FetchBeat
<1>3. ~owner' /\ inflight' = ~Last(beat) /\ prefer' = prefer
  BY <1>2 DEF Cycle, ArbiterStep, Completes, ReadInv, ReadTypeOK
<1>4. fetchS' = IF beat # "error" /\ Last(beat) THEN "IDLE" ELSE "FAULT"
  BY <1>1, <1>2 DEF Cycle, FetchStep, InsnValid
<1>5. served' = IF Last(beat) THEN Idle ELSE served
  BY <1>1, <1>2 DEF Cycle, MemoryStep, Completes
<1>6. /\ \/ UNCHANGED <<dmaS, remaining, left>>
         \/ /\ dmaS = "IDLE" /\ dmaS' = "LOAD_AR"
            /\ remaining' \in Nat /\ remaining' > 0 /\ left' \in Nat /\ left' > 0
  BY <1>1, <1>2, DmaApart DEF Cycle
<1>7. passed' = [fetch |-> 0, dma |-> IF dmaS = "LOAD_AR" THEN passed.dma ELSE 0]
  BY <1>1, <1>2 DEF Cycle, HistoryStep, FetchArValid, DmaArValid
<1>8. QED
  BY <1>1, <1>3, <1>4, <1>5, <1>6, <1>7

\* Nothing is accepted and nothing taken: the units move on their own.
LEMMA BusQuiet ==
  ASSUME ReadInv, NEW ready, NEW beat, Cycle(ready, beat), ~Accepted(ready), ~Taken(beat)
  PROVE  /\ inflight' = inflight /\ owner' = owner /\ prefer' = prefer /\ served' = served
         /\ \/ fetchS' = fetchS
            \/ fetchS = "IDLE" /\ fetchS' = "AR_REQ"
         /\ \/ UNCHANGED <<dmaS, remaining, left>>
            \/ /\ dmaS = "IDLE" /\ dmaS' = "LOAD_AR"
               /\ remaining' \in Nat /\ remaining' > 0 /\ left' \in Nat /\ left' > 0
         /\ passed' = [fetch |-> IF fetchS = "AR_REQ" THEN passed.fetch ELSE 0,
                       dma |-> IF dmaS = "LOAD_AR" THEN passed.dma ELSE 0]
<1>1. ~Completes(beat) /\ ~FetchBeat(beat)
      /\ ~(dmaS = "LOAD_R" /\ beat # NoBeat /\ inflight /\ owner)
  BY DEF Completes, FetchBeat, Taken, RReady
<1>2. inflight' = inflight /\ owner' = owner /\ prefer' = prefer /\ served' = served
  BY <1>1 DEF Cycle, ArbiterStep, MemoryStep, ReadInv, ReadTypeOK
<1>3. fetchS' = fetchS \/ (fetchS = "IDLE" /\ fetchS' = "AR_REQ")
  BY <1>1, ReadyIsGrant DEF Cycle, FetchStep, FetchArValid, ReadInv, ReadTypeOK
<1>4. \/ UNCHANGED <<dmaS, remaining, left>>
      \/ /\ dmaS = "IDLE" /\ dmaS' = "LOAD_AR"
         /\ remaining' \in Nat /\ remaining' > 0 /\ left' \in Nat /\ left' > 0
  BY <1>1, DmaApart DEF Cycle
<1>5. passed' = [fetch |-> IF fetchS = "AR_REQ" THEN passed.fetch ELSE 0,
                 dma |-> IF dmaS = "LOAD_AR" THEN passed.dma ELSE 0]
  BY DEF Cycle, HistoryStep, FetchArValid, DmaArValid
<1>6. QED
  BY <1>2, <1>3, <1>4, <1>5

-----------------------------------------------------------------------------

\* The registers keep to their ranges.
LEMMA ReadTypeStep ==
  ASSUME ReadInv, NEW ready, NEW beat, Cycle(ready, beat)
  PROVE  ReadTypeOK'
<1>1. ReadTypeOK
  BY DEF ReadInv
<1>2. ctrl' \in {"FETCH", "ISSUE", "WAIT", "STOP"}
  BY <1>1 DEF Cycle, ControlStep, ReadTypeOK
<1>3. fetchS' \in {"IDLE", "AR_REQ", "WAIT_R", "FAULT"}
  BY <1>1 DEF Cycle, FetchStep, ReadTypeOK
<1>4. inflight' \in BOOLEAN /\ owner' \in BOOLEAN /\ prefer' \in BOOLEAN
  BY <1>1 DEF Cycle, ArbiterStep, ReadTypeOK, Completes, Accepted, SelectDma
<1>5. /\ dmaS' \in {"IDLE", "LOAD_AR", "LOAD_R", "FAULT"}
      /\ remaining' \in Nat /\ left' \in Nat
      /\ served' \in [by : {"none", "fetch", "dma"}, left : Nat]
      /\ passed' \in [fetch : Nat, dma : Nat]
  <2> USE <1>1 DEF ReadTypeOK
  <2>1. CASE Accepted(ready) /\ SelectDma
    BY <2>1, DmaGranted
  <2>2. CASE Accepted(ready) /\ SelectFetch
    BY <2>2, FetchGranted
  <2>3. CASE Taken(beat) /\ inflight /\ owner
    BY <2>3, DmaBeatTaken DEF Idle
  <2>4. CASE Taken(beat) /\ inflight /\ ~owner
    BY <2>4, FetchBeatTaken DEF Idle
  <2>5. CASE ~Accepted(ready) /\ ~Taken(beat)
    BY <2>5, BusQuiet
  <2>6. QED
    BY <2>1, <2>2, <2>3, <2>4, <2>5, ReadyIsGrant DEF Taken, RReady
<1>6. QED
  BY <1>2, <1>3, <1>4, <1>5 DEF ReadTypeOK

\* The four cases cover every cycle.
LEMMA ReadStep ==
  ASSUME ReadInv, NEW ready, NEW beat, Cycle(ready, beat)
  PROVE  CountInv' /\ OwnersAgree' /\ TurnInv'
<1>1. /\ passed \in [fetch : Nat, dma : Nat] /\ inflight \in BOOLEAN /\ owner \in BOOLEAN
      /\ prefer \in BOOLEAN /\ left \in Nat /\ remaining \in Nat
      /\ CountInv /\ OwnersAgree /\ TurnInv
  BY DEF ReadInv, ReadTypeOK
<1>0. inflight' \in BOOLEAN /\ owner' \in BOOLEAN /\ served' \in [by : {"none", "fetch", "dma"}, left : Nat]
  BY ReadTypeStep DEF ReadTypeOK
<1>2. CASE Accepted(ready) /\ SelectDma
  <2>1. CountInv'
    BY <1>1, <1>2, DmaGranted DEF CountInv, Idle
  <2>2. OwnersAgree'
    BY <1>0, <1>1, <1>2, DmaGranted DEF OwnersAgree, Idle
  <2>3. TurnInv'
    BY <1>1, <1>2, DmaGranted, ReadyIsGrant DEF TurnInv
  <2>4. QED
    BY <2>1, <2>2, <2>3
<1>3. CASE Accepted(ready) /\ SelectFetch
  <2>1. CountInv'
    BY <1>1, <1>3, FetchGranted DEF CountInv, Idle
  <2>2. OwnersAgree'
    BY <1>0, <1>1, <1>3, FetchGranted DEF OwnersAgree, Idle
  <2>3. TurnInv'
    BY <1>1, <1>3, FetchGranted DEF TurnInv
  <2>4. QED
    BY <2>1, <2>2, <2>3
<1>4. CASE Taken(beat) /\ inflight /\ owner
  <2>1. CountInv'
    BY <1>1, <1>4, DmaBeatTaken DEF CountInv, Idle
  <2>2. OwnersAgree'
    BY <1>0, <1>1, <1>4, DmaBeatTaken DEF OwnersAgree, Idle
  <2>3. TurnInv'
    BY <1>1, <1>4, DmaBeatTaken DEF TurnInv
  <2>4. QED
    BY <2>1, <2>2, <2>3
<1>5. CASE Taken(beat) /\ inflight /\ ~owner
  <2>1. CountInv'
    BY <1>1, <1>5, FetchBeatTaken DEF CountInv, Idle
  <2>2. OwnersAgree'
    BY <1>0, <1>1, <1>5, FetchBeatTaken DEF OwnersAgree, Idle
  <2>3. TurnInv'
    BY <1>1, <1>5, FetchBeatTaken DEF TurnInv
  <2>4. QED
    BY <2>1, <2>2, <2>3
<1>6. CASE ~Accepted(ready) /\ ~Taken(beat)
  <2>1. CountInv'
    BY <1>1, <1>6, BusQuiet DEF CountInv, Idle
  <2>2. OwnersAgree'
    BY <1>0, <1>1, <1>6, BusQuiet DEF OwnersAgree, Idle
  <2>3. TurnInv'
    BY <1>1, <1>6, BusQuiet DEF TurnInv
  <2>4. QED
    BY <2>1, <2>2, <2>3
<1>7. QED
  BY <1>2, <1>3, <1>4, <1>5, <1>6, ReadyIsGrant DEF Taken, RReady

\* Every cycle keeps the invariant.
LEMMA NextReadInv == ReadInv /\ [Next]_vars => ReadInv'
<1>1. ASSUME ReadInv, Next
      PROVE  ReadInv'
  BY <1>1, ReadStep, ReadTypeStep DEF Next, ReadInv
<1>2. ASSUME ReadInv, UNCHANGED vars
      PROVE  ReadInv'
  BY <1>2 DEF vars, ReadInv, ReadTypeOK, CountInv, OwnersAgree, TurnInv
<1>3. QED
  BY <1>1, <1>2

\* The invariant of the read path, for every burst and transfer length.
THEOREM ReadInvariance == Spec => []ReadInv
BY InitReadInv, NextReadInv, PTL DEF Spec

\* Arbiter, units and memory never disagree on whose read is in flight, for any
\* burst length, through errors and misplaced RLASTs.
THEOREM OwnersAlwaysAgree == Spec => []OwnersAgree
<1>1. ReadInv => OwnersAgree
  BY DEF ReadInv
<1>2. QED
  BY <1>1, ReadInvariance, PTL

\* No unit that asks is passed over twice, whatever the memory does.
THEOREM BypassIsBounded == Spec => []BoundedBypass
<1>1. ReadInv => BoundedBypass
  BY DEF ReadInv, TurnInv, BoundedBypass
<1>2. QED
  BY <1>1, ReadInvariance, PTL

=============================================================================
