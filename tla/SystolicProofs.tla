--------------------------- MODULE SystolicProofs ---------------------------
(***************************************************************************)
(* MATMUL for every array width, number of tiles and place of the          *)
(* operands, in both array modes: the rows it writes, the sums it drains   *)
(* and the product it leaves.                                              *)
(***************************************************************************)
EXTENDS Systolic, Integers, SequenceTheorems, TLAPS

\* The states of the controller.
States == {"IDLE", "CLEAR_PREP", "CLEAR", "INIT_TILE", "A_REQ", "A_LATCH", "B_LO", "B_HI",
           "STEP", "FLUSH", "DRAIN_PREP", "DRAIN"}

\* What a register of the array holds, and a sum.
Operand == {"src1", "src2", "zero", "other"} \X Nat
Sums    == Seq(Operand \X Operand)
Lane    == 0 .. Half - 1
Delay   == 0 .. Dim - 2

\* The registers hold what their width and use allow.
SysTypeOK ==
  /\ chained \in BOOLEAN
  /\ state \in States
  /\ job \in Job
  /\ at \in [m : Nat, n : Nat, k : Nat]
  /\ lane \in Nat
  /\ load \in [row : Idx, half : {0, 1}]
  /\ drain \in [row : Idx, grp : 0 .. 3]
  /\ base \in Nat /\ rowAddr \in Nat /\ clearRow \in Nat
  /\ aTile \in [PEs -> Operand]
  /\ bLo \in [Lane -> Operand]
  /\ rdataA \in [Lane -> Operand] /\ rdataB \in [Lane -> Operand]
  /\ acc \in [PEs -> Sums] /\ before \in [PEs -> Sums]
  /\ aOut \in [PEs -> Operand] /\ bOut \in [PEs -> Operand]
  /\ aSkew \in [Idx -> [Delay -> Operand]] /\ bSkew \in [Idx -> [Delay -> Operand]]
  /\ dstMem \in [DstRows -> [0 .. Group - 1 -> Sums \union Seq(Operand)]]
  /\ lost \in 0 .. MaxLost
  /\ jobs \in Nat

\* Operands enter the array, or its zeros behind them.
Feeding == state \in {"B_LO", "B_HI", "STEP", "FLUSH"}

\* Where the walk over the tiles and over the rows of one tile stands.
WalkInv ==
  /\ at.m < job.m /\ at.n < job.n /\ at.k < job.k
  /\ base = job.dst + at.m * (job.n * Dim * 4)
  /\ state # "IDLE" => job \in Jobs /\ jobs > 0
  /\ state \in {"CLEAR_PREP", "CLEAR"} => ~job.accumulate /\ at.m = 0 /\ at.n = 0
  /\ state \in {"CLEAR_PREP", "CLEAR", "INIT_TILE"} => at.k = 0
  /\ state = "CLEAR" => clearRow < ClearRows(job)
  /\ state \in {"B_LO", "B_HI", "STEP"} => lane < Dim
  /\ state = "FLUSH" => chained /\ Dim <= lane /\ lane < ChainSteps
  /\ state \in {"DRAIN_PREP", "DRAIN"} => at.k + 1 = job.k
  /\ state = "DRAIN_PREP" => drain = [row |-> 0, grp |-> 0]
  /\ state = "DRAIN" => rowAddr = base + 4 * at.n + drain.row * RowStep

\* Element (r, s) of the tile of A at hand and element (s, c) of that of B.
AElem(r, s) == <<"src1", job.src1 * Half + (at.m * Dim + r) * (job.k * Dim) + (at.k * Dim + s)>>
BElem(s, c) == <<"src2", job.src2 * Half + (at.k * Dim + s) * (job.n * Dim) + (at.n * Dim + c)>>

\* What of the tile of A is in its scratch registers.
Loaded(p) ==
  \/ Feeding
  \/ /\ state \in {"A_REQ", "A_LATCH"}
     /\ \/ p[1] < load.row
        \/ p[1] = load.row /\ load.half = 1 /\ p[2] < Half

\* Each register holds the element the next state takes it for.
OperandInv ==
  /\ \A p \in PEs : Loaded(p) => aTile[p] = AElem(p[1], p[2])
  /\ state = "A_LATCH" => \A l \in Lane : rdataB[l] = AElem(load.row, load.half * Half + l)
  /\ state = "B_HI" => \A l \in Lane : rdataA[l] = BElem(lane, l)
  /\ state = "STEP" => \A l \in Lane : /\ bLo[l] = BElem(lane, l)
                                       /\ rdataA[l] = BElem(lane, Half + l)

\* What was fed to row r of the mesh in pulse t of this tile, and to column c.
FedA(r, t) == IF Feeding /\ 0 <= t /\ t < Dim THEN AElem(r, t) ELSE Zero
FedB(t, c) == IF Feeding /\ 0 <= t /\ t < Dim THEN BElem(t, c) ELSE Zero

\* Operands travel one register per pulse: east of row r by r pulses of skew
\* and one per column, south of column c likewise.  What leaves the mesh at the
\* far edges is of no interest.
FlowInv ==
  chained =>
    /\ \A i \in Idx, s \in Delay : /\ aSkew[i][s] = FedA(i, lane - 1 - s)
                                   /\ bSkew[i][s] = FedB(lane - 1 - s, i)
    /\ \A r \in Idx, c \in Idx :
         /\ c < Dim - 1 => aOut[<<r, c>>] = FedA(r, lane - 1 - r - c)
         /\ r < Dim - 1 => bOut[<<r, c>>] = FedB(lane - 1 - r - c, c)

\* How many products of the tile at hand the PE (r, c) has seen.
Seen(r, c) ==
  IF ~Feeding THEN 0
  ELSE IF ~chained THEN lane
  ELSE IF lane < r + c THEN 0
  ELSE IF lane - r - c > Dim THEN Dim ELSE lane - r - c

\* How many products of the whole element are in its sum.
Complete(r, c) == IF state \in {"DRAIN_PREP", "DRAIN"} THEN job.k * Dim
                  ELSE at.k * Dim + Seen(r, c)

\* The first q products of an element of the result.
Products(r, c, q) ==
  [i \in 1 .. q |-> << <<"src1", job.src1 * Half + r * (job.k * Dim) + (i - 1)>>,
                       <<"src2", job.src2 * Half + (i - 1) * (job.n * Dim) + c>> >>]

\* States in which the sums are those of the tile at hand.
Summing == Feeding \/ state \in {"A_REQ", "A_LATCH", "DRAIN_PREP", "DRAIN"}

\* A sum is what it started from and the first products, in the order of k.
SumInv ==
  Defined =>
    /\ state = "INIT_TILE" /\ job.accumulate => acc = before
    /\ Summing => \A r \in Idx, c \in Idx :
         acc[<<r, c>>] = Start(r, c)
                           \o Products(at.m * Dim + r, at.n * Dim + c, Complete(r, c))

\* Group g of row r of tile (mt, nt) is in the destination.
Placed(mt, nt, r, g) ==
  \/ state = "IDLE"
  \/ mt < at.m
  \/ mt = at.m /\ nt < at.n
  \/ /\ mt = at.m /\ nt = at.n /\ state = "DRAIN"
     /\ r < drain.row \/ (r = drain.row /\ g < drain.grp)

\* Its row in the destination, row-major.
Address(mt, nt, r, g) == job.dst + (mt * Dim + r) * (4 * job.n) + (4 * nt + g)

\* Every group that is placed is whole, and nothing overwrites it.
StoredInv ==
  Defined /\ jobs > 0 =>
    \A mt \in 0 .. job.m - 1, nt \in 0 .. job.n - 1, r \in Idx, g \in 0 .. 3 :
      Placed(mt, nt, r, g) =>
        \A l \in 0 .. Group - 1 :
          dstMem[Address(mt, nt, r, g)][l]
            = Start(mt * Dim + r, nt * Dim + (g * Group + l))
                \o Products(mt * Dim + r, nt * Dim + (g * Group + l), job.k * Dim)

\* The inductive invariant.
SysInv == SysTypeOK /\ WalkInv /\ OperandInv /\ FlowInv /\ SumInv /\ StoredInv

-----------------------------------------------------------------------------
(* Arithmetic of tiles, halves and groups.                                 *)

\* An array is four groups or two halves wide.
LEMMA DimFacts ==
  /\ Group \in Nat /\ 0 < Group /\ Half \in Nat
  /\ Dim = 4 * Group /\ Half = 2 * Group /\ Dim = 2 * Half /\ Dim \in Nat /\ 4 <= Dim
BY DimAssumption DEF Half, Group

\* The half of a tile line an index is in.
LEMMA Halves ==
  ASSUME NEW i \in Idx
  PROVE  /\ i < Half => i \div Half = 0 /\ i % Half = i
         /\ Half <= i => i \div Half = 1 /\ i % Half = i - Half
<1>1. i \in Nat /\ i < 2 * Half /\ Half \in Nat /\ 0 < Half
  BY DimFacts DEF Idx
<1>2. DEFINE h == Half
<1>3. CASE i < h
  <2>1. i = h * 0 + i /\ 0 <= i /\ i < h
    BY <1>1, <1>3
  <2> QED
    BY <1>1, <1>3, <2>1
<1>4. CASE h <= i
  <2>1. i = h * 1 + (i - h) /\ 0 <= i - h /\ i - h < h
    BY <1>1, <1>4
  <2> QED
    BY <1>1, <1>4, <2>1
<1> QED
  BY <1>3, <1>4

-----------------------------------------------------------------------------
(* Types.                                                                  *)

\* A product of numbers is a number.
LEMMA NatProduct == \A a, b \in Nat : a * b \in Nat
OBVIOUS

\* A word read from memory, and one that nobody asked for.
LEMMA WordType ==
  ASSUME NEW src \in {"src1", "src2"}, NEW row \in Nat
  PROVE  Word(src, row) \in [Lane -> Operand] /\ NoWord \in [Lane -> Operand]
BY DimFacts DEF Word, NoWord, Stale, Lane, Operand

\* What a pulse leaves in the array, for any operands at its edges.
LEMMA PulseType ==
  ASSUME SysTypeOK, NEW a \in [Idx -> Operand], NEW b \in [Idx -> Operand], Pulse(a, b)
  PROVE  /\ acc' \in [PEs -> Sums]
         /\ aOut' \in [PEs -> Operand] /\ bOut' \in [PEs -> Operand]
         /\ aSkew' \in [Idx -> [Delay -> Operand]] /\ bSkew' \in [Idx -> [Delay -> Operand]]
<1>1. /\ acc \in [PEs -> Sums] /\ aOut \in [PEs -> Operand] /\ bOut \in [PEs -> Operand]
      /\ aSkew \in [Idx -> [Delay -> Operand]] /\ bSkew \in [Idx -> [Delay -> Operand]]
  BY DEF SysTypeOK
<1>2. \A i \in Idx : Edge(a, aSkew, i) \in Operand /\ Edge(b, bSkew, i) \in Operand
  BY <1>1, DimFacts DEF Edge, Idx, Delay
<1>3. \A p \in PEs : AIn(a, p) \in Operand /\ BIn(b, p) \in Operand
  <2> TAKE p \in PEs
  <2>1. p[1] \in Idx /\ p[2] \in Idx
    BY DEF PEs
  <2>2. p[2] # 0 => <<p[1], p[2] - 1>> \in PEs
    BY <2>1, DimFacts DEF PEs, Idx
  <2>3. p[1] # 0 => <<p[1] - 1, p[2]>> \in PEs
    BY <2>1, DimFacts DEF PEs, Idx
  <2> QED
    BY <1>1, <1>2, <2>1, <2>2, <2>3 DEF AIn, BIn
<1>4. \A p \in PEs : Mac(acc[p], AIn(a, p), BIn(b, p)) \in Sums
  <2> TAKE p \in PEs
  <2> DEFINE x == AIn(a, p)
             y == BIn(b, p)
  <2>1. acc[p] \in Seq(Operand \X Operand) /\ <<x, y>> \in Operand \X Operand
    BY <1>1, <1>3 DEF Sums
  <2> HIDE DEF x, y
  <2>2. Append(acc[p], <<x, y>>) \in Seq(Operand \X Operand)
    BY <2>1
  <2> QED
    BY <2>1, <2>2 DEF Mac, Sums, x, y
<1>5. /\ Shift(a, aSkew) \in [Idx -> [Delay -> Operand]]
      /\ Shift(b, bSkew) \in [Idx -> [Delay -> Operand]]
  BY <1>1, DimFacts DEF Shift, Delay
<1> QED
  BY <1>3, <1>4, <1>5 DEF Pulse

\* A cleared array.
LEMMA ClearType ==
  ASSUME Clear
  PROVE  /\ acc' \in [PEs -> Sums]
         /\ aOut' \in [PEs -> Operand] /\ bOut' \in [PEs -> Operand]
         /\ aSkew' \in [Idx -> [Delay -> Operand]] /\ bSkew' \in [Idx -> [Delay -> Operand]]
BY DEF Clear, NoSums, NoFlow, NoDelay, Sums, Operand, Zero, Delay

\* The port, whoever has it.
LEMMA PortType ==
  ASSUME SysTypeOK
  PROVE  /\ PortFree => /\ rdataA' \in [Lane -> Operand]
                        /\ dstMem' = dstMem /\ lost' = lost
         /\ \A row \in Nat :
              ReadA(row) => /\ rdataA' \in [Lane -> Operand]
                            /\ dstMem' = dstMem /\ lost' \in 0 .. MaxLost
         /\ \A row \in Nat, sums \in [0 .. Group - 1 -> Sums] :
              WriteA(row, sums) =>
                /\ rdataA' \in [Lane -> Operand] /\ lost' \in 0 .. MaxLost
                /\ dstMem' \in [DstRows -> [0 .. Group - 1 -> Sums \union Seq(Operand)]]
<1>1. /\ lost \in 0 .. MaxLost /\ MaxLost \in Nat /\ rdataA \in [Lane -> Operand]
      /\ dstMem \in [DstRows -> [0 .. Group - 1 -> Sums \union Seq(Operand)]]
  BY BoundAssumption DEF SysTypeOK
<1>2. Loses => lost' \in 0 .. MaxLost
  BY <1>1 DEF Loses
<1>3. NoWord \in [Lane -> Operand] /\ \A row \in Nat : Word("src2", row) \in [Lane -> Operand]
  BY WordType
<1>4. PortFree => /\ rdataA' \in [Lane -> Operand]
                  /\ dstMem' = dstMem /\ lost' = lost
  BY <1>1, <1>3 DEF PortFree
<1>5. ASSUME NEW row \in Nat, ReadA(row)
      PROVE  /\ rdataA' \in [Lane -> Operand]
             /\ dstMem' = dstMem /\ lost' \in 0 .. MaxLost
  BY <1>2, <1>3, <1>5 DEF ReadA
<1>6. ASSUME NEW row \in Nat, NEW sums \in [0 .. Group - 1 -> Sums], WriteA(row, sums)
      PROVE  /\ rdataA' \in [Lane -> Operand] /\ lost' \in 0 .. MaxLost
             /\ dstMem' \in [DstRows -> [0 .. Group - 1 -> Sums \union Seq(Operand)]]
  <2>1. sums \in [0 .. Group - 1 -> Sums \union Seq(Operand)]
    BY <1>6
  <2>2. dstMem' = dstMem \/ dstMem' = [dstMem EXCEPT ![row] = sums]
    BY <1>6 DEF WriteA
  <2>3. dstMem' \in [DstRows -> [0 .. Group - 1 -> Sums \union Seq(Operand)]]
    <3> DEFINE S == [0 .. Group - 1 -> Sums \union Seq(Operand)]
    <3>1. sums \in S /\ dstMem \in [DstRows -> S]
      BY <1>1, <2>1
    <3> HIDE DEF S
    <3>2. dstMem' \in [DstRows -> S]
      BY <3>1, <2>2
    <3> QED
      BY <3>2 DEF S
  <2> QED
    BY <1>2, <1>3, <1>6, <2>3 DEF WriteA
<1> QED
  BY <1>4, <1>5, <1>6

\* The fields of the records are numbers.
LEMMA FieldTypes ==
  ASSUME SysTypeOK
  PROVE  /\ job.m \in Nat /\ job.n \in Nat /\ job.k \in Nat
         /\ 0 < job.m /\ 0 < job.n /\ 0 < job.k
         /\ job.src1 \in Nat /\ job.src2 \in Nat /\ job.dst \in Nat
         /\ job.accumulate \in BOOLEAN /\ job.toAccum \in BOOLEAN
         /\ at.m \in Nat /\ at.n \in Nat /\ at.k \in Nat /\ lane \in Nat
         /\ load.row \in Nat /\ load.row < Dim /\ load.half \in {0, 1}
         /\ drain.row \in Nat /\ drain.row < Dim /\ drain.grp \in 0 .. 3
BY DimFacts DEF SysTypeOK, Job, Idx

\* What Step and Flush feed has the types of operands.
LEMMA FedType ==
  ASSUME SysTypeOK
  PROVE  /\ NoOperands \in [Idx -> Operand]
         /\ lane < Dim =>
              /\ [i \in Idx |-> aTile[<<i, lane>>]] \in [Idx -> Operand]
              /\ [i \in Idx |-> IF i < Half THEN bLo[i] ELSE rdataA[i - Half]] \in [Idx -> Operand]
<1>1. /\ aTile \in [PEs -> Operand] /\ bLo \in [Lane -> Operand] /\ rdataA \in [Lane -> Operand]
      /\ lane \in Nat
  BY DEF SysTypeOK
<1>2. NoOperands \in [Idx -> Operand]
  BY DEF NoOperands, Operand, Zero
<1>3. ASSUME lane < Dim
      PROVE  [i \in Idx |-> aTile[<<i, lane>>]] \in [Idx -> Operand]
  <2>1. \A i \in Idx : <<i, lane>> \in PEs
    BY <1>1, <1>3, DimFacts DEF PEs, Idx
  <2> QED
    BY <1>1, <2>1
<1>4. [i \in Idx |-> IF i < Half THEN bLo[i] ELSE rdataA[i - Half]] \in [Idx -> Operand]
  <2>1. \A i \in Idx : IF i < Half THEN i \in Lane ELSE i - Half \in Lane
    BY DimFacts DEF Idx, Lane
  <2> QED
    BY <1>1, <2>1
<1> QED
  BY <1>2, <1>3, <1>4

\* The rows of the operands are numbers, and so are the strides.
LEMMA RowTypes ==
  ASSUME SysTypeOK
  PROVE  ARow \in Nat /\ BRow \in Nat /\ job.n * Dim * 4 \in Nat /\ RowStep \in Nat
<1>1. /\ at.k * Dim \in Nat /\ 2 * job.n \in Nat /\ at.m * Dim \in Nat /\ 2 * job.k \in Nat
      /\ job.n * Dim \in Nat
  BY FieldTypes, DimFacts, NatProduct
<1>2. (at.k * Dim + lane) * (2 * job.n) \in Nat
  BY <1>1, FieldTypes, NatProduct
<1>3. (at.m * Dim + load.row) * (2 * job.k) \in Nat
  BY <1>1, FieldTypes, NatProduct
<1>4. BRow \in Nat
  BY <1>1, <1>2, FieldTypes DEF BRow
<1>5. ARow \in Nat
  BY <1>1, <1>3, FieldTypes DEF ARow
<1> QED
  BY <1>1, <1>4, <1>5, FieldTypes DEF RowStep

\* The registers keep their types.
LEMMA SysTypeStep ==
  ASSUME SysTypeOK, WalkInv, [Next]_vars
  PROVE  SysTypeOK'
<1> USE DEF SysTypeOK
<1>0. 0 \in Idx /\ {0, 1} \subseteq Nat /\ \A i \in Idx : i < Dim - 1 => i + 1 \in Idx
  BY DimFacts DEF Idx
<1>1. CASE Dispatch
  <2>1. PICK j \in Jobs : /\ job' = j /\ base' = j.dst /\ rowAddr' = j.dst
                          /\ state' = IF ~j.accumulate /\ j.toAccum THEN "CLEAR_PREP"
                                      ELSE "INIT_TILE"
    BY <1>1 DEF Dispatch
  <2>2. j \in Job /\ j.dst \in Nat
    BY JobAssumption DEF Job
  <2>3. /\ at' = [m |-> 0, n |-> 0, k |-> 0] /\ lane' = 0 /\ load' = [row |-> 0, half |-> 0]
        /\ drain' = [row |-> 0, grp |-> 0] /\ clearRow' = 0 /\ jobs' = jobs + 1
        /\ before' = acc /\ PortFree /\ UNCHANGED <<chained, aTile, bLo, rdataB, array>>
    BY <1>1 DEF Dispatch
  <2>4. /\ rdataA' \in [Lane -> Operand] /\ dstMem' = dstMem /\ lost' = lost
    BY <2>3, PortType
  <2> QED
    BY <1>0, <2>1, <2>2, <2>3, <2>4 DEF array, States
<1>2. CASE ClearPrep
  <2>1. rdataA' \in [Lane -> Operand] /\ dstMem' = dstMem /\ lost' = lost
    BY <1>2, PortType DEF ClearPrep
  <2> QED
    BY <1>2, <2>1 DEF ClearPrep, input, walk, fill, empty, array, States
<1>3. CASE ClearDst
  <2> DEFINE zeros == [l \in 0 .. Group - 1 |-> <<>>]
  <2>1. zeros \in [0 .. Group - 1 -> Sums] /\ job.dst + clearRow \in Nat
    BY DEF Sums, Job
  <2>2. WriteA(job.dst + clearRow, zeros)
    BY <1>3 DEF ClearDst
  <2> HIDE DEF zeros
  <2>3. /\ rdataA' \in [Lane -> Operand] /\ lost' \in 0 .. MaxLost
        /\ dstMem' \in [DstRows -> [0 .. Group - 1 -> Sums \union Seq(Operand)]]
    BY <2>1, <2>2, PortType
  <2> QED
    BY <1>3, <2>3 DEF ClearDst, input, walk, fill, empty, array, States
<1>4. CASE InitTile
  <2>1. rdataA' \in [Lane -> Operand] /\ dstMem' = dstMem /\ lost' = lost
    BY <1>4, PortType DEF InitTile
  <2>2. /\ acc' \in [PEs -> Sums]
        /\ aOut' \in [PEs -> Operand] /\ bOut' \in [PEs -> Operand]
        /\ aSkew' \in [Idx -> [Delay -> Operand]] /\ bSkew' \in [Idx -> [Delay -> Operand]]
    BY <1>4, ClearType DEF InitTile, array
  <2> QED
    BY <1>0, <1>4, <2>1, <2>2 DEF InitTile, input, walk, empty, States
<1>5. CASE RequestA
  <2>1. rdataA' \in [Lane -> Operand] /\ dstMem' = dstMem /\ lost' = lost
    BY <1>5, PortType DEF RequestA
  <2>2. ARow \in Nat
    BY RowTypes
  <2>3. rdataB' \in [Lane -> Operand]
    BY <1>5, <2>2, WordType DEF RequestA
  <2> QED
    BY <1>5, <2>1, <2>3 DEF RequestA, input, walk, empty, array, States
<1>6. CASE LatchA
  <2>1. rdataA' \in [Lane -> Operand] /\ dstMem' = dstMem /\ lost' = lost
    BY <1>6, PortType DEF LatchA
  <2>2. aTile' \in [PEs -> Operand]
    <3>1. \A p \in PEs : p[2] % Half \in Lane
      BY DimFacts DEF PEs, Idx, Lane
    <3>2. aTile' = [p \in PEs |->
                      IF p[1] = load.row /\ p[2] \div Half = load.half
                      THEN rdataB[p[2] % Half] ELSE aTile[p]]
      BY <1>6 DEF LatchA
    <3> QED
      BY <3>1, <3>2
  <2>3. load' \in [row : Idx, half : {0, 1}] /\ lane' \in Nat /\ state' \in States
    BY <1>0, <1>6 DEF LatchA, States
  <2> QED
    BY <1>6, <2>1, <2>2, <2>3 DEF LatchA, input, walk, empty, array
<1>7. CASE RequestBLo
  <2>1. BRow \in Nat
    BY RowTypes
  <2>2. rdataA' \in [Lane -> Operand] /\ dstMem' = dstMem /\ lost' \in 0 .. MaxLost
    BY <1>7, <2>1, PortType DEF RequestBLo
  <2> QED
    BY <1>7, <2>2 DEF RequestBLo, input, walk, empty, array, States
<1>8. CASE RequestBHi
  <2>1. BRow + 1 \in Nat
    BY RowTypes
  <2>2. rdataA' \in [Lane -> Operand] /\ dstMem' = dstMem /\ lost' \in 0 .. MaxLost
    BY <1>8, <2>1, PortType DEF RequestBHi
  <2> QED
    BY <1>8, <2>2 DEF RequestBHi, input, walk, empty, array, States
<1>9. ASSUME TileSummed
      PROVE  /\ at' \in [m : Nat, n : Nat, k : Nat] /\ load' \in [row : Idx, half : {0, 1}]
             /\ drain' \in [row : Idx, grp : 0 .. 3] /\ state' \in States
  BY <1>0, <1>9 DEF TileSummed, States
<1>10. CASE Step
  <2>1. rdataA' \in [Lane -> Operand] /\ dstMem' = dstMem /\ lost' = lost
    BY <1>10, PortType DEF Step
  <2>2. lane < Dim
    BY <1>10 DEF Step, WalkInv
  <2>3. /\ acc' \in [PEs -> Sums]
        /\ aOut' \in [PEs -> Operand] /\ bOut' \in [PEs -> Operand]
        /\ aSkew' \in [Idx -> [Delay -> Operand]] /\ bSkew' \in [Idx -> [Delay -> Operand]]
    BY <1>10, <2>2, FedType, PulseType DEF Step
  <2>4. /\ at' \in [m : Nat, n : Nat, k : Nat] /\ load' \in [row : Idx, half : {0, 1}]
        /\ drain' \in [row : Idx, grp : 0 .. 3] /\ state' \in States /\ lane' \in Nat
    BY <1>9, <1>10 DEF Step, States
  <2> QED
    BY <1>10, <2>1, <2>3, <2>4 DEF Step, input
<1>11. CASE Flush
  <2>1. rdataA' \in [Lane -> Operand] /\ dstMem' = dstMem /\ lost' = lost
    BY <1>11, PortType DEF Flush
  <2>3. /\ acc' \in [PEs -> Sums]
        /\ aOut' \in [PEs -> Operand] /\ bOut' \in [PEs -> Operand]
        /\ aSkew' \in [Idx -> [Delay -> Operand]] /\ bSkew' \in [Idx -> [Delay -> Operand]]
    BY <1>11, FedType, PulseType DEF Flush
  <2>4. /\ at' \in [m : Nat, n : Nat, k : Nat] /\ load' \in [row : Idx, half : {0, 1}]
        /\ drain' \in [row : Idx, grp : 0 .. 3] /\ state' \in States /\ lane' \in Nat
    BY <1>9, <1>11 DEF Flush, States
  <2> QED
    BY <1>11, <2>1, <2>3, <2>4 DEF Flush, input
<1>12. CASE DrainPrep
  <2>1. rdataA' \in [Lane -> Operand] /\ dstMem' = dstMem /\ lost' = lost
    BY <1>12, PortType DEF DrainPrep
  <2>2. state' \in States /\ rowAddr' \in Nat
    <3>1. base \in Nat /\ at.n \in Nat
      OBVIOUS
    <3> QED
      BY <1>12, <3>1 DEF DrainPrep, States
  <2>3. UNCHANGED <<input, walk, fill, drain, clearRow, array>>
    BY <1>12 DEF DrainPrep
  <2> QED
    BY <2>1, <2>2, <2>3 DEF input, walk, fill, array
<1>13. CASE Drain
  <2> DEFINE sums == [l \in 0 .. Group - 1 |-> acc[<<drain.row, drain.grp * Group + l>>]]
  <2>1. \A l \in 0 .. Group - 1 : <<drain.row, drain.grp * Group + l>> \in PEs
    <3> TAKE l \in 0 .. Group - 1
    <3>1. drain.row \in Idx /\ drain.grp \in 0 .. 3
      OBVIOUS
    <3>2. drain.grp * Group + l \in Idx
      <4>1. \A g \in 0 .. 3 : g = 0 \/ g = 1 \/ g = 2 \/ g = 3
        OBVIOUS
      <4>2. /\ 0 * Group = 0 /\ 1 * Group = Group
            /\ 2 * Group = Group + Group /\ 3 * Group = Group + Group + Group
        BY DimFacts
      <4>3. drain.grp * Group \in {0, Group, Group + Group, Group + Group + Group}
        BY <3>1, <4>1, <4>2
      <4> QED
        BY <4>3, DimFacts DEF Idx
    <3> QED
      BY <3>1, <3>2 DEF PEs
  <2>2. sums \in [0 .. Group - 1 -> Sums] /\ rowAddr + drain.grp \in Nat
    BY <2>1
  <2>3. WriteA(rowAddr + drain.grp, sums)
    BY <1>13 DEF Drain
  <2> HIDE DEF sums
  <2>4. /\ rdataA' \in [Lane -> Operand] /\ lost' \in 0 .. MaxLost
        /\ dstMem' \in [DstRows -> [0 .. Group - 1 -> Sums \union Seq(Operand)]]
    BY <2>2, <2>3, PortType
  <2>5. /\ at' \in [m : Nat, n : Nat, k : Nat] /\ base' \in Nat /\ state' \in States
        /\ drain' \in [row : Idx, grp : 0 .. 3] /\ rowAddr' \in Nat
    <3>1. job.n * Dim * 4 \in Nat /\ RowStep \in Nat
      BY RowTypes
    <3>2. NextTile => /\ at' \in [m : Nat, n : Nat, k : Nat]
                      /\ base' \in Nat /\ state' \in States
      <4>1. NextTile => state' \in States
        BY DEF NextTile, States
      <4>2. NextTile => base' = base \/ base' = base + job.n * Dim * 4
        BY DEF NextTile
      <4>3. NextTile => at' \in [m : Nat, n : Nat, k : Nat]
        <5>1. at \in [m : Nat, n : Nat, k : Nat]
          OBVIOUS
        <5> HIDE DEF SysTypeOK
        <5>2. [at EXCEPT !.k = 0] \in [m : Nat, n : Nat, k : Nat]
          BY <5>1
        <5>3. [m |-> at.m + 1, n |-> 0, k |-> 0] \in [m : Nat, n : Nat, k : Nat]
          BY <5>1
        <5>4. [at EXCEPT !.n = @ + 1] \in [m : Nat, n : Nat, k : Nat]
          BY <5>1
        <5>5. \A r \in [m : Nat, n : Nat, k : Nat] :
                [r EXCEPT !.k = 0] \in [m : Nat, n : Nat, k : Nat]
          OBVIOUS
        <5>6. [[at EXCEPT !.n = @ + 1] EXCEPT !.k = 0] \in [m : Nat, n : Nat, k : Nat]
          BY <5>4, <5>5
        <5>7. [at EXCEPT !.n = @ + 1, !.k = 0] = [[at EXCEPT !.n = @ + 1] EXCEPT !.k = 0]
          BY <5>1
        <5>8. [at EXCEPT !.n = @ + 1, !.k = 0] \in [m : Nat, n : Nat, k : Nat]
          BY <5>6, <5>7
        <5> QED
          BY <5>2, <5>3, <5>8 DEF NextTile
      <4> QED
        BY <3>1, <4>1, <4>2, <4>3
    <3>3. CASE drain.grp < 3
      BY <1>13, <3>3 DEF Drain, walk
    <3>4. CASE ~(drain.grp < 3) /\ drain.row < Dim - 1
      <4>1. /\ drain' = [row |-> drain.row + 1, grp |-> 0] /\ rowAddr' = rowAddr + RowStep
            /\ UNCHANGED <<state, at, base>>
        BY <1>13, <3>4 DEF Drain, walk
      <4>2. drain.row \in Idx /\ rowAddr \in Nat
        OBVIOUS
      <4>3. drain.row + 1 \in Idx /\ 0 \in 0 .. 3
        BY <1>0, <3>4, <4>2
      <4>4. drain' \in [row : Idx, grp : 0 .. 3] /\ rowAddr' \in Nat
        BY <3>1, <4>1, <4>2, <4>3
      <4> QED
        BY <4>1, <4>4
    <3>5. CASE ~(drain.grp < 3) /\ ~(drain.row < Dim - 1)
      <4>1. drain' = [drain EXCEPT !.grp = 0] /\ NextTile /\ rowAddr' = rowAddr
        BY <1>13, <3>5 DEF Drain
      <4>2. drain \in [row : Idx, grp : 0 .. 3] /\ 0 \in 0 .. 3 /\ rowAddr \in Nat
        OBVIOUS
      <4> HIDE DEF SysTypeOK
      <4>3. drain' \in [row : Idx, grp : 0 .. 3]
        BY <4>1, <4>2
      <4> QED
        BY <3>2, <4>1, <4>2, <4>3
    <3> QED
      BY <3>3, <3>4, <3>5
  <2> QED
    BY <1>13, <2>4, <2>5 DEF Drain, input, fill, array
<1>14. CASE Idle
  <2>1. rdataA' \in [Lane -> Operand] /\ dstMem' = dstMem /\ lost' = lost
    BY <1>14, PortType DEF Idle
  <2> QED
    BY <1>14, <2>1 DEF Idle, input, walk, fill, empty, array
<1>15. CASE UNCHANGED vars
  BY <1>15 DEF vars, input, walk, fill, empty, port, array
<1> QED
  BY <1>1, <1>2, <1>3, <1>4, <1>5, <1>6, <1>7, <1>8, <1>10, <1>11, <1>12, <1>13, <1>14, <1>15
     DEF Next, Work

-----------------------------------------------------------------------------
(* The walk.                                                               *)

\* There is a row to clear.
LEMMA SomeRows ==
  ASSUME SysTypeOK
  PROVE  ClearRows(job) \in Nat /\ 0 < ClearRows(job)
<1>1. \A a, b \in Nat : 0 < a /\ 0 < b => 0 < a * b
  OBVIOUS
<1>2. job.m * job.n \in Nat /\ 0 < job.m * job.n
  BY <1>1, FieldTypes, NatProduct
<1>3. job.m * job.n * Dim \in Nat /\ 0 < job.m * job.n * Dim
  BY <1>1, <1>2, DimFacts, NatProduct
<1> QED
  BY <1>3 DEF ClearRows

\* What the end of a tile of K does to the walk.
LEMMA SummedStep ==
  ASSUME SysTypeOK, WalkInv, TileSummed, UNCHANGED <<job, jobs, base, rowAddr, clearRow>>,
         Feeding
  PROVE  /\ WalkInv'
         /\ at'.m = at.m /\ at'.n = at.n
         /\ \/ state' = "A_REQ" /\ at'.k = at.k + 1 /\ load' = [row |-> 0, half |-> 0]
            \/ state' = "DRAIN_PREP" /\ at'.k = at.k /\ at.k + 1 = job.k
<1>1. /\ at \in [m : Nat, n : Nat, k : Nat] /\ at.k \in Nat /\ job.k \in Nat
  BY FieldTypes DEF SysTypeOK
<1>2. CASE at.k + 1 < job.k
  <2>1. /\ at' = [at EXCEPT !.k = @ + 1] /\ state' = "A_REQ" /\ load' = [row |-> 0, half |-> 0]
    BY <1>2 DEF TileSummed
  <2>2. at'.m = at.m /\ at'.n = at.n /\ at'.k = at.k + 1
    BY <1>1, <2>1
  <2> QED
    BY <1>2, <2>1, <2>2 DEF WalkInv, Feeding
<1>3. CASE ~(at.k + 1 < job.k)
  <2>1. at' = at /\ state' = "DRAIN_PREP" /\ drain' = [row |-> 0, grp |-> 0]
    BY <1>3 DEF TileSummed
  <2>2. at.k + 1 = job.k
    BY <1>1, <1>3 DEF WalkInv
  <2> QED
    BY <2>1, <2>2 DEF WalkInv, Feeding
<1> QED
  BY <1>2, <1>3

\* What the end of a drained tile does to the walk.
LEMMA DrainedStep ==
  ASSUME SysTypeOK, WalkInv, state = "DRAIN", NextTile,
         UNCHANGED <<job, jobs, rowAddr, clearRow>>
  PROVE  /\ WalkInv'
         /\ at'.k = 0
         /\ \/ state' = "INIT_TILE" /\ at'.m = at.m /\ at'.n = at.n + 1
            \/ state' = "INIT_TILE" /\ at'.m = at.m + 1 /\ at'.n = 0 /\ at.n + 1 = job.n
            \/ state' = "IDLE" /\ at.m + 1 = job.m /\ at.n + 1 = job.n
<1>1. /\ at \in [m : Nat, n : Nat, k : Nat] /\ at.m \in Nat /\ at.n \in Nat
      /\ job.m \in Nat /\ job.n \in Nat /\ job.k \in Nat /\ 0 < job.k /\ 0 < job.n
      /\ at.m < job.m /\ at.n < job.n /\ base \in Nat /\ job.dst \in Nat
      /\ job \in Jobs /\ jobs > 0 /\ base = job.dst + at.m * (job.n * Dim * 4)
  BY FieldTypes DEF SysTypeOK, WalkInv
<1>2. CASE at.n + 1 < job.n
  <2>1. at' = [at EXCEPT !.n = @ + 1, !.k = 0] /\ state' = "INIT_TILE" /\ base' = base
    BY <1>2 DEF NextTile
  <2>2. at'.m = at.m /\ at'.n = at.n + 1 /\ at'.k = 0
    BY <1>1, <2>1
  <2> QED
    BY <1>1, <1>2, <2>1, <2>2 DEF WalkInv
<1>3. CASE ~(at.n + 1 < job.n) /\ at.m + 1 < job.m
  <2>1. /\ at' = [m |-> at.m + 1, n |-> 0, k |-> 0] /\ state' = "INIT_TILE"
        /\ base' = base + job.n * Dim * 4
    BY <1>3 DEF NextTile
  <2>2. at'.m = at.m + 1 /\ at'.n = 0 /\ at'.k = 0
    BY <2>1
  <2>3. base' = job.dst + (at.m + 1) * (job.n * Dim * 4)
    <3> DEFINE x == job.n * Dim * 4
    <3>1. x \in Nat
      BY RowTypes
    <3>2. base = job.dst + at.m * x /\ base' = base + x
      BY <1>1, <2>1
    <3> HIDE DEF x
    <3>3. base' = job.dst + (at.m + 1) * x
      BY <1>1, <3>1, <3>2
    <3> QED
      BY <3>3 DEF x
  <2> QED
    BY <1>1, <1>3, <2>1, <2>2, <2>3 DEF WalkInv
<1>4. CASE ~(at.n + 1 < job.n) /\ ~(at.m + 1 < job.m)
  <2>1. at' = [at EXCEPT !.k = 0] /\ state' = "IDLE" /\ base' = base
    BY <1>4 DEF NextTile
  <2>2. at'.m = at.m /\ at'.n = at.n /\ at'.k = 0
    BY <1>1, <2>1
  <2>3. at.m + 1 = job.m /\ at.n + 1 = job.n
    BY <1>1, <1>4
  <2> QED
    BY <1>1, <2>1, <2>2, <2>3 DEF WalkInv
<1> QED
  BY <1>2, <1>3, <1>4

\* The row that is drained after this one lies one row of the result further.
LEMMA NextRow ==
  ASSUME SysTypeOK, NEW a \in Nat, rowAddr = a + drain.row * RowStep
  PROVE  rowAddr + RowStep = a + (drain.row + 1) * RowStep
<1>1. \A b, r, x \in Nat : b + r * x + x = b + (r + 1) * x
  OBVIOUS
<1> QED
  BY <1>1, FieldTypes, RowTypes

\* The walk stays within the tiles of the job.
LEMMA WalkStep ==
  ASSUME SysTypeOK, WalkInv, [Next]_vars
  PROVE  WalkInv'
<1>1. CASE Dispatch
  <2>1. PICK j \in Jobs : /\ job' = j /\ base' = j.dst /\ rowAddr' = j.dst
                          /\ state' = IF ~j.accumulate /\ j.toAccum THEN "CLEAR_PREP"
                                      ELSE "INIT_TILE"
    BY <1>1 DEF Dispatch
  <2>2. j \in Job /\ j.dst \in Nat /\ 0 < j.m /\ 0 < j.n /\ 0 < j.k
        /\ j.n * Dim * 4 \in Nat
    BY JobAssumption, DimFacts, NatProduct DEF Job
  <2>3. at'.m = 0 /\ at'.n = 0 /\ at'.k = 0 /\ jobs' > 0
    BY <1>1 DEF Dispatch, SysTypeOK
  <2>4. base' = j.dst + at'.m * (j.n * Dim * 4)
    BY <2>1, <2>2, <2>3
  <2> QED
    BY <2>1, <2>2, <2>3, <2>4 DEF WalkInv
<1>2. CASE ClearPrep
  BY <1>2, SomeRows DEF ClearPrep, input, walk, fill, empty, WalkInv, RowStep, ClearRows
<1>3. CASE ClearDst
  <2>1. clearRow \in Nat /\ ClearRows(job) \in Nat
    BY SomeRows DEF SysTypeOK
  <2> QED
    BY <1>3, <2>1 DEF ClearDst, input, walk, fill, empty, WalkInv, ClearRows
<1>4. CASE InitTile
  BY <1>4 DEF InitTile, input, walk, empty, WalkInv
<1>5. CASE RequestA
  BY <1>5 DEF RequestA, input, walk, empty, WalkInv
<1>6. CASE LatchA
  <2>1. state' = "A_REQ" \/ (state' = "B_LO" /\ lane' = 0)
    BY <1>6 DEF LatchA
  <2> QED
    BY <1>6, <2>1, DimFacts DEF LatchA, input, walk, empty, WalkInv
<1>7. CASE RequestBLo
  BY <1>7 DEF RequestBLo, input, walk, empty, WalkInv
<1>8. CASE RequestBHi
  BY <1>8 DEF RequestBHi, input, walk, empty, WalkInv
<1>9. CASE Step
  <2>1. UNCHANGED <<job, jobs, base, rowAddr, clearRow>> /\ Feeding /\ chained' = chained
    BY <1>9 DEF Step, input, Feeding
  <2>2. CASE TileSummed
    BY <2>1, <2>2, SummedStep
  <2>3. CASE ~TileSummed
    <3>1. UNCHANGED <<at, load, drain>> /\ lane < Dim /\ lane \in Nat
          /\ \/ lane < Dim - 1 /\ lane' = lane + 1 /\ state' = "B_LO"
             \/ ~(lane < Dim - 1) /\ chained /\ lane' = lane + 1 /\ state' = "FLUSH"
      BY <1>9, <2>3 DEF Step, WalkInv, SysTypeOK
    <3> QED
      BY <1>9, <2>1, <3>1, DimFacts DEF Step, WalkInv, ChainSteps
  <2> QED
    BY <2>2, <2>3
<1>10. CASE Flush
  <2>1. UNCHANGED <<job, jobs, base, rowAddr, clearRow>> /\ Feeding /\ chained' = chained
    BY <1>10 DEF Flush, input, Feeding
  <2>2. CASE TileSummed
    BY <2>1, <2>2, SummedStep
  <2>3. CASE ~TileSummed
    <3>1. lane # ChainSteps - 1 /\ lane' = lane + 1 /\ UNCHANGED <<state, at, load, drain>>
      BY <1>10, <2>3 DEF Flush
    <3>2. lane \in Nat /\ lane < ChainSteps /\ Dim <= lane /\ ChainSteps \in Nat
      BY <1>10, FieldTypes, DimFacts DEF Flush, WalkInv, ChainSteps
    <3> QED
      BY <1>10, <2>1, <3>1, <3>2, DimFacts DEF Flush, WalkInv, ChainSteps
  <2> QED
    BY <2>2, <2>3
<1>11. CASE DrainPrep
  <2>1. drain.row * RowStep = 0 /\ base \in Nat /\ at.n \in Nat
    <3>1. drain.row = 0 /\ RowStep \in Nat
      BY <1>11, RowTypes DEF DrainPrep, WalkInv
    <3>2. drain.row * RowStep = 0
      BY <3>1
    <3> QED
      BY <3>2, FieldTypes DEF SysTypeOK
  <2>2. /\ state' = "DRAIN" /\ rowAddr' = base + 4 * at.n
        /\ UNCHANGED <<job, jobs, at, base, drain, chained, lane>>
    BY <1>11 DEF DrainPrep, input, walk, fill
  <2>3. rowAddr' = base + 4 * at.n + drain.row * RowStep
    BY <2>1, <2>2
  <2> QED
    BY <1>11, <2>2, <2>3 DEF DrainPrep, WalkInv, RowStep
<1>12. CASE Drain
  <2>1. /\ state = "DRAIN" /\ UNCHANGED <<job, jobs, clearRow, chained, lane>>
    BY <1>12 DEF Drain, input, fill
  <2>2. CASE NextTile /\ rowAddr' = rowAddr
    BY <2>1, <2>2, DrainedStep
  <2>3. CASE drain.grp < 3
    <3>1. drain' = [drain EXCEPT !.grp = @ + 1] /\ UNCHANGED <<state, at, base, rowAddr>>
      BY <1>12, <2>3 DEF Drain, walk
    <3>2. drain'.row = drain.row
      BY <3>1 DEF SysTypeOK
    <3>3. rowAddr = base + 4 * at.n + drain.row * RowStep
      BY <2>1 DEF WalkInv
    <3>4. rowAddr' = base' + 4 * at'.n + drain'.row * RowStep'
      BY <2>1, <3>1, <3>2, <3>3 DEF RowStep
    <3>5. UNCHANGED <<job, at, base, state>>
      BY <2>1, <3>1
    <3> QED
      BY <2>1, <3>4, <3>5 DEF WalkInv, RowStep
  <2>4. CASE ~(drain.grp < 3) /\ drain.row < Dim - 1
    <3>1. /\ drain' = [row |-> drain.row + 1, grp |-> 0] /\ rowAddr' = rowAddr + RowStep
          /\ UNCHANGED <<state, at, base>>
      BY <1>12, <2>4 DEF Drain, walk
    <3>2. base + 4 * at.n \in Nat /\ rowAddr = base + 4 * at.n + drain.row * RowStep
      <4>1. base \in Nat
        BY DEF SysTypeOK
      <4>2. rowAddr = base + 4 * at.n + drain.row * RowStep
        BY <2>1 DEF WalkInv
      <4> QED
        BY <4>1, <4>2, FieldTypes
    <3>3. rowAddr' = base + 4 * at.n + (drain.row + 1) * RowStep
      BY <3>1, <3>2, NextRow
    <3> QED
      BY <2>1, <3>1, <3>3 DEF WalkInv, RowStep
  <2> QED
    BY <1>12, <2>2, <2>3, <2>4 DEF Drain
<1>13. CASE Idle
  BY <1>13 DEF Idle, input, walk, fill, empty, WalkInv
<1>14. CASE UNCHANGED vars
  BY <1>14 DEF vars, input, walk, fill, empty, WalkInv, RowStep
<1> QED
  BY <1>1, <1>2, <1>3, <1>4, <1>5, <1>6, <1>7, <1>8, <1>9, <1>10, <1>11, <1>12, <1>13, <1>14
     DEF Next, Work

-----------------------------------------------------------------------------
(* Places in the result.                                                   *)

\* Rows of y places, x of them.
LEMMA Block ==
  ASSUME NEW x \in Nat, NEW y \in Nat, NEW a \in Nat, NEW b \in Nat, a < x, b < y
  PROVE  a * y + b \in Nat /\ a * y + b < x * y
<1>1. PICK d \in Nat : x = a + 1 + d
  <2>1. x - a - 1 \in Nat /\ x = a + 1 + (x - a - 1)
    OBVIOUS
  <2> QED
    BY <2>1
<1>2. x * y = a * y + y + d * y
  BY <1>1
<1>3. d * y \in Nat /\ a * y \in Nat
  BY NatProduct
<1> QED
  BY <1>2, <1>3

\* A place is in one row and at one position of it.
LEMMA BlockUnique ==
  ASSUME NEW y \in Nat, NEW a \in Nat, NEW b \in Nat, NEW c \in Nat, NEW d \in Nat,
         b < y, d < y, a * y + b = c * y + d
  PROVE  a = c /\ b = d
<1>1. a * y \in Nat /\ c * y \in Nat
  BY NatProduct
<1>2. ~(a < c)
  <2> SUFFICES ASSUME a < c PROVE FALSE
    OBVIOUS
  <2>1. a * y + b < c * y
    BY Block
  <2> QED
    BY <1>1, <2>1
<1>3. ~(c < a)
  <2> SUFFICES ASSUME c < a PROVE FALSE
    OBVIOUS
  <2>1. c * y + d < a * y
    BY Block
  <2> QED
    BY <1>1, <2>1
<1>4. a = c
  BY <1>2, <1>3
<1> QED
  BY <1>1, <1>4

\* A group of the result lies in the rows of the result.
LEMMA AddressInside ==
  ASSUME SysTypeOK,
         NEW mt \in 0 .. job.m - 1, NEW nt \in 0 .. job.n - 1, NEW r \in Idx, NEW g \in 0 .. 3
  PROVE  Address(mt, nt, r, g) \in job.dst .. job.dst + ClearRows(job) - 1
<1>1. /\ job.m \in Nat /\ job.n \in Nat /\ job.dst \in Nat /\ Dim \in Nat /\ mt \in Nat
      /\ nt \in Nat /\ r \in Nat /\ g \in Nat /\ mt < job.m /\ r < Dim /\ nt < job.n /\ g < 4
  BY FieldTypes, DimFacts DEF Idx
<1>2. mt * Dim + r \in Nat /\ mt * Dim + r < job.m * Dim
  BY <1>1, Block
<1>3. 4 * nt + g \in Nat /\ 4 * nt + g < 4 * job.n
  BY <1>1
<1> DEFINE a == mt * Dim + r
           b == 4 * nt + g
           x == job.m * Dim
           y == 4 * job.n
<1>4. a \in Nat /\ b \in Nat /\ x \in Nat /\ y \in Nat /\ a < x /\ b < y
  BY <1>1, <1>2, <1>3, NatProduct
<1>5. a * y + b \in Nat /\ a * y + b < x * y
  <2> HIDE DEF a, b, x, y
  <2> QED
    BY <1>4, Block
<1>6. x * y = ClearRows(job)
  BY <1>1 DEF ClearRows
<1>7. Address(mt, nt, r, g) = job.dst + (a * y + b)
  <2>1. Address(mt, nt, r, g) = job.dst + a * y + b
    BY DEF Address
  <2>2. a * y \in Nat
    BY <1>4, NatProduct
  <2> HIDE DEF a, b, y
  <2> QED
    BY <1>1, <1>4, <2>1, <2>2
<1> HIDE DEF a, b, x, y
<1> QED
  BY <1>1, <1>5, <1>6, <1>7, SomeRows

\* No two groups of the result share a row.
LEMMA AddressUnique ==
  ASSUME SysTypeOK,
         NEW mt \in 0 .. job.m - 1, NEW nt \in 0 .. job.n - 1, NEW r \in Idx, NEW g \in 0 .. 3,
         NEW mu \in 0 .. job.m - 1, NEW nu \in 0 .. job.n - 1, NEW s \in Idx, NEW h \in 0 .. 3,
         Address(mt, nt, r, g) = Address(mu, nu, s, h)
  PROVE  mt = mu /\ nt = nu /\ r = s /\ g = h
<1>1. /\ job.m \in Nat /\ job.n \in Nat /\ job.dst \in Nat /\ Dim \in Nat
      /\ mt \in Nat /\ nt \in Nat /\ r \in Nat /\ g \in Nat /\ r < Dim /\ nt < job.n /\ g < 4
      /\ mu \in Nat /\ nu \in Nat /\ s \in Nat /\ h \in Nat /\ s < Dim /\ nu < job.n /\ h < 4
  BY FieldTypes, DimFacts DEF Idx
<1> DEFINE a == mt * Dim + r
           b == 4 * nt + g
           c == mu * Dim + s
           d == 4 * nu + h
           y == 4 * job.n
<1>2. /\ a \in Nat /\ b \in Nat /\ c \in Nat /\ d \in Nat /\ y \in Nat /\ b < y /\ d < y
  BY <1>1, NatProduct
<1>3. a * y + b = c * y + d
  <2>1. job.dst + a * y + b = job.dst + c * y + d
    BY DEF Address
  <2>2. a * y \in Nat /\ c * y \in Nat
    BY <1>2, NatProduct
  <2> HIDE DEF a, b, c, d, y
  <2> QED
    BY <1>1, <1>2, <2>1, <2>2
<1>4. a = c /\ b = d
  <2> HIDE DEF a, b, c, d, y
  <2> QED
    BY <1>2, <1>3, BlockUnique
<1>5. mt = mu /\ r = s
  BY <1>1, <1>4, BlockUnique
<1> QED
  BY <1>1, <1>4, <1>5

\* The row that is drained is that of its group.
LEMMA DrainAddress ==
  ASSUME SysTypeOK, WalkInv, state = "DRAIN"
  PROVE  rowAddr + drain.grp = Address(at.m, at.n, drain.row, drain.grp)
<1>1. /\ job.n \in Nat /\ job.dst \in Nat /\ Dim \in Nat /\ at.m \in Nat /\ at.n \in Nat
      /\ drain.row \in Nat /\ drain.grp \in Nat
  BY FieldTypes, DimFacts
<1>2. rowAddr = job.dst + at.m * (job.n * Dim * 4) + 4 * at.n + drain.row * (4 * job.n)
  BY DEF WalkInv, RowStep
<1>3. /\ \A m, n, d \in Nat : m * (n * d * 4) = (m * d) * (4 * n)
      /\ \A x, r, y \in Nat : (x + r) * y = x * y + r * y
  OBVIOUS
<1>4. /\ at.m * (job.n * Dim * 4) = (at.m * Dim) * (4 * job.n)
      /\ (at.m * Dim + drain.row) * (4 * job.n)
           = (at.m * Dim) * (4 * job.n) + drain.row * (4 * job.n)
  <2>1. at.m * Dim \in Nat /\ 4 * job.n \in Nat
    BY <1>1, NatProduct
  <2> QED
    BY <1>1, <1>3, <2>1
<1>5. (at.m * Dim) * (4 * job.n) \in Nat /\ drain.row * (4 * job.n) \in Nat
  BY <1>1, NatProduct
<1> QED
  BY <1>1, <1>2, <1>3, <1>4, <1>5 DEF Address

\* The group that is drained is one of the result.
LEMMA CurrentGroup ==
  ASSUME SysTypeOK, WalkInv, state = "DRAIN"
  PROVE  /\ at.m \in 0 .. job.m - 1 /\ at.n \in 0 .. job.n - 1 /\ drain.row \in Idx
         /\ drain.grp \in 0 .. 3 /\ job \in Jobs
<1>1. at.m \in 0 .. job.m - 1 /\ at.n \in 0 .. job.n - 1
  BY FieldTypes DEF WalkInv
<1>2. drain.row \in Idx /\ drain.grp \in 0 .. 3
  BY DEF SysTypeOK
<1> QED
  BY <1>1, <1>2 DEF WalkInv

\* A write to one row of the destination leaves the others.
LEMMA OtherRows ==
  ASSUME SysTypeOK, NEW a, NEW sums, WriteA(a, sums), NEW row \in DstRows, row # a
  PROVE  dstMem'[row] = dstMem[row]
BY DEF WriteA, SysTypeOK

\* Only the clearing and the drain write.
LEMMA Writers ==
  ASSUME [Next]_vars
  PROVE  dstMem' = dstMem \/ ClearDst \/ Drain
BY DEF Next, Work, Dispatch, ClearPrep, InitTile, RequestA, LatchA, RequestBLo, RequestBHi,
       Step, Flush, DrainPrep, Idle, PortFree, ReadA, vars, port

\* Every step leaves the rows outside the result.
LEMMA DestinationStep ==
  ASSUME SysTypeOK, WalkInv, [Next]_vars,
         NEW row \in DstRows \ (job.dst .. job.dst + ClearRows(job) - 1)
  PROVE  dstMem'[row] = dstMem[row]
<1>1. CASE ClearDst
  <2>1. clearRow \in Nat /\ clearRow < ClearRows(job) /\ job.dst \in Nat /\ ClearRows(job) \in Nat
    BY <1>1, FieldTypes, SomeRows DEF ClearDst, WalkInv, SysTypeOK
  <2>2. job.dst + clearRow \in job.dst .. job.dst + ClearRows(job) - 1
    BY <2>1
  <2>3. row # job.dst + clearRow
    BY <2>2
  <2> QED
    BY <1>1, <2>3, OtherRows DEF ClearDst
<1>2. CASE Drain
  <2>1. state = "DRAIN"
    BY <1>2 DEF Drain
  <2>2. /\ at.m \in 0 .. job.m - 1 /\ at.n \in 0 .. job.n - 1 /\ drain.row \in Idx
        /\ drain.grp \in 0 .. 3
    BY <2>1, CurrentGroup
  <2>3. rowAddr + drain.grp \in job.dst .. job.dst + ClearRows(job) - 1
    BY <2>1, <2>2, DrainAddress, AddressInside
  <2>4. row # rowAddr + drain.grp
    BY <2>3
  <2> QED
    BY <1>2, <2>4, OtherRows DEF Drain
<1> QED
  BY <1>1, <1>2, Writers

-----------------------------------------------------------------------------
(* The operands.                                                           *)

\* The row of A asked for holds half a line of the tile.
LEMMA AWord ==
  ASSUME SysTypeOK, NEW l \in Lane
  PROVE  Word("src1", ARow)[l] = AElem(load.row, load.half * Half + l)
<1>1. Word("src1", ARow)[l] = <<"src1", ARow * Half + l>>
  BY DEF Word, Lane
<1> DEFINE x == at.m * Dim + load.row
<1>2. /\ x \in Nat /\ job.k \in Nat /\ job.src1 \in Nat /\ at.k \in Nat /\ load.half \in Nat
      /\ Half \in Nat /\ l \in Nat /\ Dim = 2 * Half
  BY FieldTypes, DimFacts, NatProduct DEF Lane
<1>3. ARow = job.src1 + x * (2 * job.k) + 2 * at.k + load.half
  BY DEF ARow
<1>4. AElem(load.row, load.half * Half + l)
        = <<"src1", job.src1 * Half + x * (job.k * Dim) + (at.k * Dim + (load.half * Half + l))>>
  BY DEF AElem
<1> HIDE DEF x
<1>5. \A s, y, k, t, h, d \in Nat :
        (s + y * (2 * k) + 2 * t + h) * d = s * d + y * (k * (2 * d)) + (t * (2 * d) + h * d)
  OBVIOUS
<1>6. ARow * Half = job.src1 * Half + x * (job.k * Dim) + (at.k * Dim + load.half * Half)
  BY <1>2, <1>3, <1>5
<1>7. /\ job.src1 * Half \in Nat /\ x * (job.k * Dim) \in Nat /\ at.k * Dim \in Nat
      /\ load.half * Half \in Nat
  <2>1. job.k * Dim \in Nat
    BY <1>2, NatProduct
  <2> QED
    BY <1>2, <2>1, DimFacts, NatProduct
<1>8. ARow * Half + l
        = job.src1 * Half + x * (job.k * Dim) + (at.k * Dim + (load.half * Half + l))
  BY <1>2, <1>6, <1>7
<1> QED
  BY <1>1, <1>4, <1>8

\* The two rows of B asked for hold a line of the tile.
LEMMA BWord ==
  ASSUME SysTypeOK, NEW l \in Lane
  PROVE  /\ Word("src2", BRow)[l] = BElem(lane, l)
         /\ Word("src2", BRow + 1)[l] = BElem(lane, Half + l)
<1>1. /\ Word("src2", BRow)[l] = <<"src2", BRow * Half + l>>
      /\ Word("src2", BRow + 1)[l] = <<"src2", (BRow + 1) * Half + l>>
  BY DEF Word, Lane
<1> DEFINE x == at.k * Dim + lane
<1>2. /\ x \in Nat /\ job.n \in Nat /\ job.src2 \in Nat /\ at.n \in Nat
      /\ Half \in Nat /\ l \in Nat /\ Dim = 2 * Half
  BY FieldTypes, DimFacts, NatProduct DEF Lane
<1>3. BRow = job.src2 + x * (2 * job.n) + 2 * at.n
  BY DEF BRow
<1>4. /\ BElem(lane, l) = <<"src2", job.src2 * Half + x * (job.n * Dim) + (at.n * Dim + l)>>
      /\ BElem(lane, Half + l)
           = <<"src2", job.src2 * Half + x * (job.n * Dim) + (at.n * Dim + (Half + l))>>
  BY DEF BElem
<1> HIDE DEF x
<1>5. \A s, y, n, t, d \in Nat :
        /\ (s + y * (2 * n) + 2 * t) * d = s * d + y * (n * (2 * d)) + t * (2 * d)
        /\ (s + y * (2 * n) + 2 * t + 1) * d = s * d + y * (n * (2 * d)) + t * (2 * d) + d
  OBVIOUS
<1>6. /\ BRow * Half = job.src2 * Half + x * (job.n * Dim) + at.n * Dim
      /\ (BRow + 1) * Half = job.src2 * Half + x * (job.n * Dim) + at.n * Dim + Half
  BY <1>2, <1>3, <1>5
<1>7. job.src2 * Half \in Nat /\ x * (job.n * Dim) \in Nat /\ at.n * Dim \in Nat
  <2>1. job.n * Dim \in Nat
    BY <1>2, NatProduct
  <2> QED
    BY <1>2, <2>1, DimFacts, NatProduct
<1>8. /\ BRow * Half + l = job.src2 * Half + x * (job.n * Dim) + (at.n * Dim + l)
      /\ (BRow + 1) * Half + l
           = job.src2 * Half + x * (job.n * Dim) + (at.n * Dim + (Half + l))
  BY <1>2, <1>6, <1>7
<1> QED
  BY <1>1, <1>4, <1>8

\* The elements of a tile stay the same until the walk moves on.
LEMMA SameElements ==
  ASSUME job' = job, at' = at
  PROVE  \A r, s : AElem(r, s)' = AElem(r, s) /\ BElem(r, s)' = BElem(r, s)
BY DEF AElem, BElem

\* The scratch registers take the half line that was asked for.
LEMMA LatchStep ==
  ASSUME SysTypeOK, OperandInv, LatchA
  PROVE  OperandInv'
<1>1. /\ state = "A_LATCH" /\ UNCHANGED <<job, at>>
      /\ aTile' = [p \in PEs |->
                     IF p[1] = load.row /\ p[2] \div Half = load.half
                     THEN rdataB[p[2] % Half] ELSE aTile[p]]
  BY DEF LatchA, input, walk
<1>2. state' # "A_LATCH" /\ state' # "B_HI" /\ state' # "STEP"
  BY DEF LatchA
<1>3. /\ \A p \in PEs : Loaded(p) => aTile[p] = AElem(p[1], p[2])
      /\ \A l \in Lane : rdataB[l] = AElem(load.row, load.half * Half + l)
  BY <1>1 DEF OperandInv
<1>4. /\ load.row \in Nat /\ load.row < Dim /\ load.half \in {0, 1} /\ Half \in Nat
  BY FieldTypes, DimFacts
<1>5. ASSUME NEW p \in PEs, Loaded(p)'
      PROVE  aTile'[p] = AElem(p[1], p[2])
  <2>1. p[1] \in Idx /\ p[2] \in Idx
    BY DEF PEs
  <2>2. /\ p[2] \in Nat /\ p[1] \in Nat /\ p[1] < Dim
        /\ p[2] < Half => p[2] \div Half = 0 /\ p[2] % Half = p[2]
        /\ Half <= p[2] => p[2] \div Half = 1 /\ p[2] % Half = p[2] - Half
        /\ p[2] < 2 * Half
    BY <2>1, Halves, DimFacts DEF Idx
  <2>3. CASE p[1] = load.row /\ p[2] \div Half = load.half
    <3> DEFINE o == p[2] % Half
    <3>1. aTile'[p] = rdataB[o]
      BY <1>1, <2>3
    <3>2. \/ load.half = 0 /\ o = p[2] /\ p[2] < Half
          \/ load.half = 1 /\ o = p[2] - Half /\ Half <= p[2]
      BY <1>4, <2>2, <2>3
    <3> HIDE DEF o
    <3>3. o \in Lane /\ load.half * Half + o = p[2]
      <4>1. o \in Lane
        BY <1>4, <2>2, <3>2 DEF Lane
      <4>2. 0 * Half = 0 /\ 1 * Half = Half
        BY <1>4
      <4>3. CASE load.half = 0
        <5>1. load.half * Half = 0 /\ o = p[2] /\ o \in Nat
          BY <2>2, <3>2, <4>2, <4>3
        <5> QED
          BY <4>1, <5>1
      <4>4. CASE load.half = 1
        <5>1. load.half * Half = Half /\ o = p[2] - Half
          BY <3>2, <4>2, <4>4
        <5> QED
          BY <1>4, <2>2, <4>1, <5>1
      <4> QED
        BY <1>4, <4>1, <4>3, <4>4
    <3>4. rdataB[o] = AElem(load.row, load.half * Half + o)
      BY <1>3, <3>3
    <3> QED
      BY <2>3, <3>1, <3>3, <3>4
  <2>4. CASE ~(p[1] = load.row /\ p[2] \div Half = load.half)
    <3>1. aTile'[p] = aTile[p]
      BY <1>1, <2>4
    <3>2. Loaded(p)
      <4>1. CASE load.half = 0
        <5>1. state' = "A_REQ" /\ load' = [load EXCEPT !.half = 1]
          BY <4>1 DEF LatchA
        <5>2. load'.row = load.row /\ load'.half = 1
          BY <5>1 DEF SysTypeOK
        <5>3. p[1] < load.row \/ (p[1] = load.row /\ p[2] < Half)
          BY <1>5, <5>1, <5>2 DEF Loaded, Feeding
        <5> QED
          BY <1>1, <1>4, <2>2, <2>4, <4>1, <5>3 DEF Loaded
      <4>2. CASE load.half = 1 /\ load.row < Dim - 1
        <5>1. state' = "A_REQ" /\ load' = [row |-> load.row + 1, half |-> 0]
          BY <4>2 DEF LatchA
        <5>2. p[1] < load.row + 1
          BY <1>5, <5>1 DEF Loaded, Feeding
        <5> QED
          BY <1>1, <1>4, <2>2, <2>4, <4>2, <5>2 DEF Loaded
      <4>3. CASE load.half = 1 /\ ~(load.row < Dim - 1)
        <5>1. load.row = Dim - 1
          BY <1>4, <4>3, DimFacts
        <5> QED
          BY <1>1, <1>4, <2>2, <2>4, <4>3, <5>1, DimFacts DEF Loaded
      <4> QED
        BY <1>4, <4>1, <4>2, <4>3
    <3> QED
      BY <1>3, <3>1, <3>2
  <2> QED
    BY <2>3, <2>4
<1>6. \A p \in PEs : Loaded(p)' => aTile'[p] = AElem(p[1], p[2])'
  BY <1>1, <1>5, SameElements
<1> QED
  BY <1>2, <1>6 DEF OperandInv

\* A step that leaves the operands and the walk alone.
LEMMA OperandsHeld ==
  ASSUME OperandInv, UNCHANGED <<job, at, aTile>>,
         \A p \in PEs : Loaded(p)' => Loaded(p)
  PROVE  \A p \in PEs : Loaded(p)' => aTile'[p] = AElem(p[1], p[2])'
BY SameElements DEF OperandInv

\* The operands stay what they are taken for, if no access is lost.
LEMMA OperandStep ==
  ASSUME MaxLost = 0, SysTypeOK, WalkInv, OperandInv, [Next]_vars
  PROVE  OperandInv'
<1>0. lost = 0 /\ (Loses => lost' = lost)
  BY DEF SysTypeOK, Loses
<1>1. CASE state' \in {"IDLE", "CLEAR_PREP", "CLEAR", "INIT_TILE", "DRAIN_PREP", "DRAIN"}
  BY <1>1 DEF OperandInv, Loaded, Feeding
<1>2. ASSUME state' = "A_REQ", load' = [row |-> 0, half |-> 0]
      PROVE  OperandInv'
  <2>1. \A p \in PEs : ~Loaded(p)'
    BY <1>2, DimFacts DEF Loaded, Feeding, PEs, Idx
  <2> QED
    BY <1>2, <2>1 DEF OperandInv
<1>3. CASE InitTile
  BY <1>2, <1>3 DEF InitTile
<1>4. CASE RequestA
  <2>1. /\ state' = "A_LATCH" /\ UNCHANGED <<job, at, aTile, load>> /\ state = "A_REQ"
        /\ rdataB' = Word("src1", ARow)
    BY <1>4 DEF RequestA, input, walk
  <2>2. \A p \in PEs : Loaded(p)' => aTile'[p] = AElem(p[1], p[2])'
    <3>1. \A p \in PEs : Loaded(p)' => Loaded(p)
      BY <2>1 DEF Loaded, Feeding
    <3> QED
      BY <2>1, <3>1, OperandsHeld
  <2>3. \A l \in Lane : rdataB'[l] = AElem(load.row, load.half * Half + l)
    BY <2>1, AWord
  <2>4. \A l \in Lane : rdataB'[l] = AElem(load.row, load.half * Half + l)'
    BY <2>1, <2>3, SameElements DEF AElem
  <2> QED
    BY <2>1, <2>2, <2>4 DEF OperandInv
<1>5. CASE LatchA
  BY <1>5, LatchStep
<1>6. CASE RequestBLo
  <2>1. /\ state' = "B_HI" /\ UNCHANGED <<job, at, aTile, lane>> /\ state = "B_LO"
        /\ rdataA' = Word("src2", BRow)
    BY <1>0, <1>6 DEF RequestBLo, ReadA, input, walk
  <2>2. \A p \in PEs : Loaded(p)' => aTile'[p] = AElem(p[1], p[2])'
    <3>1. \A p \in PEs : Loaded(p)' => Loaded(p)
      BY <2>1 DEF Loaded, Feeding
    <3> QED
      BY <2>1, <3>1, OperandsHeld
  <2>3. \A l \in Lane : rdataA'[l] = BElem(lane, l)
    BY <2>1, BWord
  <2>4. \A l \in Lane : rdataA'[l] = BElem(lane, l)'
    BY <2>1, <2>3 DEF BElem
  <2> QED
    BY <2>1, <2>2, <2>4 DEF OperandInv
<1>7. CASE RequestBHi
  <2>1. /\ state' = "STEP" /\ UNCHANGED <<job, at, aTile, lane>> /\ state = "B_HI"
        /\ rdataA' = Word("src2", BRow + 1) /\ bLo' = rdataA
    BY <1>0, <1>7 DEF RequestBHi, ReadA, input, walk
  <2>2. \A p \in PEs : Loaded(p)' => aTile'[p] = AElem(p[1], p[2])'
    <3>1. \A p \in PEs : Loaded(p)' => Loaded(p)
      BY <2>1 DEF Loaded, Feeding
    <3> QED
      BY <2>1, <3>1, OperandsHeld
  <2>3. \A l \in Lane : bLo'[l] = BElem(lane, l) /\ rdataA'[l] = BElem(lane, Half + l)
    BY <2>1, BWord DEF OperandInv
  <2>4. \A l \in Lane : bLo'[l] = BElem(lane, l)' /\ rdataA'[l] = BElem(lane, Half + l)'
    BY <2>1, <2>3 DEF BElem
  <2> QED
    BY <2>1, <2>2, <2>4 DEF OperandInv
<1>8. ASSUME TileSummed
      PROVE  OperandInv'
  <2>1. \/ state' = "A_REQ" /\ load' = [row |-> 0, half |-> 0]
        \/ state' = "DRAIN_PREP"
    BY <1>8 DEF TileSummed
  <2> QED
    BY <1>1, <1>2, <2>1
<1>9. ASSUME Feeding, state' \in {"B_LO", "FLUSH"}, UNCHANGED <<job, at, aTile>>
      PROVE  OperandInv'
  <2>1. \A p \in PEs : Loaded(p)' => aTile'[p] = AElem(p[1], p[2])'
    BY <1>9, OperandsHeld DEF Loaded
  <2> QED
    BY <1>9, <2>1 DEF OperandInv
<1>10. CASE Step
  BY <1>8, <1>9, <1>10 DEF Step, input, Feeding
<1>11. CASE Flush
  <2>1. CASE TileSummed
    BY <1>8, <2>1
  <2>2. CASE ~TileSummed
    BY <1>9, <1>11, <2>2 DEF Flush, input, Feeding
  <2> QED
    BY <2>1, <2>2
<1>12. CASE Dispatch \/ ClearPrep \/ ClearDst \/ DrainPrep \/ Drain \/ Idle
  <2>1. Drain => state' \in {"DRAIN", "INIT_TILE", "IDLE"}
    BY DEF Drain, NextTile
  <2>2. state' \in {"IDLE", "CLEAR_PREP", "CLEAR", "INIT_TILE", "DRAIN_PREP", "DRAIN"}
    BY <1>12, <2>1 DEF Dispatch, ClearPrep, ClearDst, DrainPrep, Idle
  <2> QED
    BY <1>1, <2>2
<1>13. CASE UNCHANGED vars
  <2>1. UNCHANGED <<job, at, aTile, state, load, lane, rdataA, rdataB, bLo>>
    BY <1>13 DEF vars, input, walk, fill, port
  <2> QED
    BY <2>1 DEF OperandInv, Loaded, Feeding, AElem, BElem
<1> QED
  BY <1>3, <1>4, <1>5, <1>6, <1>7, <1>10, <1>11, <1>12, <1>13 DEF Next, Work

-----------------------------------------------------------------------------
(* The mesh.                                                               *)

\* Nothing is fed between two tiles.
LEMMA NothingFed ==
  /\ ~Feeding => \A r, t : FedA(r, t) = Zero /\ FedB(r, t) = Zero
  /\ ~Feeding' => \A r, t : FedA(r, t)' = Zero /\ FedB(r, t)' = Zero
BY DEF FedA, FedB

\* Step feeds a column of A and a row of B, Flush zeros.
LEMMA FeedStep ==
  ASSUME SysTypeOK, WalkInv, OperandInv, lane < Dim, state = "STEP", NEW i \in Idx
  PROVE  /\ aTile[<<i, lane>>] = FedA(i, lane)
         /\ (IF i < Half THEN bLo[i] ELSE rdataA[i - Half]) = FedB(lane, i)
<1>1. lane \in Nat /\ Half \in Nat /\ i \in Nat /\ i < Half + Half /\ i \in Idx /\ Feeding
  BY FieldTypes, DimFacts DEF Idx, Feeding
<1>2. <<i, lane>> \in PEs /\ Loaded(<<i, lane>>)
  BY <1>1, DimFacts DEF PEs, Idx, Loaded
<1>3. aTile[<<i, lane>>] = AElem(i, lane)
  BY <1>2 DEF OperandInv
<1>4. \A l \in Lane : bLo[l] = BElem(lane, l) /\ rdataA[l] = BElem(lane, Half + l)
  BY DEF OperandInv
<1>5. (IF i < Half THEN bLo[i] ELSE rdataA[i - Half]) = BElem(lane, i)
  <2>1. CASE i < Half
    <3>1. i \in Lane
      BY <1>1, <2>1 DEF Lane
    <3> QED
      BY <1>4, <2>1, <3>1
  <2>2. CASE ~(i < Half)
    <3>1. i - Half \in Lane /\ Half + (i - Half) = i
      BY <1>1, <2>2 DEF Lane
    <3>2. rdataA[i - Half] = BElem(lane, Half + (i - Half))
      BY <1>4, <3>1
    <3> QED
      BY <2>2, <3>1, <3>2
  <2> QED
    BY <2>1, <2>2
<1> QED
  BY <1>1, <1>3, <1>5 DEF FedA, FedB

\* Every PE gets the operands that were fed as many pulses ago as it is away.
LEMMA Arrival ==
  ASSUME SysTypeOK, FlowInv, chained,
         NEW a, NEW b, \A i \in Idx : a[i] = FedA(i, lane) /\ b[i] = FedB(lane, i),
         NEW r \in Idx, NEW c \in Idx
  PROVE  /\ AIn(a, <<r, c>>) = FedA(r, lane - r - c)
         /\ BIn(b, <<r, c>>) = FedB(lane - r - c, c)
<1>1. /\ r \in Nat /\ c \in Nat /\ r < Dim /\ c < Dim /\ lane \in Nat /\ Dim \in Nat
  BY FieldTypes, DimFacts DEF Idx
<1>2. /\ \A i \in Idx, s \in Delay : /\ aSkew[i][s] = FedA(i, lane - 1 - s)
                                     /\ bSkew[i][s] = FedB(lane - 1 - s, i)
      /\ \A i \in Idx, j \in Idx :
           /\ j < Dim - 1 => aOut[<<i, j>>] = FedA(i, lane - 1 - i - j)
           /\ i < Dim - 1 => bOut[<<i, j>>] = FedB(lane - 1 - i - j, j)
  BY DEF FlowInv
<1>3. ASSUME NEW i \in Idx
      PROVE  Edge(a, aSkew, i) = FedA(i, lane - i) /\ Edge(b, bSkew, i) = FedB(lane - i, i)
  <2>1. CASE i = 0
    <3>1. lane - i = lane /\ a[i] = FedA(i, lane) /\ b[i] = FedB(lane, i)
      BY <1>1, <2>1
    <3> QED
      BY <2>1, <3>1 DEF Edge
  <2>2. CASE i # 0
    <3>1. i - 1 \in Delay /\ lane - 1 - (i - 1) = lane - i
      BY <1>1, <2>2 DEF Delay, Idx
    <3>2. /\ aSkew[i][i - 1] = FedA(i, lane - 1 - (i - 1))
          /\ bSkew[i][i - 1] = FedB(lane - 1 - (i - 1), i)
      BY <1>2, <3>1
    <3> QED
      BY <2>2, <3>1, <3>2 DEF Edge
  <2> QED
    BY <2>1, <2>2
<1>4. AIn(a, <<r, c>>) = FedA(r, lane - r - c)
  <2>1. CASE c = 0
    <3>1. lane - r - c = lane - r
      BY <1>1, <2>1
    <3> QED
      BY <1>3, <2>1, <3>1 DEF AIn
  <2>2. CASE c # 0
    <3>1. c - 1 \in Idx /\ c - 1 < Dim - 1 /\ lane - 1 - r - (c - 1) = lane - r - c
      BY <1>1, <2>2 DEF Idx
    <3>2. aOut[<<r, c - 1>>] = FedA(r, lane - 1 - r - (c - 1))
      BY <1>2, <3>1
    <3> QED
      BY <2>2, <3>1, <3>2 DEF AIn
  <2> QED
    BY <2>1, <2>2
<1>5. BIn(b, <<r, c>>) = FedB(lane - r - c, c)
  <2>1. CASE r = 0
    <3>1. lane - r - c = lane - c
      BY <1>1, <2>1
    <3> QED
      BY <1>3, <2>1, <3>1 DEF BIn
  <2>2. CASE r # 0
    <3>1. r - 1 \in Idx /\ r - 1 < Dim - 1 /\ lane - 1 - (r - 1) - c = lane - r - c
      BY <1>1, <2>2 DEF Idx
    <3>2. bOut[<<r - 1, c>>] = FedB(lane - 1 - (r - 1) - c, c)
      BY <1>2, <3>1
    <3> QED
      BY <2>2, <3>1, <3>2 DEF BIn
  <2> QED
    BY <2>1, <2>2
<1> QED
  BY <1>4, <1>5

\* After a pulse every operand is one register further.
LEMMA Moved ==
  ASSUME SysTypeOK, FlowInv, chained,
         NEW a, NEW b, \A i \in Idx : a[i] = FedA(i, lane) /\ b[i] = FedB(lane, i),
         Pulse(a, b)
  PROVE  /\ \A i \in Idx, s \in Delay : /\ aSkew'[i][s] = FedA(i, lane - s)
                                        /\ bSkew'[i][s] = FedB(lane - s, i)
         /\ \A r \in Idx, c \in Idx : /\ aOut'[<<r, c>>] = FedA(r, lane - r - c)
                                      /\ bOut'[<<r, c>>] = FedB(lane - r - c, c)
<1>1. ASSUME NEW i \in Idx, NEW s \in Delay
      PROVE  aSkew'[i][s] = FedA(i, lane - s) /\ bSkew'[i][s] = FedB(lane - s, i)
  <2>1. /\ aSkew'[i][s] = (IF s = 0 THEN a[i] ELSE aSkew[i][s - 1])
        /\ bSkew'[i][s] = (IF s = 0 THEN b[i] ELSE bSkew[i][s - 1])
    BY DEF Pulse, Shift, Delay
  <2>2. s \in Nat /\ lane \in Nat /\ s <= Dim - 2 /\ Dim \in Nat
    BY FieldTypes, DimFacts DEF Delay
  <2>3. CASE s = 0
    <3>1. lane - s = lane
      BY <2>2, <2>3
    <3> QED
      BY <2>1, <2>3, <3>1
  <2>4. CASE s # 0
    <3>1. s - 1 \in Delay /\ lane - 1 - (s - 1) = lane - s
      BY <2>2, <2>4 DEF Delay
    <3>2. /\ aSkew[i][s - 1] = FedA(i, lane - 1 - (s - 1))
          /\ bSkew[i][s - 1] = FedB(lane - 1 - (s - 1), i)
      BY <3>1 DEF FlowInv
    <3> QED
      BY <2>1, <2>4, <3>1, <3>2
  <2> QED
    BY <2>3, <2>4
<1>2. ASSUME NEW r \in Idx, NEW c \in Idx
      PROVE  /\ aOut'[<<r, c>>] = FedA(r, lane - r - c)
             /\ bOut'[<<r, c>>] = FedB(lane - r - c, c)
  <2>1. <<r, c>> \in PEs
    BY DEF PEs
  <2>2. aOut'[<<r, c>>] = AIn(a, <<r, c>>) /\ bOut'[<<r, c>>] = BIn(b, <<r, c>>)
    BY <2>1 DEF Pulse
  <2> QED
    BY <2>2, Arrival
<1> QED
  BY <1>1, <1>2

\* The next pulse, or the end of the tile: by then the mesh holds zeros again.
LEMMA FlowPulse ==
  ASSUME SysTypeOK, WalkInv, FlowInv, Feeding, chained' = chained,
         NEW a, NEW b, \A i \in Idx : a[i] = FedA(i, lane) /\ b[i] = FedB(lane, i),
         Pulse(a, b),
         \/ Feeding' /\ lane' = lane + 1 /\ UNCHANGED <<job, at>>
         \/ ~Feeding' /\ (chained => lane = ChainSteps - 1)
  PROVE  FlowInv'
<1> SUFFICES ASSUME chained
             PROVE  /\ \A i \in Idx, s \in Delay : /\ aSkew'[i][s] = FedA(i, lane - 1 - s)'
                                                   /\ bSkew'[i][s] = FedB(lane - 1 - s, i)'
                    /\ \A r \in Idx, c \in Idx :
                         /\ c < Dim - 1 => aOut'[<<r, c>>] = FedA(r, lane - 1 - r - c)'
                         /\ r < Dim - 1 => bOut'[<<r, c>>] = FedB(lane - 1 - r - c, c)'
  BY DEF FlowInv
<1>1. /\ \A i \in Idx, s \in Delay : /\ aSkew'[i][s] = FedA(i, lane - s)
                                     /\ bSkew'[i][s] = FedB(lane - s, i)
      /\ \A r \in Idx, c \in Idx : /\ aOut'[<<r, c>>] = FedA(r, lane - r - c)
                                   /\ bOut'[<<r, c>>] = FedB(lane - r - c, c)
  BY Moved
<1>2. lane \in Nat /\ Dim \in Nat /\ 4 <= Dim
  BY FieldTypes, DimFacts
<1>3. CASE Feeding' /\ lane' = lane + 1 /\ UNCHANGED <<job, at>>
  <2>1. ASSUME NEW i \in Idx, NEW s \in Delay
        PROVE  /\ FedA(i, lane - 1 - s)' = FedA(i, lane - s)
               /\ FedB(lane - 1 - s, i)' = FedB(lane - s, i)
    <3>1. lane' - 1 - s = lane - s
      BY <1>2, <1>3 DEF Delay
    <3>2. Feeding' /\ job' = job /\ at' = at
      BY <1>3
    <3>3. FedA(i, lane - 1 - s)' = FedA(i, lane - s)
      BY <3>1, <3>2 DEF FedA, AElem
    <3>4. FedB(lane - 1 - s, i)' = FedB(lane - s, i)
      BY <3>1, <3>2 DEF FedB, BElem
    <3> QED
      BY <3>3, <3>4
  <2>2. ASSUME NEW r \in Idx, NEW c \in Idx
        PROVE  /\ FedA(r, lane - 1 - r - c)' = FedA(r, lane - r - c)
               /\ FedB(lane - 1 - r - c, c)' = FedB(lane - r - c, c)
    <3>1. lane' - 1 - r - c = lane - r - c
      BY <1>2, <1>3 DEF Idx
    <3>2. Feeding' /\ job' = job /\ at' = at
      BY <1>3
    <3>3. FedA(r, lane - 1 - r - c)' = FedA(r, lane - r - c)
      BY <3>1, <3>2 DEF FedA, AElem
    <3>4. FedB(lane - 1 - r - c, c)' = FedB(lane - r - c, c)
      BY <3>1, <3>2 DEF FedB, BElem
    <3> QED
      BY <3>3, <3>4
  <2>3. /\ \A i \in Idx, s \in Delay : /\ FedA(i, lane - 1 - s)' = FedA(i, lane - s)
                                       /\ FedB(lane - 1 - s, i)' = FedB(lane - s, i)
        /\ \A r \in Idx, c \in Idx : /\ FedA(r, lane - 1 - r - c)' = FedA(r, lane - r - c)
                                     /\ FedB(lane - 1 - r - c, c)' = FedB(lane - r - c, c)
    BY <2>1, <2>2
  <2> QED
    BY <1>1, <2>3
<1>4. CASE ~Feeding' /\ lane = ChainSteps - 1
  <2>1. lane = 3 * Dim - 3
    BY <1>2, <1>4 DEF ChainSteps
  <2>2. \A s \in Delay : ~(lane - s < Dim)
    BY <1>2, <2>1 DEF Delay
  <2>3. \A r \in Idx, c \in Idx : c < Dim - 1 \/ r < Dim - 1 => ~(lane - r - c < Dim)
    BY <1>2, <2>1 DEF Idx
  <2>4. /\ \A i \in Idx, s \in Delay : FedA(i, lane - s) = Zero /\ FedB(lane - s, i) = Zero
        /\ \A r \in Idx, c \in Idx :
             c < Dim - 1 \/ r < Dim - 1 =>
               FedA(r, lane - r - c) = Zero /\ FedB(lane - r - c, c) = Zero
    BY <2>2, <2>3 DEF FedA, FedB
  <2>5. /\ \A i \in Idx, s \in Delay : /\ FedA(i, lane - 1 - s)' = Zero
                                       /\ FedB(lane - 1 - s, i)' = Zero
        /\ \A r \in Idx, c \in Idx : /\ FedA(r, lane - 1 - r - c)' = Zero
                                     /\ FedB(lane - 1 - r - c, c)' = Zero
    BY <1>4 DEF FedA, FedB
  <2> QED
    BY <1>1, <2>4, <2>5
<1> QED
  BY <1>3, <1>4

\* Between the pulses the mesh stands still; before the first one it is empty.
LEMMA FlowQuiet ==
  ASSUME SysTypeOK, FlowInv, UNCHANGED <<chained, aOut, bOut, aSkew, bSkew>>,
         \/ ~Feeding /\ ~Feeding'
         \/ ~Feeding /\ lane' = 0
         \/ Feeding /\ Feeding' /\ UNCHANGED <<job, at, lane>>
  PROVE  FlowInv'
<1>1. CASE Feeding /\ Feeding' /\ UNCHANGED <<job, at, lane>>
  BY <1>1 DEF FlowInv, FedA, FedB, AElem, BElem
<1>2. CASE ~Feeding /\ (~Feeding' \/ lane' = 0)
  <2>1. /\ \A i \in Idx, s \in Delay : /\ FedA(i, lane - 1 - s)' = Zero
                                       /\ FedB(lane - 1 - s, i)' = Zero
        /\ \A r \in Idx, c \in Idx : /\ FedA(r, lane - 1 - r - c)' = Zero
                                     /\ FedB(lane - 1 - r - c, c)' = Zero
    <3>1. CASE ~Feeding'
      BY <3>1 DEF FedA, FedB
    <3>2. CASE lane' = 0
      <4>1. \A s \in Delay : ~(0 <= lane' - 1 - s)
        BY <3>2 DEF Delay
      <4>2. \A r \in Idx, c \in Idx : ~(0 <= lane' - 1 - r - c)
        BY <3>2 DEF Idx
      <4> QED
        BY <4>1, <4>2 DEF FedA, FedB
    <3> QED
      BY <1>2, <3>1, <3>2
  <2>2. /\ \A i \in Idx, s \in Delay : /\ FedA(i, lane - 1 - s) = Zero
                                       /\ FedB(lane - 1 - s, i) = Zero
        /\ \A r \in Idx, c \in Idx : /\ FedA(r, lane - 1 - r - c) = Zero
                                     /\ FedB(lane - 1 - r - c, c) = Zero
    BY <1>2, NothingFed
  <2> QED
    BY <2>1, <2>2 DEF FlowInv
<1> QED
  BY <1>1, <1>2

\* A pulse: its edges carry what is fed, and the tile goes on or is through.
LEMMA PulseStep ==
  ASSUME SysTypeOK, WalkInv, OperandInv, Step \/ Flush
  PROVE  /\ Feeding /\ UNCHANGED <<chained, job, jobs, before>>
         /\ \E a, b : /\ Pulse(a, b)
                      /\ \A i \in Idx : a[i] = FedA(i, lane) /\ b[i] = FedB(lane, i)
         /\ \/ Feeding' /\ lane' = lane + 1 /\ at' = at
            \/ ~Feeding' /\ TileSummed /\ lane = IF chained THEN ChainSteps - 1 ELSE Dim - 1
<1>1. CASE Step
  <2>1. state = "STEP" /\ lane < Dim /\ lane \in Nat
    BY <1>1, FieldTypes DEF Step, WalkInv
  <2> DEFINE a == [i \in Idx |-> aTile[<<i, lane>>]]
             b == [i \in Idx |-> IF i < Half THEN bLo[i] ELSE rdataA[i - Half]]
  <2>2. Pulse(a, b)
    BY <1>1 DEF Step
  <2>3. \A i \in Idx : a[i] = FedA(i, lane) /\ b[i] = FedB(lane, i)
    BY <2>1, FeedStep
  <2>4. Feeding /\ UNCHANGED <<chained, job, jobs, before>>
    BY <1>1, <2>1 DEF Step, input, Feeding
  <2>5. \/ Feeding' /\ lane' = lane + 1 /\ at' = at
        \/ ~Feeding' /\ TileSummed /\ lane = IF chained THEN ChainSteps - 1 ELSE Dim - 1
    <3>1. CASE lane < Dim - 1 \/ chained
      BY <1>1, <3>1 DEF Step, Feeding
    <3>2. CASE ~(lane < Dim - 1) /\ ~chained
      <4>1. TileSummed /\ lane = Dim - 1
        BY <1>1, <2>1, <3>2, DimFacts DEF Step
      <4>2. ~Feeding'
        BY <4>1 DEF TileSummed, Feeding
      <4> QED
        BY <3>2, <4>1, <4>2
    <3> QED
      BY <3>1, <3>2
  <2> HIDE DEF a, b
  <2> QED
    BY <2>2, <2>3, <2>4, <2>5
<1>2. CASE Flush
  <2>1. state = "FLUSH" /\ chained /\ ~(lane < Dim)
    BY <1>2, FieldTypes, DimFacts DEF Flush, WalkInv
  <2>2. \A i \in Idx : FedA(i, lane) = Zero /\ FedB(lane, i) = Zero
    BY <2>1 DEF FedA, FedB
  <2>3. Pulse(NoOperands, NoOperands) /\ \A i \in Idx : NoOperands[i] = Zero
    BY <1>2 DEF Flush, NoOperands
  <2>4. Feeding /\ UNCHANGED <<chained, job, jobs, before>>
    BY <1>2, <2>1 DEF Flush, input, Feeding
  <2>5. \/ Feeding' /\ lane' = lane + 1 /\ at' = at
        \/ ~Feeding' /\ TileSummed /\ lane = IF chained THEN ChainSteps - 1 ELSE Dim - 1
    BY <1>2, <2>1 DEF Flush, TileSummed, Feeding
  <2> QED
    BY <2>2, <2>3, <2>4, <2>5
<1> QED
  BY <1>1, <1>2

\* What the steps without a pulse do to the array and to the tile in it.
LEMMA QuietStep ==
  ASSUME SysTypeOK, [Next]_vars, ~Step, ~Flush, ~InitTile
  PROVE  /\ UNCHANGED <<chained, acc, aOut, bOut, aSkew, bSkew>>
         /\ \/ ~Feeding /\ ~Feeding'
            \/ LatchA /\ ~Feeding /\ lane' = 0
            \/ Feeding /\ Feeding' /\ UNCHANGED <<job, at, lane>>
<1> USE DEF Feeding, array, input, walk
<1>1. CASE Dispatch
  BY <1>1 DEF Dispatch
<1>2. CASE ClearPrep \/ ClearDst
  BY <1>2 DEF ClearPrep, ClearDst
<1>3. CASE RequestA
  BY <1>3 DEF RequestA
<1>4. CASE LatchA
  BY <1>4 DEF LatchA
<1>5. CASE RequestBLo
  BY <1>5 DEF RequestBLo
<1>6. CASE RequestBHi
  BY <1>6 DEF RequestBHi
<1>7. CASE DrainPrep
  BY <1>7 DEF DrainPrep
<1>8. CASE Drain
  BY <1>8 DEF Drain, NextTile
<1>9. CASE Idle
  BY <1>9 DEF Idle
<1>10. CASE UNCHANGED vars
  BY <1>10 DEF vars, fill
<1> QED
  BY <1>1, <1>2, <1>3, <1>4, <1>5, <1>6, <1>7, <1>8, <1>9, <1>10 DEF Next, Work

\* In the chained array every operand is where its age puts it.
LEMMA FlowStep ==
  ASSUME SysTypeOK, WalkInv, OperandInv, FlowInv, [Next]_vars
  PROVE  FlowInv'
<1>1. CASE Step \/ Flush
  <2>1. /\ Feeding /\ chained' = chained /\ job' = job
        /\ \/ Feeding' /\ lane' = lane + 1 /\ at' = at
           \/ ~Feeding' /\ lane = IF chained THEN ChainSteps - 1 ELSE Dim - 1
    BY <1>1, PulseStep
  <2>2. PICK a, b : /\ Pulse(a, b)
                    /\ \A i \in Idx : a[i] = FedA(i, lane) /\ b[i] = FedB(lane, i)
    BY <1>1, PulseStep
  <2> QED
    BY <2>1, <2>2, FlowPulse
<1>2. CASE InitTile
  <2>1. ~Feeding /\ ~Feeding' /\ chained' = chained
    BY <1>2 DEF InitTile, Feeding, input
  <2>2. CASE job.accumulate
    <3>1. UNCHANGED <<chained, aOut, bOut, aSkew, bSkew>>
      BY <1>2, <2>1, <2>2 DEF InitTile, array
    <3> QED
      BY <2>1, <3>1, FlowQuiet
  <2>3. CASE ~job.accumulate
    <3>1. /\ \A i \in Idx, s \in Delay : aSkew'[i][s] = Zero /\ bSkew'[i][s] = Zero
          /\ \A p \in PEs : aOut'[p] = Zero /\ bOut'[p] = Zero
      <4>1. aSkew' = NoDelay /\ bSkew' = NoDelay /\ aOut' = NoFlow /\ bOut' = NoFlow
        BY <1>2, <2>3 DEF InitTile, Clear
      <4> QED
        BY <4>1 DEF NoFlow, NoDelay, Delay
    <3>2. \A r \in Idx, c \in Idx : aOut'[<<r, c>>] = Zero /\ bOut'[<<r, c>>] = Zero
      BY <3>1 DEF PEs
    <3>3. /\ \A i \in Idx, s \in Delay : /\ FedA(i, lane - 1 - s)' = Zero
                                         /\ FedB(lane - 1 - s, i)' = Zero
          /\ \A r \in Idx, c \in Idx : /\ FedA(r, lane - 1 - r - c)' = Zero
                                       /\ FedB(lane - 1 - r - c, c)' = Zero
      BY <2>1 DEF FedA, FedB
    <3> QED
      BY <3>1, <3>2, <3>3 DEF FlowInv
  <2> QED
    BY <2>2, <2>3
<1>3. CASE ~Step /\ ~Flush /\ ~InitTile
  BY <1>3, QuietStep, FlowQuiet
<1> QED
  BY <1>1, <1>2, <1>3

-----------------------------------------------------------------------------
(* The sums.                                                               *)

\* The product that comes after the first q.
Product(r, c, q) == << <<"src1", job.src1 * Half + r * (job.k * Dim) + q>>,
                       <<"src2", job.src2 * Half + q * (job.n * Dim) + c>> >>

\* It names one operand of each matrix.
LEMMA ProductType ==
  ASSUME SysTypeOK, NEW r \in Nat, NEW c \in Nat, NEW q \in Nat
  PROVE  Product(r, c, q) \in Operand \X Operand
<1>1. job.k * Dim \in Nat /\ job.n * Dim \in Nat /\ job.src1 * Half \in Nat
      /\ job.src2 * Half \in Nat
  BY FieldTypes, DimFacts, NatProduct
<1>2. r * (job.k * Dim) \in Nat /\ q * (job.n * Dim) \in Nat
  BY <1>1, NatProduct
<1>3. /\ job.src1 * Half + r * (job.k * Dim) + q \in Nat
      /\ job.src2 * Half + q * (job.n * Dim) + c \in Nat
  BY <1>1, <1>2
<1> QED
  BY <1>3 DEF Product, Operand

\* The first products as a sequence.
LEMMA ProductsSeq ==
  ASSUME SysTypeOK, NEW r \in Nat, NEW c \in Nat, NEW q \in Nat
  PROVE  /\ Products(r, c, q) \in Seq(Operand \X Operand)
         /\ Len(Products(r, c, q)) = q
         /\ \A i \in 1 .. q : Products(r, c, q)[i] = Product(r, c, i - 1)
<1> DEFINE P == Products(r, c, q)
<1>1. \A i \in 1 .. q : Product(r, c, i - 1) \in Operand \X Operand
  <2> TAKE i \in 1 .. q
  <2>1. i - 1 \in Nat
    OBVIOUS
  <2> QED
    BY <2>1, ProductType
<1>2. P = [i \in 1 .. q |-> Product(r, c, i - 1)]
  BY DEF Products, Product
<1>3. P \in [1 .. q -> Operand \X Operand]
  BY <1>1, <1>2
<1>4. P \in Seq(Operand \X Operand)
  BY <1>3, SeqDef
<1>5. Len(P) = q
  BY <1>2, <1>4, LenProperties
<1>6. \A i \in 1 .. q : P[i] = Product(r, c, i - 1)
  BY <1>2
<1> QED
  BY <1>4, <1>5, <1>6

\* One more product at the end of a sum.
LEMMA OneMore ==
  ASSUME SysTypeOK, NEW r \in Nat, NEW c \in Nat, NEW q \in Nat, NEW s \in Sums
  PROVE  Append(s \o Products(r, c, q), Product(r, c, q)) = s \o Products(r, c, q + 1)
<1> DEFINE S == Operand \X Operand
           P == Products(r, c, q)
           Q == Products(r, c, q + 1)
           e == Product(r, c, q)
<1>1. e \in S /\ s \in Seq(S)
  BY ProductType DEF Sums
<1>2. P \in Seq(S) /\ Len(P) = q /\ \A i \in 1 .. q : P[i] = Product(r, c, i - 1)
  BY ProductsSeq
<1>3. Q \in Seq(S) /\ Len(Q) = q + 1 /\ \A i \in 1 .. q + 1 : Q[i] = Product(r, c, i - 1)
  <2>1. q + 1 \in Nat
    OBVIOUS
  <2> QED
    BY <2>1, ProductsSeq
<1>4. Append(P, e) = Q
  <2>1. \A i \in 1 .. q : Q[i] = P[i]
    BY <1>2, <1>3
  <2>2. Q[q + 1] = e
    <3>1. q + 1 \in 1 .. q + 1 /\ q + 1 - 1 = q
      OBVIOUS
    <3> QED
      BY <1>3, <3>1
  <2> HIDE DEF P, Q, e, S
  <2>3. /\ Append(P, e) \in Seq(S) /\ Len(Append(P, e)) = q + 1
        /\ \A i \in 1 .. q : Append(P, e)[i] = P[i]
        /\ Append(P, e)[q + 1] = e
    BY <1>1, <1>2, AppendProperties
  <2>4. \A i \in 1 .. q + 1 : Append(P, e)[i] = Q[i]
    <3> TAKE i \in 1 .. q + 1
    <3>1. i \in 1 .. q \/ i = q + 1
      OBVIOUS
    <3> QED
      BY <2>1, <2>2, <2>3, <3>1
  <2> QED
    BY <1>3, <2>3, <2>4, SeqEqual
<1> HIDE DEF P, Q, e, S
<1>5. <<e>> \in Seq(S)
  BY <1>1
<1>6. Append(s \o P, e) = (s \o P) \o <<e>>
  BY <1>1, <1>2, ConcatProperties, AppendIsConcat
<1>7. (s \o P) \o <<e>> = s \o (P \o <<e>>)
  BY <1>1, <1>2, <1>5, ConcatAssociative
<1>8. P \o <<e>> = Q
  BY <1>1, <1>2, <1>4, AppendIsConcat
<1> QED
  BY <1>6, <1>7, <1>8 DEF P, Q, e

\* No product is a sum unchanged.
LEMMA NoProducts ==
  ASSUME SysTypeOK, NEW r, NEW c, NEW s \in Sums
  PROVE  s \o Products(r, c, 0) = s
<1>1. Products(r, c, 0) = <<>>
  BY DEF Products
<1> QED
  BY <1>1, ConcatEmptySeq DEF Sums

\* Where a sum starts from.
LEMMA StartType ==
  ASSUME SysTypeOK, NEW r \in Idx, NEW c \in Idx
  PROVE  Start(r, c) \in Sums
<1>1. <<r, c>> \in PEs
  BY DEF PEs
<1>2. <<>> \in Sums
  BY DEF Sums
<1> QED
  BY <1>1, <1>2 DEF Start, SysTypeOK

\* What a PE has seen once this pulse is over.
SeenNext(r, c) ==
  IF ~chained THEN lane + 1
  ELSE IF lane + 1 < r + c THEN 0
  ELSE IF lane + 1 - r - c > Dim THEN Dim ELSE lane + 1 - r - c

\* A pulse adds the next product of each sum, or nothing where none is due.
LEMMA SumPulse ==
  ASSUME SysTypeOK, WalkInv, FlowInv, SumInv, Defined, Feeding, ~chained => lane < Dim,
         NEW a, NEW b, \A i \in Idx : a[i] = FedA(i, lane) /\ b[i] = FedB(lane, i),
         Pulse(a, b), NEW r \in Idx, NEW c \in Idx
  PROVE  acc'[<<r, c>>] = Start(r, c)
            \o Products(at.m * Dim + r, at.n * Dim + c, at.k * Dim + SeenNext(r, c))
<1> DEFINE s == IF chained THEN lane - r - c ELSE lane
           R == at.m * Dim + r
           C == at.n * Dim + c
           q == at.k * Dim + Seen(r, c)
           x == AIn(a, <<r, c>>)
           y == BIn(b, <<r, c>>)
<1>1. /\ r \in Nat /\ c \in Nat /\ r < Dim /\ c < Dim /\ lane \in Nat /\ Dim \in Nat
      /\ at.m * Dim \in Nat /\ at.n * Dim \in Nat /\ at.k * Dim \in Nat
      /\ R \in Nat /\ C \in Nat
  BY FieldTypes, DimFacts, NatProduct DEF Idx
<1>2. x = FedA(r, s) /\ y = FedB(s, c)
  <2>1. CASE chained
    BY <2>1, Arrival
  <2>2. CASE ~chained
    BY <2>2 DEF AIn, BIn
  <2> QED
    BY <2>1, <2>2
<1>3. acc'[<<r, c>>] = Mac(acc[<<r, c>>], x, y)
  BY DEF Pulse, PEs
<1>4. acc[<<r, c>>] = Start(r, c) \o Products(R, C, q)
  BY DEF SumInv, Summing, Complete, Feeding
<1>5. CASE 0 <= s /\ s < Dim
  <2>1. x = AElem(r, s) /\ y = BElem(s, c)
    BY <1>2, <1>5 DEF FedA, FedB
  <2>2. s \in Nat /\ Seen(r, c) = s /\ SeenNext(r, c) = s + 1
    BY <1>1, <1>5 DEF Seen, SeenNext
  <2>3. q = at.k * Dim + s /\ q \in Nat /\ at.k * Dim + SeenNext(r, c) = q + 1
    BY <1>1, <2>2
  <2>4. <<x, y>> = Product(R, C, q)
    BY <2>1, <2>3 DEF AElem, BElem, Product
  <2>5. x # Zero
    BY <2>1 DEF AElem, Zero
  <2>6. acc'[<<r, c>>] = Append(Start(r, c) \o Products(R, C, q), Product(R, C, q))
    BY <1>3, <1>4, <2>4, <2>5 DEF Mac
  <2>7. Start(r, c) \in Sums
    BY StartType
  <2> HIDE DEF R, C, q
  <2>8. acc'[<<r, c>>] = Start(r, c) \o Products(R, C, q + 1)
    <3>1. R \in Nat /\ C \in Nat /\ q \in Nat
      BY <1>1, <2>3
    <3>2. Append(Start(r, c) \o Products(R, C, q), Product(R, C, q))
            = Start(r, c) \o Products(R, C, q + 1)
      BY <2>7, <3>1, OneMore
    <3> QED
      BY <2>6, <3>2
  <2> QED
    BY <2>3, <2>8 DEF R, C
<1>6. CASE ~(0 <= s /\ s < Dim)
  <2>1. x = Zero /\ y = Zero
    BY <1>2, <1>6 DEF FedA, FedB
  <2>2. SeenNext(r, c) = Seen(r, c)
    BY <1>1, <1>6 DEF Seen, SeenNext
  <2> QED
    BY <1>3, <1>4, <2>1, <2>2 DEF Mac
<1> QED
  BY <1>5, <1>6

\* With the last pulse every PE has seen the whole tile.
LEMMA LastPulse ==
  ASSUME SysTypeOK, NEW r \in Idx, NEW c \in Idx,
         lane = IF chained THEN ChainSteps - 1 ELSE Dim - 1
  PROVE  SeenNext(r, c) = Dim
<1>1. /\ r \in Nat /\ c \in Nat /\ r <= Dim - 1 /\ c <= Dim - 1 /\ lane \in Nat /\ Dim \in Nat
  BY FieldTypes, DimFacts DEF Idx
<1> QED
  BY <1>1 DEF SeenNext, ChainSteps

\* The sums after a pulse, in the middle or at the end of a tile of K.
LEMMA SumPulseStep ==
  ASSUME SysTypeOK, WalkInv, OperandInv, FlowInv, SumInv, Step \/ Flush
  PROVE  SumInv'
<1>1. /\ Feeding /\ UNCHANGED <<chained, job, jobs, before>>
      /\ \/ Feeding' /\ lane' = lane + 1 /\ at' = at
         \/ ~Feeding' /\ TileSummed /\ lane = IF chained THEN ChainSteps - 1 ELSE Dim - 1
  BY PulseStep
<1>2. PICK a, b : /\ Pulse(a, b)
                  /\ \A i \in Idx : a[i] = FedA(i, lane) /\ b[i] = FedB(lane, i)
  BY PulseStep
<1>3. ~chained => lane < Dim
  BY FieldTypes, DimFacts DEF Step, Flush, WalkInv
<1>4. SUFFICES ASSUME Defined, NEW r \in Idx, NEW c \in Idx
               PROVE  acc'[<<r, c>>] = Start(r, c)' \o
                        Products(at.m * Dim + r, at.n * Dim + c, Complete(r, c))'
  <2>1. Defined' = Defined
    BY <1>1 DEF Defined
  <2>2. state' # "INIT_TILE"
    BY DEF Step, Flush, TileSummed
  <2> QED
    BY <2>1, <2>2 DEF SumInv
<1>5. acc'[<<r, c>>] = Start(r, c)
         \o Products(at.m * Dim + r, at.n * Dim + c, at.k * Dim + SeenNext(r, c))
  BY <1>1, <1>2, <1>3, <1>4, SumPulse
<1>6. Start(r, c)' = Start(r, c)
  BY <1>1 DEF Start
<1>8. CASE Feeding' /\ lane' = lane + 1 /\ at' = at
  <2>1. Complete(r, c)' = at.k * Dim + SeenNext(r, c)
    <3>1. Seen(r, c)' = SeenNext(r, c)
      <4>1. Feeding' /\ lane' = lane + 1 /\ chained' = chained
        BY <1>1, <1>8
      <4>2. r \in Nat /\ c \in Nat /\ lane \in Nat /\ Dim \in Nat
        BY FieldTypes, DimFacts DEF Idx
      <4>3. Seen(r, c)' = (IF ~chained THEN lane'
                           ELSE IF lane' < r + c THEN 0
                           ELSE IF lane' - r - c > Dim THEN Dim ELSE lane' - r - c)
        BY <4>1 DEF Seen
      <4> QED
        BY <4>1, <4>2, <4>3 DEF SeenNext
    <3>2. state' \notin {"DRAIN_PREP", "DRAIN"}
      BY <1>8 DEF Feeding
    <3> QED
      BY <1>8, <3>1, <3>2 DEF Complete
  <2>2. Products(at.m * Dim + r, at.n * Dim + c, Complete(r, c))'
          = Products(at.m * Dim + r, at.n * Dim + c, at.k * Dim + SeenNext(r, c))
    BY <1>1, <1>8, <2>1 DEF Products
  <2> QED
    BY <1>5, <1>6, <2>2
<1>9. CASE ~Feeding' /\ TileSummed /\ lane = IF chained THEN ChainSteps - 1 ELSE Dim - 1
  <2>1. SeenNext(r, c) = Dim
    BY <1>9, LastPulse
  <2>2. /\ at'.m = at.m /\ at'.n = at.n
        /\ \/ state' = "A_REQ" /\ at'.k = at.k + 1
           \/ state' = "DRAIN_PREP" /\ at'.k = at.k /\ at.k + 1 = job.k
    <3>1. UNCHANGED <<job, jobs, base, rowAddr, clearRow>>
      BY <1>1 DEF Step, Flush
    <3> QED
      BY <1>1, <1>9, <3>1, SummedStep
  <2>3. Complete(r, c)' = at.k * Dim + Dim
    <3>1. (at.k + 1) * Dim = at.k * Dim + Dim
      BY FieldTypes, DimFacts
    <3>2. CASE state' = "A_REQ" /\ at'.k = at.k + 1
      <4>1. Complete(r, c)' = at'.k * Dim + 0
        BY <1>9, <3>2 DEF Complete, Seen
      <4>2. at'.k * Dim = at.k * Dim + Dim /\ at.k * Dim + Dim \in Nat
        BY <3>1, <3>2, FieldTypes, DimFacts, NatProduct
      <4> QED
        BY <4>1, <4>2
    <3>3. CASE state' = "DRAIN_PREP" /\ at.k + 1 = job.k
      <4>1. Complete(r, c)' = job.k * Dim
        BY <1>1, <3>3 DEF Complete
      <4> QED
        BY <3>1, <3>3, <4>1
    <3> QED
      BY <2>2, <3>2, <3>3
  <2>4. Products(at.m * Dim + r, at.n * Dim + c, Complete(r, c))'
          = Products(at.m * Dim + r, at.n * Dim + c, at.k * Dim + SeenNext(r, c))
    BY <1>1, <2>1, <2>2, <2>3 DEF Products
  <2> QED
    BY <1>5, <1>6, <2>4
<1> QED
  BY <1>1, <1>8, <1>9

\* The sums between two pulses.
LEMMA SumQuiet ==
  ASSUME SysTypeOK, SumInv, UNCHANGED <<chained, acc, job, before, at>>, Summing, Summing',
         \A r \in Idx, c \in Idx : Complete(r, c)' = Complete(r, c)
  PROVE  SumInv'
<1>1. SUFFICES ASSUME Defined, NEW r \in Idx, NEW c \in Idx
               PROVE  acc'[<<r, c>>] = Start(r, c)' \o
                        Products(at.m * Dim + r, at.n * Dim + c, Complete(r, c))'
  BY DEF SumInv, Summing, Feeding, Defined
<1>2. acc[<<r, c>>] = Start(r, c) \o Products(at.m * Dim + r, at.n * Dim + c, Complete(r, c))
  BY <1>1 DEF SumInv
<1>3. Start(r, c)' = Start(r, c)
  BY DEF Start
<1>4. Products(at.m * Dim + r, at.n * Dim + c, Complete(r, c))'
        = Products(at.m * Dim + r, at.n * Dim + c, Complete(r, c))
  BY DEF Products
<1> QED
  BY <1>2, <1>3, <1>4

\* Every sum holds the products of the tiles that are through, in order.
LEMMA SumStep ==
  ASSUME SysTypeOK, WalkInv, OperandInv, FlowInv, SumInv, [Next]_vars
  PROVE  SumInv'
<1>1. CASE Step \/ Flush
  BY <1>1, SumPulseStep
<1>2. CASE InitTile
  <2>1. /\ state = "INIT_TILE" /\ state' = "A_REQ" /\ at.k = 0
        /\ UNCHANGED <<chained, job, before, at>>
    BY <1>2 DEF InitTile, WalkInv, input, walk
  <2>2. SUFFICES ASSUME Defined, NEW r \in Idx, NEW c \in Idx
                 PROVE  acc'[<<r, c>>] = Start(r, c)' \o
                          Products(at.m * Dim + r, at.n * Dim + c, Complete(r, c))'
    BY <2>1 DEF SumInv, Defined
  <2>3. Complete(r, c)' = 0
    <3>1. 0 * Dim + 0 = 0
      BY DimFacts
    <3> QED
      BY <2>1, <3>1 DEF Complete, Seen, Feeding
  <2>4. Products(at.m * Dim + r, at.n * Dim + c, Complete(r, c))'
          = Products(at.m * Dim + r, at.n * Dim + c, 0)
    BY <2>1, <2>3 DEF Products
  <2>5. Start(r, c)' = Start(r, c) /\ Start(r, c) \in Sums
    BY <2>1, StartType DEF Start
  <2>6. acc'[<<r, c>>] = Start(r, c)
    <3>1. CASE job.accumulate
      BY <1>2, <2>1, <2>2, <3>1 DEF InitTile, array, SumInv, Start
    <3>2. CASE ~job.accumulate
      BY <1>2, <3>2 DEF InitTile, Clear, NoSums, Start, PEs
    <3> QED
      BY <3>1, <3>2
  <2> QED
    BY <2>4, <2>5, <2>6, NoProducts
<1>3. CASE Dispatch
  <2>1. /\ acc' = acc /\ before' = acc /\ state' \in {"CLEAR_PREP", "INIT_TILE"}
    BY <1>3 DEF Dispatch, array
  <2> QED
    BY <2>1 DEF SumInv, Summing, Feeding
<1>4. CASE LatchA
  <2>1. /\ UNCHANGED <<chained, acc, job, before, at>> /\ state = "A_LATCH"
        /\ \/ state' = "A_REQ"
           \/ state' = "B_LO" /\ lane' = 0
    BY <1>4 DEF LatchA, input, walk, array
  <2>2. \A r \in Idx, c \in Idx : Seen(r, c) = 0 /\ Seen(r, c)' = 0
    BY <2>1, DimFacts DEF Seen, Feeding, Idx
  <2>3. \A r \in Idx, c \in Idx : Complete(r, c)' = Complete(r, c)
    BY <2>1, <2>2 DEF Complete
  <2> QED
    BY <2>1, <2>3, SumQuiet DEF Summing, Feeding
<1>5. CASE RequestA \/ RequestBLo \/ RequestBHi \/ DrainPrep
  <2>1. /\ UNCHANGED <<chained, acc, job, before, at>> /\ Summing /\ Summing'
        /\ (state \in {"DRAIN_PREP", "DRAIN"}) = (state' \in {"DRAIN_PREP", "DRAIN"})
        /\ Feeding' = Feeding /\ UNCHANGED lane
    BY <1>5 DEF RequestA, RequestBLo, RequestBHi, DrainPrep, input, walk, fill, array, Summing,
                Feeding
  <2>2. \A r \in Idx, c \in Idx : Complete(r, c)' = Complete(r, c)
    BY <2>1 DEF Complete, Seen
  <2> QED
    BY <2>1, <2>2, SumQuiet
<1>6. CASE Drain
  <2>1. UNCHANGED <<chained, acc, job, before>> /\ state = "DRAIN"
    BY <1>6 DEF Drain, input, array
  <2>2. CASE state' = "DRAIN"
    <3>1. at' = at
      BY <1>6, <2>2 DEF Drain, walk, NextTile
    <3>2. \A r \in Idx, c \in Idx : Complete(r, c)' = Complete(r, c)
      BY <2>1, <2>2 DEF Complete
    <3> QED
      BY <2>1, <2>2, <3>1, <3>2, SumQuiet DEF Summing
  <2>3. CASE state' # "DRAIN"
    <3>1. NextTile
      BY <1>6, <2>1, <2>3 DEF Drain
    <3>2. state' \in {"INIT_TILE", "IDLE"}
      BY <3>1 DEF NextTile
    <3>3. Defined /\ job.accumulate => state' = "IDLE"
      BY <3>1, FieldTypes DEF NextTile, Defined
    <3> QED
      BY <2>1, <3>2, <3>3 DEF SumInv, Summing, Feeding, Defined
  <2> QED
    BY <2>2, <2>3
<1>7. CASE ClearPrep \/ ClearDst
  <2>1. /\ state' \in {"CLEAR", "INIT_TILE"} /\ job' = job /\ ~job.accumulate
    BY <1>7 DEF ClearPrep, ClearDst, input, WalkInv
  <2> QED
    BY <2>1 DEF SumInv, Summing, Feeding
<1>8. CASE Idle
  BY <1>8 DEF Idle, SumInv, Summing, Feeding
<1>9. CASE UNCHANGED vars
  <2>1. UNCHANGED <<chained, acc, job, before, at, state, lane>>
    BY <1>9 DEF vars, input, walk, fill, array
  <2>2. CASE Summing
    <3>1. Summing' /\ \A r \in Idx, c \in Idx : Complete(r, c)' = Complete(r, c)
      BY <2>1, <2>2 DEF Summing, Feeding, Complete, Seen
    <3> QED
      BY <2>1, <2>2, <3>1, SumQuiet
  <2>3. CASE ~Summing
    BY <2>1, <2>3 DEF SumInv, Summing, Feeding, Defined
  <2> QED
    BY <2>2, <2>3
<1> QED
  BY <1>1, <1>2, <1>3, <1>4, <1>5, <1>6, <1>7, <1>8, <1>9 DEF Next, Work

-----------------------------------------------------------------------------
(* The result.                                                             *)

\* What a group of the result is to hold.
Whole(mt, nt, r, g, l) ==
  Start(mt * Dim + r, nt * Dim + (g * Group + l))
    \o Products(mt * Dim + r, nt * Dim + (g * Group + l), job.k * Dim)

\* The destinations lie in the buffer: the SRAM faults rows outside, which
\* Accelerator models.
JobsFit == \A j \in Jobs : j.dst .. j.dst + ClearRows(j) - 1 \subseteq DstRows

\* A group is drained with the sums of its columns.
LEMMA DrainWrites ==
  ASSUME MaxLost = 0, JobsFit, SysTypeOK, WalkInv, SumInv, Defined, Drain, NEW l \in 0 .. Group - 1
  PROVE  dstMem'[Address(at.m, at.n, drain.row, drain.grp)][l]
           = Whole(at.m, at.n, drain.row, drain.grp, l)
<1> DEFINE row == rowAddr + drain.grp
           sums == [x \in 0 .. Group - 1 |-> acc[<<drain.row, drain.grp * Group + x>>]]
           c == drain.grp * Group + l
<1>1. state = "DRAIN" /\ WriteA(row, sums)
  BY DEF Drain
<1>2. row = Address(at.m, at.n, drain.row, drain.grp)
  BY <1>1, DrainAddress
<1>3. row \in DstRows
  <2>1. /\ at.m \in 0 .. job.m - 1 /\ at.n \in 0 .. job.n - 1 /\ drain.row \in Idx
        /\ drain.grp \in 0 .. 3 /\ job \in Jobs
    BY <1>1, CurrentGroup
  <2>2. row \in job.dst .. job.dst + ClearRows(job) - 1
    BY <1>2, <2>1, AddressInside
  <2> QED
    BY <2>1, <2>2 DEF JobsFit
<1>4. dstMem'[row][l] = acc[<<drain.row, c>>]
  <2>1. lost' = lost
    BY <1>1 DEF WriteA, Loses, SysTypeOK
  <2>2. dstMem' = [dstMem EXCEPT ![row] = sums]
    BY <1>1, <2>1 DEF WriteA
  <2>3. dstMem'[row] = sums
    BY <1>3, <2>2 DEF SysTypeOK
  <2> QED
    BY <2>3
<1>5. drain.row \in Idx /\ c \in Idx
  <2>1. drain.grp \in 0 .. 3 /\ drain.row \in Idx
    BY DEF SysTypeOK
  <2> QED
    BY <2>1, DimFacts DEF Idx
<1>6. acc[<<drain.row, c>>] = Start(drain.row, c)
        \o Products(at.m * Dim + drain.row, at.n * Dim + c, job.k * Dim)
  BY <1>1, <1>5 DEF SumInv, Summing, Complete
<1>7. Start(drain.row, c) = Start(at.m * Dim + drain.row, at.n * Dim + c)
  <2>1. CASE job.accumulate
    <3>1. at.m = 0 /\ at.n = 0
      BY <2>1, FieldTypes DEF WalkInv, Defined
    <3>2. at.m * Dim + drain.row = drain.row /\ at.n * Dim + c = c
      <4>1. 0 * Dim = 0 /\ drain.row \in Nat /\ c \in Nat
        BY <1>5, DimFacts DEF Idx
      <4> HIDE DEF c
      <4> QED
        BY <3>1, <4>1
    <3> QED
      BY <3>2
  <2>2. CASE ~job.accumulate
    BY <2>2 DEF Start
  <2> QED
    BY <2>1, <2>2
<1> QED
  BY <1>2, <1>4, <1>6, <1>7 DEF Whole

\* What a drain step places is the group it writes.
LEMMA PlacedNext ==
  ASSUME SysTypeOK, WalkInv, Drain,
         NEW mt \in 0 .. job.m - 1, NEW nt \in 0 .. job.n - 1, NEW r \in Idx, NEW g \in 0 .. 3,
         Placed(mt, nt, r, g)'
  PROVE  \/ Placed(mt, nt, r, g)
         \/ mt = at.m /\ nt = at.n /\ r = drain.row /\ g = drain.grp
<1>1. /\ state = "DRAIN" /\ job' = job /\ jobs' = jobs /\ clearRow' = clearRow
  BY DEF Drain, input
<1>2. /\ mt \in Nat /\ nt \in Nat /\ r \in Nat /\ g \in Nat /\ g <= 3 /\ r <= Dim - 1
      /\ mt < job.m /\ nt < job.n /\ job.m \in Nat /\ job.n \in Nat /\ Dim \in Nat
      /\ at.m \in Nat /\ at.n \in Nat /\ drain.row \in Nat /\ drain.grp \in 0 .. 3
      /\ drain.row <= Dim - 1
  BY FieldTypes, DimFacts DEF Idx
<1>3. CASE drain.grp < 3
  <2>1. drain' = [drain EXCEPT !.grp = @ + 1] /\ UNCHANGED <<state, at>>
    BY <1>3 DEF Drain, walk
  <2>2. drain'.row = drain.row /\ drain'.grp = drain.grp + 1
    BY <2>1 DEF SysTypeOK
  <2> QED
    BY <1>1, <1>2, <2>1, <2>2 DEF Placed
<1>4. CASE ~(drain.grp < 3) /\ drain.row < Dim - 1
  <2>1. drain' = [row |-> drain.row + 1, grp |-> 0] /\ UNCHANGED <<state, at>>
    BY <1>4 DEF Drain, walk
  <2> QED
    BY <1>1, <1>2, <1>4, <2>1 DEF Placed
<1>5. CASE ~(drain.grp < 3) /\ ~(drain.row < Dim - 1)
  <2>1. NextTile /\ rowAddr' = rowAddr /\ drain.grp = 3 /\ drain.row = Dim - 1
    BY <1>2, <1>5 DEF Drain
  <2>2. \/ state' = "INIT_TILE" /\ at'.m = at.m /\ at'.n = at.n + 1
        \/ state' = "INIT_TILE" /\ at'.m = at.m + 1 /\ at'.n = 0 /\ at.n + 1 = job.n
        \/ state' = "IDLE" /\ at.m + 1 = job.m /\ at.n + 1 = job.n
    BY <1>1, <2>1, DrainedStep
  <2>3. mt < at.m \/ (mt = at.m /\ nt <= at.n)
    BY <1>2, <2>2 DEF Placed
  <2> QED
    BY <1>1, <1>2, <2>1, <2>3 DEF Placed
<1> QED
  BY <1>3, <1>4, <1>5

\* The other steps place nothing.
LEMMA PlacedQuiet ==
  ASSUME SysTypeOK, WalkInv, [Next]_vars, ~Drain, ~Dispatch,
         NEW mt, NEW nt, NEW r \in Idx, NEW g \in 0 .. 3,
         Placed(mt, nt, r, g)'
  PROVE  Placed(mt, nt, r, g) /\ UNCHANGED <<job, jobs, before>>
<1> USE DEF Placed, input, walk
<1>1. CASE ClearPrep \/ ClearDst
  BY <1>1 DEF ClearPrep, ClearDst
<1>2. CASE InitTile
  BY <1>2 DEF InitTile
<1>3. CASE RequestA \/ RequestBLo \/ RequestBHi
  BY <1>3 DEF RequestA, RequestBLo, RequestBHi
<1>4. CASE LatchA
  BY <1>4 DEF LatchA
<1>5. CASE Step \/ Flush
  <2>1. /\ UNCHANGED <<job, jobs, before>> /\ Feeding
        /\ \/ Feeding' /\ at' = at
           \/ TileSummed
    BY <1>5 DEF Step, Flush, Feeding
  <2>2. CASE Feeding' /\ at' = at
    BY <2>1, <2>2 DEF Feeding
  <2>3. CASE TileSummed
    <3>1. UNCHANGED <<base, rowAddr, clearRow>>
      BY <1>5 DEF Step, Flush
    <3>2. at'.m = at.m /\ at'.n = at.n /\ state' \in {"A_REQ", "DRAIN_PREP"}
      BY <2>1, <2>3, <3>1, SummedStep
    <3> QED
      BY <2>1, <3>2
  <2> QED
    BY <2>1, <2>2, <2>3
<1>6. CASE DrainPrep
  <2>1. /\ state = "DRAIN_PREP" /\ drain' = [row |-> 0, grp |-> 0] /\ at' = at
        /\ state' = "DRAIN" /\ UNCHANGED <<job, jobs, before>>
    BY <1>6 DEF DrainPrep, WalkInv
  <2>2. ~(r < drain'.row) /\ ~(g < drain'.grp)
    BY <2>1 DEF Idx
  <2> QED
    BY <2>1, <2>2
<1>7. CASE Idle
  BY <1>7 DEF Idle
<1>8. CASE UNCHANGED vars
  BY <1>8 DEF vars, empty
<1> QED
  BY <1>1, <1>2, <1>3, <1>4, <1>5, <1>6, <1>7, <1>8 DEF Next, Work

\* What is placed stays, and what a drain adds is right.
LEMMA StoredStep ==
  ASSUME MaxLost = 0, JobsFit, SysTypeOK, WalkInv, SumInv, StoredInv, [Next]_vars
  PROVE  StoredInv'
<1>1. CASE Dispatch
  <2>1. at'.m = 0 /\ at'.n = 0 /\ state' \in {"CLEAR_PREP", "INIT_TILE"}
    BY <1>1 DEF Dispatch
  <2>2. \A mt \in Nat, nt \in Nat, r \in Idx, g \in 0 .. 3 : ~Placed(mt, nt, r, g)'
    BY <2>1 DEF Placed
  <2>3. job'.m \in Nat /\ job'.n \in Nat
    BY SysTypeStep DEF SysTypeOK, Job
  <2>4. ASSUME NEW mt \in 0 .. job'.m - 1, NEW nt \in 0 .. job'.n - 1,
               NEW r \in Idx, NEW g \in 0 .. 3
        PROVE  ~Placed(mt, nt, r, g)'
    <3>1. mt \in Nat /\ nt \in Nat
      BY <2>3
    <3> QED
      BY <2>2, <3>1
  <2> QED
    BY <2>4 DEF StoredInv
<1>2. CASE ~Dispatch
  <2>1. SUFFICES ASSUME Defined', jobs' > 0,
                        NEW mt \in 0 .. job'.m - 1, NEW nt \in 0 .. job'.n - 1, NEW r \in Idx,
                        NEW g \in 0 .. 3, Placed(mt, nt, r, g)', NEW l \in 0 .. Group - 1
                 PROVE  dstMem'[Address(mt, nt, r, g)'][l] = Whole(mt, nt, r, g, l)'
    BY DEF StoredInv, Whole
  <2>2. UNCHANGED <<job, jobs, before>>
    <3>1. Drain => UNCHANGED <<job, jobs, before>>
      BY DEF Drain, input
    <3> QED
      BY <1>2, <2>1, <3>1, PlacedQuiet
  <2>3. /\ Defined /\ jobs > 0 /\ mt \in 0 .. job.m - 1 /\ nt \in 0 .. job.n - 1
        /\ Address(mt, nt, r, g)' = Address(mt, nt, r, g)
        /\ Whole(mt, nt, r, g, l)' = Whole(mt, nt, r, g, l)
    BY <2>1, <2>2 DEF Defined, Address, Whole, Start, Products
  <2>4. SUFFICES dstMem'[Address(mt, nt, r, g)][l] = Whole(mt, nt, r, g, l)
    BY <2>3
  <2>5. Placed(mt, nt, r, g) => dstMem[Address(mt, nt, r, g)][l] = Whole(mt, nt, r, g, l)
    BY <2>3 DEF StoredInv, Whole
  <2>6. CASE Drain
    <3>1. CASE mt = at.m /\ nt = at.n /\ r = drain.row /\ g = drain.grp
      BY <2>3, <2>6, <3>1, DrainWrites
    <3>2. CASE ~(mt = at.m /\ nt = at.n /\ r = drain.row /\ g = drain.grp)
      <4>1. Placed(mt, nt, r, g)
        BY <2>1, <2>3, <2>6, <3>2, PlacedNext
      <4>2. /\ at.m \in 0 .. job.m - 1 /\ at.n \in 0 .. job.n - 1 /\ drain.row \in Idx
            /\ drain.grp \in 0 .. 3 /\ state = "DRAIN" /\ job \in Jobs
        BY <2>6, CurrentGroup DEF Drain
      <4>3. Address(mt, nt, r, g) # Address(at.m, at.n, drain.row, drain.grp)
        <5>1. mt \in 0 .. job.m - 1 /\ nt \in 0 .. job.n - 1
          BY <2>3
        <5>2. ASSUME Address(mt, nt, r, g) = Address(at.m, at.n, drain.row, drain.grp)
              PROVE  mt = at.m /\ nt = at.n /\ r = drain.row /\ g = drain.grp
          BY <4>2, <5>1, <5>2, AddressUnique
        <5> QED
          BY <3>2, <5>2
      <4>4. Address(mt, nt, r, g) \in DstRows
        <5>1. Address(mt, nt, r, g) \in job.dst .. job.dst + ClearRows(job) - 1
          BY <2>3, AddressInside
        <5> QED
          BY <4>2, <5>1 DEF JobsFit
      <4>5. dstMem'[Address(mt, nt, r, g)] = dstMem[Address(mt, nt, r, g)]
        <5>1. Address(mt, nt, r, g) # rowAddr + drain.grp
          BY <4>2, <4>3, DrainAddress
        <5> QED
          BY <2>6, <4>4, <5>1, OtherRows DEF Drain
      <4> QED
        BY <2>5, <4>1, <4>5
    <3> QED
      BY <3>1, <3>2
  <2>7. CASE ~Drain
    <3>1. Placed(mt, nt, r, g)
      BY <1>2, <2>1, <2>7, PlacedQuiet
    <3>2. ~ClearDst
      <4>1. mt \in Nat /\ nt \in Nat
        BY <2>3
      <4> QED
        BY <3>1, <4>1 DEF ClearDst, WalkInv, Placed
    <3>3. dstMem' = dstMem
      BY <2>7, <3>2, Writers
    <3> QED
      BY <2>5, <3>1, <3>3
  <2> QED
    BY <2>6, <2>7
<1> QED
  BY <1>1, <1>2

-----------------------------------------------------------------------------
(* The initial state, and the theorems.                                    *)

\* The reset state.
LEMMA SysInit == Init => SysInv
<1> SUFFICES ASSUME Init PROVE SysInv
  OBVIOUS
<1>1. SysTypeOK
  <2>1. /\ 0 \in Idx /\ 0 \in Nat /\ 0 \in 0 .. MaxLost /\ Zero \in Operand /\ Stale \in Operand
    BY DimFacts, BoundAssumption DEF Idx, Zero, Stale, Operand
  <2>2. NoJob \in Job
    BY DEF NoJob, Job
  <2>3. NoWord \in [Lane -> Operand] /\ bLo \in [Lane -> Operand]
    BY <2>1 DEF Init, NoWord, Lane
  <2>4. NoSums \in [PEs -> Sums]
    BY DEF NoSums, Sums
  <2>5. NoFlow \in [PEs -> Operand] /\ aTile \in [PEs -> Operand]
    BY <2>1 DEF Init, NoFlow
  <2>6. NoDelay \in [Idx -> [Delay -> Operand]]
    BY <2>1 DEF NoDelay, Delay
  <2>7. dstMem \in [DstRows -> [0 .. Group - 1 -> Sums \union Seq(Operand)]]
    <3>1. <<Stale>> \in Seq(Operand)
      BY <2>1
    <3> QED
      BY <3>1 DEF Init
  <2>8. /\ at \in [m : Nat, n : Nat, k : Nat] /\ load \in [row : Idx, half : {0, 1}]
        /\ drain \in [row : Idx, grp : 0 .. 3]
    BY <2>1 DEF Init
  <2> QED
    BY <2>1, <2>2, <2>3, <2>4, <2>5, <2>6, <2>7, <2>8 DEF Init, SysTypeOK, States
<1>2. WalkInv
  <2>1. job.n * Dim * 4 \in Nat
    BY <1>1, RowTypes
  <2>2. 0 * (job.n * Dim * 4) = 0
    BY <2>1
  <2> QED
    BY <2>2 DEF Init, WalkInv, NoJob
<1>3. OperandInv
  BY DEF Init, OperandInv, Loaded, Feeding
<1>4. FlowInv
  <2>1. \A r, t : FedA(r, t) = Zero /\ FedB(r, t) = Zero
    BY DEF Init, FedA, FedB, Feeding
  <2>2. \A r \in Idx, c \in Idx : <<r, c>> \in PEs
    BY DEF PEs
  <2> QED
    BY <2>1, <2>2 DEF Init, FlowInv, NoFlow, NoDelay, Delay
<1>5. SumInv
  BY DEF Init, SumInv, Summing, Feeding
<1>6. StoredInv
  BY DEF Init, StoredInv
<1> QED
  BY <1>1, <1>2, <1>3, <1>4, <1>5, <1>6 DEF SysInv

\* The walk over the tiles stays inside the job, whatever accesses are lost.
THEOREM SysWalkInvariance == Spec => [](SysTypeOK /\ WalkInv)
<1>1. Init => SysTypeOK /\ WalkInv
  BY SysInit DEF SysInv
<1>2. SysTypeOK /\ WalkInv /\ [Next]_vars => (SysTypeOK /\ WalkInv)'
  BY SysTypeStep, WalkStep
<1> QED
  BY <1>1, <1>2, PTL DEF Spec

\* OnlyDestination: MATMUL writes the rows of its destination and no others,
\* also when accesses of the controller are lost to the DMA engine.
THEOREM WritesOnlyTheResult == Spec => OnlyDestination
<1>1. SysTypeOK /\ WalkInv /\ [Next]_vars =>
        [\A row \in DstRows \ (job.dst .. job.dst + ClearRows(job) - 1) :
           dstMem'[row] = dstMem[row]]_vars
  BY DestinationStep
<1> QED
  BY <1>1, SysWalkInvariance, PTL DEF Spec, OnlyDestination

\* As long as the controller loses no access to the DMA engine, every operand
\* is where its age puts it and every sum holds the products it has seen.
THEOREM SumsAreExact ==
  ASSUME MaxLost = 0
  PROVE  Spec => [](SysTypeOK /\ WalkInv /\ OperandInv /\ FlowInv /\ SumInv)
<1> DEFINE Inv == SysTypeOK /\ WalkInv /\ OperandInv /\ FlowInv /\ SumInv
<1>1. Init => Inv
  BY SysInit DEF SysInv
<1>2. Inv /\ [Next]_vars => Inv'
  <2> SUFFICES ASSUME Inv, [Next]_vars PROVE Inv'
    OBVIOUS
  <2>1. SysTypeOK' /\ WalkInv'
    BY SysTypeStep, WalkStep
  <2>2. OperandInv' /\ FlowInv' /\ SumInv'
    BY OperandStep, FlowStep, SumStep
  <2> QED
    BY <2>1, <2>2
<1> QED
  BY <1>1, <1>2, PTL DEF Spec

\* The products of the last tile of K complete the element.
LEMMA AllProducts ==
  ASSUME NEW r \in Nat, NEW c \in Nat
  PROVE  Products(r, c, job.k * Dim) = Dot(r, c)
BY DEF Products, Dot

\* DrainedComplete: a tile is drained when, and only when, each of its sums is
\* complete, for every array width, every number of tiles and both array modes.
THEOREM DrainsWholeSums ==
  ASSUME MaxLost = 0
  PROVE  Spec => []DrainedComplete
<1>1. SysTypeOK /\ SumInv => DrainedComplete
  <2> SUFFICES ASSUME SysTypeOK, SumInv, state \in {"DRAIN_PREP", "DRAIN"}, Defined, NEW p \in PEs
               PROVE  acc[p] = Start(p[1], p[2]) \o Dot(at.m * Dim + p[1], at.n * Dim + p[2])
    BY DEF DrainedComplete
  <2>1. PICK r \in Idx, c \in Idx : p = <<r, c>>
    BY DEF PEs
  <2>2. Complete(r, c) = job.k * Dim /\ Summing
    BY DEF Complete, Summing
  <2>3. acc[<<r, c>>] = Start(r, c)
                          \o Products(at.m * Dim + r, at.n * Dim + c, job.k * Dim)
    BY <2>2 DEF SumInv
  <2>4. at.m * Dim + r \in Nat /\ at.n * Dim + c \in Nat
    <3>1. at.m * Dim \in Nat /\ at.n * Dim \in Nat
      BY FieldTypes, DimFacts, NatProduct
    <3> QED
      BY <3>1, DimFacts DEF Idx
  <2>5. Products(at.m * Dim + r, at.n * Dim + c, job.k * Dim)
          = Dot(at.m * Dim + r, at.n * Dim + c)
    BY <2>4, AllProducts
  <2> QED
    BY <2>1, <2>3, <2>5
<1> QED
  BY <1>1, SumsAreExact, PTL

\* A number below a product is a block and a place in it.
LEMMA Split ==
  ASSUME NEW x \in Nat, NEW y \in Nat, 0 < y, NEW i \in Nat, i < x * y
  PROVE  \E a \in 0 .. x - 1, b \in 0 .. y - 1 : i = a * y + b
<1> DEFINE a == i \div y
           b == i % y
<1>1. a \in Nat /\ b \in 0 .. y - 1 /\ i = a * y + b
  OBVIOUS
<1> HIDE DEF a, b
<1>2. a < x
  <2>1. CASE x <= a
    <3>1. PICK d \in Nat : a = x + d
      <4>1. a - x \in Nat /\ a = x + (a - x)
        BY <1>1, <2>1
      <4> QED
        BY <4>1
    <3>2. (x + d) * y = x * y + d * y /\ x * y \in Nat /\ d * y \in Nat
      OBVIOUS
    <3> QED
      BY <1>1, <3>1, <3>2
  <2> QED
    BY <1>1, <2>1
<1> QED
  BY <1>1, <1>2

\* A row or column of a matrix is one of a tile.
LEMMA SplitDim ==
  ASSUME NEW x, x \in Nat, NEW i, i \in Nat, i < x * Dim
  PROVE  \E a \in 0 .. x - 1, b \in 0 .. Dim - 1 : i = a * Dim + b
<1> DEFINE y == Dim
<1>1. y \in Nat /\ 0 < y /\ i < x * y
  BY DimFacts
<1> HIDE DEF y
<1>2. \E a \in 0 .. x - 1, b \in 0 .. y - 1 : i = a * y + b
  BY <1>1, Split
<1> QED
  BY <1>2 DEF y

\* The block and the place are the quotient and the remainder.
LEMMA Quotient ==
  ASSUME NEW y \in Nat, NEW a \in Nat, NEW b \in 0 .. y - 1
  PROVE  (a * y + b) \div y = a /\ (a * y + b) % y = b
<1> DEFINE i == a * y + b
           d == i \div y
           e == i % y
<1>1. i \in Nat /\ d \in Nat /\ e \in 0 .. y - 1 /\ i = d * y + e
  <2>1. a * y \in Nat /\ 0 < y
    BY NatProduct
  <2>2. i \in Nat
    BY <2>1
  <2> HIDE DEF i
  <2> QED
    BY <2>1, <2>2
<1>2. d * y + e = a * y + b
  BY <1>1
<1> HIDE DEF d, e
<1>3. d = a /\ e = b
  BY <1>1, <1>2, BlockUnique
<1> QED
  BY <1>3 DEF d, e

\* ProductStored: after a MATMUL the destination holds the whole product,
\* row-major, if it fits into the buffer.
THEOREM StoresTheProduct ==
  ASSUME MaxLost = 0, JobsFit
  PROVE  Spec => []ProductStored
<1>1. Init => SysInv
  BY SysInit
<1>2. SysInv /\ [Next]_vars => SysInv'
  <2> SUFFICES ASSUME SysInv, [Next]_vars PROVE SysInv'
    OBVIOUS
  <2>0. SysTypeOK /\ WalkInv /\ OperandInv /\ FlowInv /\ SumInv /\ StoredInv
    BY DEF SysInv
  <2>1. SysTypeOK' /\ WalkInv'
    BY <2>0, SysTypeStep, WalkStep
  <2>2. OperandInv' /\ FlowInv' /\ SumInv'
    BY <2>0, OperandStep, FlowStep, SumStep
  <2>3. StoredInv'
    BY <2>0, StoredStep
  <2> QED
    BY <2>1, <2>2, <2>3 DEF SysInv
<1>3. SysInv => ProductStored
  <2> SUFFICES ASSUME SysTypeOK, StoredInv, state = "IDLE", jobs > 0, Defined,
                      NEW r \in 0 .. job.m * Dim - 1, NEW c \in 0 .. job.n * Dim - 1
               PROVE  dstMem[job.dst + r * 4 * job.n + c \div Group][c % Group]
                        = Start(r, c) \o Dot(r, c)
    BY DEF SysInv, ProductStored
  <2>1. /\ job.m \in Nat /\ job.n \in Nat /\ job.dst \in Nat /\ Dim \in Nat /\ 0 < Dim
        /\ Group \in Nat /\ 0 < Group /\ Dim = 4 * Group
    BY FieldTypes, DimFacts
  <2>2. r \in Nat /\ c \in Nat /\ r < job.m * Dim /\ c < job.n * Dim
    <3>1. job.m * Dim \in Nat /\ job.n * Dim \in Nat
      BY <2>1, NatProduct
    <3> QED
      BY <3>1
  <2>3. PICK mt \in 0 .. job.m - 1, rr \in 0 .. Dim - 1 : r = mt * Dim + rr
    BY <2>1, <2>2, SplitDim
  <2>4. PICK nt \in 0 .. job.n - 1, e \in 0 .. Dim - 1 : c = nt * Dim + e
    BY <2>1, <2>2, SplitDim
  <2>5. PICK g \in 0 .. 3, l \in 0 .. Group - 1 : e = g * Group + l
    <3>1. e \in Nat /\ e < 4 * Group
      BY <2>1
    <3>2. \E x \in 0 .. 4 - 1, y \in 0 .. Group - 1 : e = x * Group + y
      BY <2>1, <3>1, Split
    <3> QED
      BY <3>2
  <2>6. /\ mt \in Nat /\ rr \in Nat /\ nt \in Nat /\ g \in Nat /\ l \in Nat
    BY <2>1
  <2>7. c \div Group = 4 * nt + g /\ c % Group = l
    <3>1. c = (4 * nt + g) * Group + l
      <4>1. \A n, q, p, i \in Nat : n * (4 * q) + (p * q + i) = (4 * n + p) * q + i
        OBVIOUS
      <4> QED
        BY <2>1, <2>4, <2>5, <2>6, <4>1
    <3>2. 4 * nt + g \in Nat
      BY <2>6
    <3> QED
      BY <2>1, <3>1, <3>2, Quotient
  <2>8. job.dst + r * 4 * job.n + c \div Group = Address(mt, nt, rr, g)
    <3>1. \A d, q, n, b \in Nat : d + q * 4 * n + b = d + q * (4 * n) + b
      OBVIOUS
    <3>2. 4 * nt + g \in Nat
      BY <2>6
    <3> QED
      BY <2>1, <2>2, <2>3, <2>7, <3>1, <3>2 DEF Address
  <2>9. dstMem[Address(mt, nt, rr, g)][l]
          = Start(mt * Dim + rr, nt * Dim + (g * Group + l))
              \o Products(mt * Dim + rr, nt * Dim + (g * Group + l), job.k * Dim)
    <3>1. Placed(mt, nt, rr, g) /\ rr \in Idx
      BY DEF Placed, Idx
    <3> QED
      BY <3>1 DEF StoredInv
  <2>10. dstMem[Address(mt, nt, rr, g)][l] = Start(r, c) \o Products(r, c, job.k * Dim)
    BY <2>3, <2>4, <2>5, <2>9
  <2> QED
    BY <2>2, <2>7, <2>8, <2>10, AllProducts
<1> QED
  BY <1>1, <1>2, <1>3, PTL DEF Spec

=============================================================================
