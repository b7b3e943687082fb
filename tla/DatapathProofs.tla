--------------------------- MODULE DatapathProofs ---------------------------
(***************************************************************************)
(* The helper engine and the SFU for every matrix size, buffer size and    *)
(* tile width: no walk leaves the rows that were checked at dispatch, and  *)
(* when it ends memory holds the result of the instruction and nothing     *)
(* else.                                                                   *)
(***************************************************************************)
EXTENDS DatapathInv, TLAPS

-----------------------------------------------------------------------------
(* Arithmetic.                                                             *)

\* A tile is two halves wide.
LEMMA DimFacts == Half \in Nat /\ 0 < Half /\ Dim = 2 * Half /\ Dim \in Nat
BY DimAssumption DEF Half

\* A product of numbers is a number.
LEMMA NatProduct == \A a, b \in Nat : a * b \in Nat
OBVIOUS

\* Element b of block a, of x blocks of y elements.
LEMMA Block ==
  ASSUME NEW x \in Nat, NEW y \in Nat, NEW a \in Nat, NEW b \in Nat, a < x, b < y
  PROVE  a * y + b \in Nat /\ a * y + b < x * y
<1>1. PICK d \in Nat : x = a + 1 + d
  <2>1. x - a - 1 \in Nat /\ x = a + 1 + (x - a - 1)
    OBVIOUS
  <2> QED
    BY <2>1
<1>2. (a + 1 + d) * y = a * y + y + d * y
  OBVIOUS
<1>3. a * y \in Nat /\ d * y \in Nat
  OBVIOUS
<1> QED
  BY <1>1, <1>2, <1>3

\* Division without remainder.
LEMMA Exact ==
  ASSUME NEW x \in Nat, NEW y \in Nat, 0 < y, x % y = 0
  PROVE  x \div y \in Nat /\ x = (x \div y) * y
OBVIOUS

\* The quotient of a multiple.
LEMMA Quotient ==
  ASSUME NEW a \in Nat, NEW y \in Nat, 0 < y
  PROVE  (a * y) \div y = a
<1> DEFINE q == (a * y) \div y
           r == (a * y) % y
<1>1. q \in Nat /\ r \in 0 .. y - 1 /\ a * y = q * y + r
  <2>1. a * y \in Nat
    BY NatProduct
  <2> DEFINE p == a * y
  <2>2. p \in Nat
    BY <2>1
  <2> HIDE DEF p
  <2>3. p \div y \in Nat /\ p % y \in 0 .. y - 1 /\ p = (p \div y) * y + (p % y)
    BY <2>2
  <2> QED
    BY <2>3 DEF p
<1> HIDE DEF q, r
<1>2. CASE q < a
  <2>1. q * y + r < a * y
    BY <1>1, <1>2, Block
  <2> QED
    BY <1>1, <2>1
<1>3. CASE a < q
  <2>1. a * y + 0 < q * y
    BY <1>1, <1>3, Block
  <2>2. q * y \in Nat /\ a * y \in Nat
    BY <1>1, NatProduct
  <2> QED
    BY <1>1, <2>1, <2>2
<1> QED
  BY <1>1, <1>2, <1>3 DEF q

\* The blocks of a transpose tile its source and its destination.
LEMMA TransposeShape ==
  ASSUME NEW j \in Helper!Job, ~Helper!Unsupported(j),
         j.op = "BUF_COPY", j.transpose, j.length # 0
  PROVE  /\ Across(j) \in Nat /\ Down(j) \in Nat /\ 0 < Across(j) /\ 0 < Down(j)
         /\ Helper!Columns(j) = Across(j) * Half /\ Helper!Lines(j) = Down(j) * Half
         /\ j.length = Helper!Lines(j) * Across(j)
         /\ j.length = Helper!Columns(j) * Down(j)
<1> DEFINE s == j.srcRows
           b == j.length \div s
           c == b \div 2
           h == Half
           x == c \div h
           t == s * Dim
           y == t \div h
<1>1. /\ j.length \in Nat /\ s \in Nat /\ 0 < s /\ j.length % s = 0
      /\ ~Helper!Misaligned(j)
  BY DEF Helper!Job, Helper!Unsupported
<1>2. /\ Helper!LineBytes(j) = b /\ Helper!Columns(j) = c /\ Helper!Lines(j) = t
      /\ Across(j) = x /\ Down(j) = y
  BY <1>1 DEF Helper!LineBytes, Helper!Columns, Helper!Lines, Across, Down
<1>3. b % 2 = 0 /\ c % h = 0 /\ t % h = 0
  BY <1>1, <1>2 DEF Helper!Misaligned, Helper!Half, Half
<1>4. h \in Nat /\ 0 < h /\ Dim = 2 * h /\ Dim \in Nat
  BY DimFacts
<1>5. b \in Nat /\ j.length = b * s
  BY <1>1, Exact
<1> HIDE DEF s, b
<1>6. c \in Nat /\ b = c * 2
  BY <1>3, <1>5, Exact
<1> HIDE DEF c, h
<1>7. x \in Nat /\ c = x * h
  BY <1>3, <1>4, <1>6, Exact
<1>8. t \in Nat /\ t = s * (2 * h)
  BY <1>1, <1>4, NatProduct
<1> HIDE DEF t
<1>9. y \in Nat /\ t = y * h
  BY <1>3, <1>4, <1>8, Exact
<1> HIDE DEF x, y
<1>10. ((x * h) * 2) * s = (s * (2 * h)) * x
  BY <1>1, <1>4, <1>7
<1>11. (y * h) * x = (x * h) * y
  BY <1>4, <1>7, <1>9
<1>12. j.length = t * x
  BY <1>5, <1>6, <1>7, <1>8, <1>10
<1>13. j.length = c * y
  BY <1>7, <1>9, <1>11, <1>12
<1>14. 0 < x /\ 0 < y
  <2>1. x # 0
    <3>1. t * 0 = 0
      BY <1>8
    <3> QED
      BY <1>12, <3>1
  <2>2. y # 0
    <3>1. c * 0 = 0
      BY <1>6
    <3> QED
      BY <1>13, <3>1
  <2> QED
    BY <1>7, <1>9, <2>1, <2>2
<1> QED
  BY <1>2, <1>7, <1>9, <1>12, <1>13, <1>14 DEF h

\* The block a walk is at, by its numbers.
LEMMA Blocks ==
  ASSUME NEW r, NEW c, NEW down \in Nat, NEW across \in Nat
  PROVE  AtBlock(r, c, down, across) <=>
           \E a, b \in Nat : /\ a < down /\ r = a * Half
                             /\ b < across /\ c = b * Half
<1>1. \A n \in Nat : \A a : a \in 0 .. n - 1 <=> a \in Nat /\ a < n
  OBVIOUS
<1> QED
  BY <1>1 DEF AtBlock

-----------------------------------------------------------------------------
(* The helper engine.                                                      *)

\* The fields of a job that its walk is about.
LEMMA HelperJobTypes ==
  ASSUME NEW j \in HelperJobs
  PROVE  /\ j \in Helper!Job
         /\ j.op \in {"BUF_COPY", "VADD", "SCALE_MUL"}
         /\ j.m \in Nat /\ j.n \in Nat /\ 0 < j.m /\ 0 < j.n /\ j.length \in Nat
         /\ j.src1.buf \in Buffers /\ j.src2.buf \in Buffers /\ j.dst.buf \in Buffers
         /\ j.src1.off \in Nat /\ j.src2.off \in Nat /\ j.dst.off \in Nat
         /\ j.transpose \in BOOLEAN
BY JobAssumption DEF Helper!Job, Helper!Place, Helper!Buffers, Buffers

\* The rows of the matrices of an instruction.
LEMMA MatrixSize ==
  ASSUME NEW m \in Nat, NEW n \in Nat, 0 < m, 0 < n
  PROVE  /\ m * Dim \in Nat /\ 0 < m * Dim
         /\ (m * Dim) * (2 * n) \in Nat /\ 0 < (m * Dim) * (2 * n)
         /\ (m * Dim) * (4 * n) = 2 * ((m * Dim) * (2 * n))
<1>1. Dim \in Nat /\ 0 < Dim
  BY DimFacts
<1>2. \A x, y \in Nat : 0 < x /\ 0 < y => x * y \in Nat /\ 0 < x * y
  <2> TAKE x, y \in Nat
  <2>1. 0 < x /\ 0 < y => 0 * y + 0 < x * y
    BY Block
  <2> QED
    BY <2>1, NatProduct
<1>3. m * Dim \in Nat /\ 0 < m * Dim
  BY <1>1, <1>2
<1> DEFINE d == m * Dim
<1> HIDE DEF d
<1>4. d \in Nat /\ 0 < d
  BY <1>3 DEF d
<1>5. 2 * n \in Nat /\ 0 < 2 * n
  OBVIOUS
<1>6. d * (2 * n) \in Nat /\ 0 < d * (2 * n)
  BY <1>2, <1>4, <1>5
<1>7. d * (4 * n) = 2 * (d * (2 * n))
  BY <1>4
<1> QED
  BY <1>3, <1>6, <1>7 DEF d

\* The counters keep their types.
LEMMA HelperCounterTypes ==
  /\ \A r \in HelperCounters, x \in Nat : [r EXCEPT !.step = x] \in HelperCounters
  /\ \A r \in HelperCounters, x \in Nat : [r EXCEPT !.src = x] \in HelperCounters
  /\ \A r \in HelperCounters, x \in Nat : [r EXCEPT !.dst = x] \in HelperCounters
  /\ \A r \in HelperCounters, x \in Nat : [r EXCEPT !.half = x] \in HelperCounters
  /\ \A r \in HelperCounters, x \in Nat : [r EXCEPT !.part = x] \in HelperCounters
  /\ \A r \in HelperCounters, x \in Nat : [r EXCEPT !.chunk = x] \in HelperCounters
  /\ \A r \in HelperCounters, x \in Nat, b \in BOOLEAN :
       [r EXCEPT !.step = x, !.backward = b] \in HelperCounters
  /\ \A r \in HelperCounters, x, y \in Nat :
       [r EXCEPT !.step = x, !.part = y] \in HelperCounters
  /\ \A r \in HelperCounters, x, y \in Nat :
       [r EXCEPT !.cbase = x, !.src = y] \in HelperCounters
  /\ \A r \in HelperCounters, x, y \in Nat : [r EXCEPT !.row = x, !.half = y] \in HelperCounters
  /\ \A r \in HelperCounters, x, y \in Nat : [r EXCEPT !.half = x, !.row = y] \in HelperCounters
  /\ \A r \in HelperCounters, x, y, z \in Nat :
       [r EXCEPT !.rbase = x, !.cbase = y, !.src = z] \in HelperCounters
  /\ \A r \in HelperCounters, x, y, z \in Nat :
       [r EXCEPT !.chunk = x, !.half = y, !.row = z] \in HelperCounters
  /\ \A r \in HelperCounters, x, y, z, u \in Nat :
       [r EXCEPT !.rbase = x, !.cbase = y, !.src = z, !.dst = u] \in HelperCounters
<1>1. \A r \in HelperCounters, x \in Nat : [r EXCEPT !.step = x] \in HelperCounters
  BY DEF HelperCounters
<1>2. \A r \in HelperCounters, x \in Nat : [r EXCEPT !.src = x] \in HelperCounters
  BY DEF HelperCounters
<1>3. \A r \in HelperCounters, x \in Nat : [r EXCEPT !.dst = x] \in HelperCounters
  BY DEF HelperCounters
<1>4. \A r \in HelperCounters, x \in Nat : [r EXCEPT !.half = x] \in HelperCounters
  BY DEF HelperCounters
<1>5. \A r \in HelperCounters, x \in Nat : [r EXCEPT !.part = x] \in HelperCounters
  BY DEF HelperCounters
<1>6. \A r \in HelperCounters, x \in Nat : [r EXCEPT !.chunk = x] \in HelperCounters
  BY DEF HelperCounters
<1>7. \A r \in HelperCounters, x \in Nat, b \in BOOLEAN :
        [r EXCEPT !.step = x, !.backward = b] \in HelperCounters
  <2> TAKE r \in HelperCounters, x \in Nat, b \in BOOLEAN
  <2>1. [r EXCEPT !.step = x, !.backward = b]
          = [[r EXCEPT !.step = x] EXCEPT !.backward = b]
    BY DEF HelperCounters
  <2>2. [r EXCEPT !.step = x] \in HelperCounters
    BY DEF HelperCounters
  <2>3. [[r EXCEPT !.step = x] EXCEPT !.backward = b] \in HelperCounters
    BY <2>2 DEF HelperCounters
  <2> QED
    BY <2>1, <2>3
<1>8. \A r \in HelperCounters, x, y \in Nat :
        [r EXCEPT !.step = x, !.part = y] \in HelperCounters
  <2> TAKE r \in HelperCounters, x, y \in Nat
  <2>1. [r EXCEPT !.step = x, !.part = y]
          = [[r EXCEPT !.step = x] EXCEPT !.part = y]
    BY DEF HelperCounters
  <2>2. [r EXCEPT !.step = x] \in HelperCounters
    BY DEF HelperCounters
  <2>3. [[r EXCEPT !.step = x] EXCEPT !.part = y] \in HelperCounters
    BY <2>2 DEF HelperCounters
  <2> QED
    BY <2>1, <2>3
<1>9. \A r \in HelperCounters, x, y \in Nat :
        [r EXCEPT !.cbase = x, !.src = y] \in HelperCounters
  <2> TAKE r \in HelperCounters, x, y \in Nat
  <2>1. [r EXCEPT !.cbase = x, !.src = y]
          = [[r EXCEPT !.cbase = x] EXCEPT !.src = y]
    BY DEF HelperCounters
  <2>2. [r EXCEPT !.cbase = x] \in HelperCounters
    BY DEF HelperCounters
  <2>3. [[r EXCEPT !.cbase = x] EXCEPT !.src = y] \in HelperCounters
    BY <2>2 DEF HelperCounters
  <2> QED
    BY <2>1, <2>3
<1>10. \A r \in HelperCounters, x, y \in Nat :
         [r EXCEPT !.row = x, !.half = y] \in HelperCounters
  <2> TAKE r \in HelperCounters, x, y \in Nat
  <2>1. [r EXCEPT !.row = x, !.half = y]
          = [[r EXCEPT !.row = x] EXCEPT !.half = y]
    BY DEF HelperCounters
  <2>2. [r EXCEPT !.row = x] \in HelperCounters
    BY DEF HelperCounters
  <2>3. [[r EXCEPT !.row = x] EXCEPT !.half = y] \in HelperCounters
    BY <2>2 DEF HelperCounters
  <2> QED
    BY <2>1, <2>3
<1>11. \A r \in HelperCounters, x, y \in Nat :
         [r EXCEPT !.half = x, !.row = y] \in HelperCounters
  <2> TAKE r \in HelperCounters, x, y \in Nat
  <2>1. [r EXCEPT !.half = x, !.row = y]
          = [[r EXCEPT !.half = x] EXCEPT !.row = y]
    BY DEF HelperCounters
  <2>2. [r EXCEPT !.half = x] \in HelperCounters
    BY DEF HelperCounters
  <2>3. [[r EXCEPT !.half = x] EXCEPT !.row = y] \in HelperCounters
    BY <2>2 DEF HelperCounters
  <2> QED
    BY <2>1, <2>3
<1>12. \A r \in HelperCounters, x, y, z \in Nat :
         [r EXCEPT !.rbase = x, !.cbase = y, !.src = z] \in HelperCounters
  <2> TAKE r \in HelperCounters, x, y, z \in Nat
  <2>1. [r EXCEPT !.rbase = x, !.cbase = y, !.src = z]
          = [[[r EXCEPT !.rbase = x] EXCEPT !.cbase = y] EXCEPT !.src = z]
    BY DEF HelperCounters
  <2>2. [r EXCEPT !.rbase = x] \in HelperCounters
    BY DEF HelperCounters
  <2>3. [[r EXCEPT !.rbase = x] EXCEPT !.cbase = y] \in HelperCounters
    BY <2>2 DEF HelperCounters
  <2>4. [[[r EXCEPT !.rbase = x] EXCEPT !.cbase = y] EXCEPT !.src = z] \in HelperCounters
    BY <2>3 DEF HelperCounters
  <2> QED
    BY <2>1, <2>4
<1>13. \A r \in HelperCounters, x, y, z \in Nat :
         [r EXCEPT !.chunk = x, !.half = y, !.row = z] \in HelperCounters
  <2> TAKE r \in HelperCounters, x, y, z \in Nat
  <2>1. [r EXCEPT !.chunk = x, !.half = y, !.row = z]
          = [[[r EXCEPT !.chunk = x] EXCEPT !.half = y] EXCEPT !.row = z]
    BY DEF HelperCounters
  <2>2. [r EXCEPT !.chunk = x] \in HelperCounters
    BY DEF HelperCounters
  <2>3. [[r EXCEPT !.chunk = x] EXCEPT !.half = y] \in HelperCounters
    BY <2>2 DEF HelperCounters
  <2>4. [[[r EXCEPT !.chunk = x] EXCEPT !.half = y] EXCEPT !.row = z] \in HelperCounters
    BY <2>3 DEF HelperCounters
  <2> QED
    BY <2>1, <2>4
<1>14. \A r \in HelperCounters, x, y, z, u \in Nat :
         [r EXCEPT !.rbase = x, !.cbase = y, !.src = z, !.dst = u] \in HelperCounters
  <2> TAKE r \in HelperCounters, x, y, z, u \in Nat
  <2>1. [r EXCEPT !.rbase = x, !.cbase = y, !.src = z, !.dst = u]
          = [[[[r EXCEPT !.rbase = x] EXCEPT !.cbase = y] EXCEPT !.src = z] EXCEPT !.dst = u]
    BY DEF HelperCounters
  <2>2. [r EXCEPT !.rbase = x] \in HelperCounters
    BY DEF HelperCounters
  <2>3. [[r EXCEPT !.rbase = x] EXCEPT !.cbase = y] \in HelperCounters
    BY <2>2 DEF HelperCounters
  <2>4. [[[r EXCEPT !.rbase = x] EXCEPT !.cbase = y] EXCEPT !.src = z] \in HelperCounters
    BY <2>3 DEF HelperCounters
  <2>5. [[[[r EXCEPT !.rbase = x] EXCEPT !.cbase = y] EXCEPT !.src = z] EXCEPT !.dst = u]
           \in HelperCounters
    BY <2>4 DEF HelperCounters
  <2> QED
    BY <2>1, <2>5
<1> QED
  BY <1>1, <1>2, <1>3, <1>4, <1>5, <1>6, <1>7, <1>8, <1>9, <1>10, <1>11, <1>12, <1>13, <1>14

\* The counters an instruction begins with.
LEMMA FirstCounters ==
  ASSUME hAt \in HelperCounters, NEW j
  PROVE  /\ Helper!FirstAt(j) \in HelperCounters
         /\ Helper!FirstState(j) \in {"FLAT_READ", "V16_READ", "SM1_REQ", "SM2_REQ"}
              => Helper!FirstAt(j).step = 0
         /\ Helper!FirstState(j) = "SM2_REQ" => Helper!FirstAt(j).part = 0
         /\ Helper!FirstState(j) = "VB_REQ" => Helper!FirstAt(j).chunk = 0
         /\ Helper!FirstState(j) = "TSRC_REQ" =>
              /\ Helper!FirstAt(j).rbase = 0 /\ Helper!FirstAt(j).cbase = 0
              /\ Helper!FirstAt(j).src = 0
<1>1. Helper!GoesBackward(j) \in BOOLEAN
  BY DEF Helper!GoesBackward
<1> DEFINE first == Helper!FirstState(j)
           at    == Helper!FirstAt(j)
<1> HIDE DEF first
<1>2. CASE first = "FLAT_READ"
  <2>1. at = [hAt EXCEPT !.step = 0, !.backward = Helper!GoesBackward(j)]
    BY <1>2 DEF first, Helper!FirstAt
  <2>2. [hAt EXCEPT !.step = 0, !.backward = Helper!GoesBackward(j)] \in HelperCounters
    BY <1>1, HelperCounterTypes
  <2>3. hAt \in HelperCounters
    OBVIOUS
  <2>4. at.step = 0
    BY <2>1, <2>3 DEF HelperCounters
  <2>5. at \in HelperCounters
    BY <2>1, <2>2
  <2> HIDE DEF at
  <2> QED
    BY <1>2, <2>4, <2>5 DEF first, at
<1>3. CASE first = "TSRC_REQ"
  <2>1. at = [hAt EXCEPT !.rbase = 0, !.cbase = 0, !.src = 0, !.dst = 0]
    BY <1>3 DEF first, Helper!FirstAt
  <2>2. [hAt EXCEPT !.rbase = 0, !.cbase = 0, !.src = 0, !.dst = 0] \in HelperCounters
    BY HelperCounterTypes
  <2>3. hAt \in HelperCounters
    OBVIOUS
  <2>4. at.rbase = 0 /\ at.cbase = 0 /\ at.src = 0
    BY <2>1, <2>3 DEF HelperCounters
  <2>5. at \in HelperCounters
    BY <2>1, <2>2
  <2> HIDE DEF at
  <2> QED
    BY <1>3, <2>4, <2>5 DEF first, at
<1>4. CASE first = "VB_REQ"
  <2>1. at = [hAt EXCEPT !.chunk = 0, !.half = 0, !.row = 0]
    BY <1>4 DEF first, Helper!FirstAt
  <2>2. [hAt EXCEPT !.chunk = 0, !.half = 0, !.row = 0] \in HelperCounters
    BY HelperCounterTypes
  <2>3. hAt \in HelperCounters
    OBVIOUS
  <2>4. at.chunk = 0
    BY <2>1, <2>3 DEF HelperCounters
  <2>5. at \in HelperCounters
    BY <2>1, <2>2
  <2> HIDE DEF at
  <2> QED
    BY <1>4, <2>4, <2>5 DEF first, at
<1>5. CASE first = "SM2_REQ"
  <2>1. at = [hAt EXCEPT !.step = 0, !.part = 0]
    BY <1>5 DEF first, Helper!FirstAt
  <2>2. [hAt EXCEPT !.step = 0, !.part = 0] \in HelperCounters
    BY HelperCounterTypes
  <2>3. hAt \in HelperCounters
    OBVIOUS
  <2>4. at.step = 0 /\ at.part = 0
    BY <2>1, <2>3 DEF HelperCounters
  <2>5. at \in HelperCounters
    BY <2>1, <2>2
  <2> HIDE DEF at
  <2> QED
    BY <1>5, <2>4, <2>5 DEF first, at
<1>6. CASE first \in {"V16_READ", "SM1_REQ"}
  <2>1. at = [hAt EXCEPT !.step = 0]
    BY <1>6 DEF first, Helper!FirstAt
  <2>2. [hAt EXCEPT !.step = 0] \in HelperCounters
    BY HelperCounterTypes
  <2>3. hAt \in HelperCounters
    OBVIOUS
  <2>4. at.step = 0
    BY <2>1, <2>3 DEF HelperCounters
  <2>5. at \in HelperCounters
    BY <2>1, <2>2
  <2> HIDE DEF at
  <2> QED
    BY <1>6, <2>4, <2>5 DEF first, at
<1>7. CASE first \notin {"FLAT_READ", "TSRC_REQ", "VB_REQ", "SM2_REQ", "V16_READ", "SM1_REQ"}
  <2>1. at = hAt
    BY <1>7 DEF first, Helper!FirstAt
  <2> QED
    BY <1>7, <2>1 DEF first
<1> QED
  BY <1>2, <1>3, <1>4, <1>5, <1>6, <1>7

\* The rows of a matrix, by the width of its elements.
LEMMA RowsOfMatrix ==
  ASSUME NEW j \in HelperJobs, NEW p
  PROVE  /\ MatrixRows(p, j) \in Nat /\ 0 < MatrixRows(p, j)
         /\ Helper!MatrixRows(p, j) = MatrixRows(p, j)
         /\ p.buf # "ACCUM" => MatrixRows(p, j) = (j.m * Dim) * (2 * j.n)
         /\ p.buf = "ACCUM" => /\ MatrixRows(p, j) = (j.m * Dim) * (4 * j.n)
                               /\ MatrixRows(p, j) = 2 * ((j.m * Dim) * (2 * j.n))
<1>1. j.m \in Nat /\ j.n \in Nat /\ 0 < j.m /\ 0 < j.n
  BY HelperJobTypes
<1> DEFINE x == (j.m * Dim) * (2 * j.n)
           y == (j.m * Dim) * (4 * j.n)
<1>2. x \in Nat /\ 0 < x /\ y = 2 * x
  BY <1>1, MatrixSize
<1>3. /\ Helper!MatrixRows(p, j) = MatrixRows(p, j)
      /\ p.buf # "ACCUM" => MatrixRows(p, j) = x
      /\ p.buf = "ACCUM" => MatrixRows(p, j) = y
  BY DEF MatrixRows, LineRows, Helper!MatrixRows, Helper!LineRows
<1> HIDE DEF x, y
<1> QED
  BY <1>2, <1>3 DEF x, y

\* An instruction begins its own walk, and none if it was not accepted.
LEMMA FirstStates ==
  ASSUME NEW j \in HelperJobs
  PROVE  LET first == Helper!FirstState(j) IN
         /\ first \in {"IDLE", "FAULT", "FLAT_READ", "TSRC_REQ", "V16_READ", "VB_REQ", "SM1_REQ",
                       "SM2_REQ"}
         /\ first \notin {"IDLE", "FAULT"} => HelperAccepted(j)
         /\ first = "FLAT_READ" => j.op = "BUF_COPY" /\ j.length # 0
         /\ first = "TSRC_REQ" => j.op = "BUF_COPY" /\ j.length # 0 /\ j.transpose
         /\ first = "V16_READ" => j.op = "VADD" /\ Helper!IsVaddFp16(j)
         /\ first = "VB_REQ" => j.op = "VADD" /\ Helper!IsVaddBias(j)
         /\ first = "SM1_REQ" => j.op = "SCALE_MUL" /\ ~Helper!Narrows(j)
         /\ first = "SM2_REQ" => j.op = "SCALE_MUL" /\ Helper!Narrows(j)
<1>1. CASE Helper!Unsupported(j) \/ Helper!OutOfBounds(j)
  BY <1>1 DEF Helper!FirstState
<1>2. CASE ~(Helper!Unsupported(j) \/ Helper!OutOfBounds(j))
  <2>1. HelperAccepted(j)
    BY <1>2 DEF HelperAccepted
  <2>2. j.op = "VADD" /\ ~Helper!IsVaddFp16(j) => Helper!IsVaddBias(j)
    BY <1>2 DEF Helper!Unsupported
  <2>3. j.op \in {"BUF_COPY", "VADD", "SCALE_MUL"} /\ j.transpose \in BOOLEAN
    BY HelperJobTypes
  <2>4. CASE j.op = "BUF_COPY"
    <3>1. Helper!FirstState(j) = IF j.length = 0 THEN "IDLE"
                                 ELSE IF j.transpose THEN "TSRC_REQ" ELSE "FLAT_READ"
      BY <1>2, <2>3, <2>4 DEF Helper!FirstState
    <3> QED
      BY <2>1, <2>4, <3>1
  <2>5. CASE j.op = "VADD"
    <3>1. Helper!FirstState(j) = IF Helper!IsVaddFp16(j) THEN "V16_READ" ELSE "VB_REQ"
      BY <1>2, <2>5 DEF Helper!FirstState
    <3> QED
      BY <2>1, <2>2, <2>5, <3>1
  <2>6. CASE j.op = "SCALE_MUL"
    <3>1. Helper!FirstState(j) = IF Helper!Narrows(j) THEN "SM2_REQ" ELSE "SM1_REQ"
      BY <1>2, <2>6 DEF Helper!FirstState
    <3> QED
      BY <2>1, <2>6, <3>1
  <2> QED
    BY <2>3, <2>4, <2>5, <2>6
<1> QED
  BY <1>1, <1>2

\* A walk begins inside.
LEMMA HelperStart ==
  ASSUME HelperInv, Helper!Dispatch
  PROVE  HelperInv'
<1>1. PICK j \in HelperJobs : /\ hJob' = j /\ hState' = Helper!FirstState(j)
                              /\ hAt' = Helper!FirstAt(j)
  BY DEF Helper!Dispatch
<1>2. hAt \in HelperCounters
  BY DEF HelperInv
<1>3. hAt' \in HelperCounters
  BY <1>1, <1>2, FirstCounters
<1>4. hState' \in {"IDLE", "FAULT", "FLAT_READ", "TSRC_REQ", "V16_READ", "VB_REQ", "SM1_REQ",
                   "SM2_REQ"}
  BY <1>1, FirstStates
<1>5. SUFFICES ASSUME hState' \notin {"IDLE", "FAULT"} PROVE HelperAccepted(j) /\ HelperWalk'
  BY <1>1, <1>3, <1>4 DEF HelperInv, Helper!Busy, HelperStates, Flat, Transp, Vadd16, Bias,
                         ScaleW, NarrowW, HelperAccepted
<1>6. HelperAccepted(j)
  BY <1>1, <1>5, FirstStates
<1> USE DEF HelperWalk, Flat, Transp, Vadd16, Bias, Accum, ScaleW, NarrowW
<1>7. CASE hState' = "FLAT_READ"
  <2>1. j.op = "BUF_COPY" /\ j.length # 0 /\ hAt'.step = 0 /\ j.length \in Nat
    BY <1>1, <1>2, <1>7, FirstStates, FirstCounters, HelperJobTypes
  <2> QED
    BY <1>1, <1>6, <1>7, <2>1
<1>8. CASE hState' = "TSRC_REQ"
  <2>1. /\ j.op = "BUF_COPY" /\ j.length # 0 /\ j.transpose
        /\ hAt'.rbase = 0 /\ hAt'.cbase = 0 /\ hAt'.src = 0
    BY <1>1, <1>2, <1>8, FirstStates, FirstCounters
  <2>2. 0 < Across(j) /\ 0 < Down(j) /\ 0 < Half /\ Half \in Nat
    BY <1>6, <2>1, TransposeShape, HelperJobTypes, DimFacts DEF HelperAccepted
  <2>3. 0 * Half = 0
    BY <2>2
  <2>4. Down(j) \in Nat /\ Across(j) \in Nat
    BY <1>6, <2>1, TransposeShape, HelperJobTypes DEF HelperAccepted
  <2>5. AtBlock(hAt'.rbase, hAt'.cbase, Down(j), Across(j))
    <3>1. \A down, across \in Nat :
            0 < down /\ 0 < across => AtBlock(0, 0, down, across)
      <4> SUFFICES ASSUME NEW down \in Nat, NEW across \in Nat, 0 < down, 0 < across
                   PROVE  AtBlock(0, 0, down, across)
        OBVIOUS
      <4> QED
        BY <2>3, Blocks, 0 \in Nat
    <3> QED
      BY <2>1, <2>2, <2>4, <3>1
  <2>6. AtBlock(hAt.rbase, hAt.cbase, Down(hJob), Across(hJob))'
    BY <1>1, <2>5 DEF AtBlock, Half, Down, Across, Helper!Lines, Helper!Columns, Helper!LineBytes
  <2> QED
    BY <1>1, <1>6, <1>8, <2>1, <2>2, <2>6
<1>9. CASE hState' = "V16_READ"
  <2>1. j.op = "VADD" /\ Helper!IsVaddFp16(j) /\ hAt'.step = 0
    BY <1>1, <1>2, <1>9, FirstStates, FirstCounters
  <2>2. 0 < MatrixRows(j.dst, j)
    BY RowsOfMatrix
  <2>3. MatrixRows(hJob.dst, hJob)' = MatrixRows(j.dst, j)
        /\ Helper!IsVaddFp16(hJob)' = Helper!IsVaddFp16(j)
    BY <1>1 DEF MatrixRows, LineRows, Helper!IsVaddFp16
  <2> QED
    BY <1>1, <1>6, <1>9, <2>1, <2>2, <2>3
<1>10. CASE hState' = "VB_REQ"
  <2>1. j.op = "VADD" /\ Helper!IsVaddBias(j) /\ hAt'.chunk = 0
    BY <1>1, <1>2, <1>10, FirstStates, FirstCounters
  <2>2. j.n \in Nat /\ 0 < j.n
    BY HelperJobTypes
  <2>3. Helper!IsVaddBias(hJob)' = Helper!IsVaddBias(j)
    BY <1>1 DEF Helper!IsVaddBias
  <2> QED
    BY <1>1, <1>6, <1>10, <2>1, <2>2, <2>3
<1>11. CASE hState' = "SM1_REQ"
  <2>1. j.op = "SCALE_MUL" /\ ~Helper!Narrows(j) /\ hAt'.step = 0
    BY <1>1, <1>2, <1>11, FirstStates, FirstCounters
  <2>2. 0 < MatrixRows(j.src1, j)
    BY RowsOfMatrix
  <2>3. MatrixRows(hJob.src1, hJob)' = MatrixRows(j.src1, j)
        /\ Helper!Narrows(hJob)' = Helper!Narrows(j)
    BY <1>1 DEF MatrixRows, LineRows, Helper!Narrows
  <2> QED
    BY <1>1, <1>6, <1>11, <2>1, <2>2, <2>3
<1>12. CASE hState' = "SM2_REQ"
  <2>1. j.op = "SCALE_MUL" /\ Helper!Narrows(j) /\ hAt'.step = 0 /\ hAt'.part = 0
    BY <1>1, <1>2, <1>12, FirstStates, FirstCounters
  <2>2. 0 < MatrixRows(j.dst, j)
    BY RowsOfMatrix
  <2>3. MatrixRows(hJob.dst, hJob)' = MatrixRows(j.dst, j)
        /\ Helper!Narrows(hJob)' = Helper!Narrows(j)
    BY <1>1 DEF MatrixRows, LineRows, Helper!Narrows
  <2> QED
    BY <1>1, <1>6, <1>12, <2>1, <2>2, <2>3
<1> QED
  BY <1>4, <1>5, <1>6, <1>7, <1>8, <1>9, <1>10, <1>11, <1>12

\* A walk over steps goes on inside, or ends.
LEMMA StepsGoOn ==
  ASSUME hAt \in HelperCounters, NEW total \in Nat, NEW next, NEW part \in Nat,
         Helper!NextStep(total, next, part)
  PROVE  /\ hJob' = hJob /\ hAt' \in HelperCounters
         /\ \/ hState' = "IDLE"
            \/ hState' = next /\ hAt'.step < total /\ hAt'.part = part
<1>1. CASE hAt.step + 1 >= total
  BY <1>1 DEF Helper!NextStep, Helper!Goto
<1>2. CASE ~(hAt.step + 1 >= total)
  <2>1. hState' = next /\ hJob' = hJob /\ hAt' = [hAt EXCEPT !.step = @ + 1, !.part = part]
    BY <1>2 DEF Helper!NextStep, Helper!Goto
  <2>2. hAt.step \in Nat
    BY DEF HelperCounters
  <2> DEFINE n == hAt.step + 1
  <2>3. n \in Nat /\ n < total
    BY <1>2, <2>2
  <2>4. hAt' = [hAt EXCEPT !.step = n, !.part = part]
    BY <2>1
  <2> HIDE DEF n
  <2>5. [hAt EXCEPT !.step = n, !.part = part] \in HelperCounters
    BY <2>3, HelperCounterTypes
  <2>6. hAt'.step = n /\ hAt'.part = part
    BY <2>4 DEF HelperCounters
  <2> QED
    BY <2>1, <2>3, <2>4, <2>5, <2>6
<1> QED
  BY <1>1, <1>2

\* The job does not change while a walk is under way.
LEMMA SameHelperJob ==
  ASSUME hJob' = hJob
  PROVE  /\ Down(hJob)' = Down(hJob) /\ Across(hJob)' = Across(hJob)
         /\ AtBlock(hAt.rbase, hAt.cbase, Down(hJob), Across(hJob))'
              = AtBlock(hAt'.rbase, hAt'.cbase, Down(hJob), Across(hJob))
         /\ Helper!IsVaddFp16(hJob)' = Helper!IsVaddFp16(hJob)
         /\ Helper!IsVaddBias(hJob)' = Helper!IsVaddBias(hJob)
         /\ Helper!Narrows(hJob)' = Helper!Narrows(hJob)
         /\ MatrixRows(hJob.src1, hJob)' = MatrixRows(hJob.src1, hJob)
         /\ MatrixRows(hJob.dst, hJob)' = MatrixRows(hJob.dst, hJob)
         /\ HelperAccepted(hJob)' = HelperAccepted(hJob)
BY DEF Down, Across, AtBlock, Half, Helper!Lines, Helper!Columns, Helper!LineBytes,
       Helper!IsVaddFp16, Helper!IsVaddBias, Helper!Narrows, MatrixRows, LineRows, HelperAccepted,
       Helper!Unsupported, Helper!Misaligned, Helper!OutOfBounds, Helper!Fits, Helper!Src1Rows,
       Helper!Src2Rows, Helper!DstRows, Helper!MatrixRows, Helper!LineRows, Helper!Half

\* BUF_COPY without transposition.
LEMMA FlatStep ==
  ASSUME HelperInv, Helper!FlatRead \/ Helper!FlatWrite
  PROVE  HelperInv'
<1>1. /\ hState \in Flat /\ Helper!Busy /\ hAt \in HelperCounters
      /\ hJob.op = "BUF_COPY" /\ hAt.step < hJob.length /\ HelperAccepted(hJob)
  BY DEF HelperInv, HelperWalk, Helper!FlatRead, Helper!FlatWrite, Flat, Helper!Busy
<1>2. hJob' = hJob /\ hAt' \in HelperCounters
      /\ (hState' = "IDLE" \/ (hState' \in Flat /\ hAt'.step < hJob.length))
  <2>1. CASE Helper!FlatRead
    BY <1>1, <2>1 DEF Helper!FlatRead, Helper!Goto, Flat
  <2>2. CASE Helper!FlatWrite
    <3>1. hJob.length \in Nat /\ hAt.part \in Nat
      BY <1>1, HelperJobTypes DEF HelperAccepted, HelperCounters
    <3>2. Helper!NextStep(hJob.length, "FLAT_READ", hAt.part)
      BY <2>2 DEF Helper!FlatWrite
    <3> QED
      BY <1>1, <3>1, <3>2, StepsGoOn DEF Flat
  <2> QED
    BY <2>1, <2>2
<1> QED
  BY <1>1, <1>2, SameHelperJob DEF HelperInv, HelperWalk, Helper!Busy, HelperStates, Flat,
     Transp, Vadd16,
     Bias, Accum, ScaleW, NarrowW

\* VADD of FP16 operands.
LEMMA V16Step ==
  ASSUME HelperInv, Helper!V16Read \/ Helper!V16Write
  PROVE  HelperInv'
<1> DEFINE total == MatrixRows(hJob.dst, hJob)
<1>1. /\ hState \in Vadd16 /\ Helper!Busy /\ hAt \in HelperCounters
      /\ hJob.op = "VADD" /\ Helper!IsVaddFp16(hJob) /\ hAt.step < total /\ HelperAccepted(hJob)
  BY DEF HelperInv, HelperWalk, Helper!V16Read, Helper!V16Write, Vadd16, Helper!Busy
<1>2. hJob' = hJob /\ hAt' \in HelperCounters
      /\ (hState' = "IDLE" \/ (hState' \in Vadd16 /\ hAt'.step < total))
  <2>1. CASE Helper!V16Read
    BY <1>1, <2>1 DEF Helper!V16Read, Helper!Goto, Vadd16
  <2>2. CASE Helper!V16Write
    <3>1. total \in Nat /\ Helper!MatrixRows(hJob.dst, hJob) = total /\ hAt.part \in Nat
      BY <1>1, RowsOfMatrix DEF HelperAccepted, HelperCounters
    <3>2. Helper!NextStep(total, "V16_READ", hAt.part)
      BY <2>2, <3>1 DEF Helper!V16Write
    <3> HIDE DEF total
    <3> QED
      BY <1>1, <3>1, <3>2, StepsGoOn DEF Vadd16
  <2> QED
    BY <2>1, <2>2
<1> QED
  BY <1>1, <1>2, SameHelperJob DEF HelperInv, HelperWalk, Helper!Busy, HelperStates, Flat,
     Transp, Vadd16,
     Bias, Accum, ScaleW, NarrowW

\* SCALE_MUL that keeps the width.
LEMMA ScaleStep ==
  ASSUME HelperInv, Helper!ScaleRequest \/ Helper!ScaleWrite
  PROVE  HelperInv'
<1> DEFINE total == MatrixRows(hJob.src1, hJob)
<1>1. /\ hState \in ScaleW /\ Helper!Busy /\ hAt \in HelperCounters
      /\ hJob.op = "SCALE_MUL" /\ ~Helper!Narrows(hJob) /\ hAt.step < total
      /\ HelperAccepted(hJob)
  BY DEF HelperInv, HelperWalk, Helper!ScaleRequest, Helper!ScaleWrite, ScaleW, Helper!Busy
<1>2. hJob' = hJob /\ hAt' \in HelperCounters
      /\ (hState' = "IDLE" \/ (hState' \in ScaleW /\ hAt'.step < total))
  <2>1. CASE Helper!ScaleRequest
    BY <1>1, <2>1 DEF Helper!ScaleRequest, Helper!Goto, ScaleW
  <2>2. CASE Helper!ScaleWrite
    <3>1. total \in Nat /\ Helper!MatrixRows(hJob.src1, hJob) = total /\ hAt.part \in Nat
      BY <1>1, RowsOfMatrix DEF HelperAccepted, HelperCounters
    <3>2. Helper!NextStep(total, "SM1_REQ", hAt.part)
      BY <2>2, <3>1 DEF Helper!ScaleWrite
    <3> HIDE DEF total
    <3> QED
      BY <1>1, <3>1, <3>2, StepsGoOn DEF ScaleW
  <2> QED
    BY <2>1, <2>2
<1> QED
  BY <1>1, <1>2, SameHelperJob DEF HelperInv, HelperWalk, Helper!Busy, HelperStates, Flat,
     Transp, Vadd16,
     Bias, Accum, ScaleW, NarrowW

\* SCALE_MUL from FP32 to FP16.
LEMMA NarrowStep ==
  ASSUME HelperInv, Helper!NarrowRequest \/ Helper!NarrowLatch \/ Helper!NarrowWrite
  PROVE  HelperInv'
<1> DEFINE total == MatrixRows(hJob.dst, hJob)
<1>1. /\ hState \in NarrowW /\ Helper!Busy /\ hAt \in HelperCounters
      /\ hJob.op = "SCALE_MUL" /\ Helper!Narrows(hJob) /\ hAt.step < total
      /\ hAt.part \in {0, 1} /\ HelperAccepted(hJob)
  BY DEF HelperInv, HelperWalk, Helper!NarrowRequest, Helper!NarrowLatch, Helper!NarrowWrite,
         NarrowW, Helper!Busy
<1>2. hJob' = hJob /\ hAt' \in HelperCounters
      /\ \/ hState' = "IDLE"
         \/ hState' \in NarrowW /\ hAt'.step < total /\ hAt'.part \in {0, 1}
  <2>1. CASE Helper!NarrowRequest
    BY <1>1, <2>1 DEF Helper!NarrowRequest, Helper!Goto, NarrowW
  <2>2. CASE Helper!NarrowLatch
    <3>1. /\ hJob' = hJob /\ hState' \in NarrowW
          /\ hAt' = [hAt EXCEPT !.part = 1] \/ hAt' = hAt
      BY <2>2 DEF Helper!NarrowLatch, Helper!Goto, NarrowW
    <3>2. [hAt EXCEPT !.part = 1] \in HelperCounters
      BY <1>1, HelperCounterTypes
    <3>3. /\ [hAt EXCEPT !.part = 1].part = 1
          /\ [hAt EXCEPT !.part = 1].step = hAt.step
      BY <1>1 DEF HelperCounters
    <3> HIDE DEF total
    <3> QED
      BY <1>1, <3>1, <3>2, <3>3
  <2>3. CASE Helper!NarrowWrite
    <3>1. total \in Nat /\ Helper!MatrixRows(hJob.dst, hJob) = total
      BY <1>1, RowsOfMatrix DEF HelperAccepted
    <3>2. Helper!NextStep(total, "SM2_REQ", 0)
      BY <2>3, <3>1 DEF Helper!NarrowWrite
    <3> HIDE DEF total
    <3> QED
      BY <1>1, <3>1, <3>2, StepsGoOn DEF NarrowW
  <2> QED
    BY <2>1, <2>2, <2>3
<1> QED
  BY <1>1, <1>2, SameHelperJob DEF HelperInv, HelperWalk, Helper!Busy, HelperStates, Flat,
     Transp, Vadd16,
     Bias, Accum, ScaleW, NarrowW

\* The next block of a line of blocks is one of them.
LEMMA NextInside ==
  ASSUME NEW a \in Nat, NEW x \in Nat, NEW y \in Nat, a * y + y < x * y
  PROVE  a + 1 < x /\ a * y + y = (a + 1) * y
<1>1. a * y + y = (a + 1) * y
  OBVIOUS
<1>2. CASE x <= a + 1
  <2>1. PICK d \in Nat : a + 1 = x + d
    <3>1. a + 1 - x \in Nat /\ a + 1 = x + (a + 1 - x)
      BY <1>2
    <3> QED
      BY <3>1
  <2>2. (x + d) * y = x * y + d * y /\ x * y \in Nat /\ d * y \in Nat
    OBVIOUS
  <2> QED
    BY <1>1, <2>1, <2>2
<1> QED
  BY <1>1, <1>2

\* BUF_COPY with transposition.
LEMMA TransposeStep ==
  ASSUME HelperInv, Helper!TransRequest \/ Helper!TransLatch \/ Helper!TransWrite
  PROVE  HelperInv'
<1>1. /\ hState \in Transp /\ Helper!Busy /\ hAt \in HelperCounters /\ HelperAccepted(hJob)
      /\ hJob.op = "BUF_COPY" /\ hJob.transpose /\ hJob.length # 0
      /\ hAt.src < Half
      /\ hState = "TDST_WRITE" => hAt.dst < Half
  BY DEF HelperInv, HelperWalk, Helper!TransRequest, Helper!TransLatch, Helper!TransWrite,
         Transp, Helper!Busy
<1>2. /\ Across(hJob) \in Nat /\ Down(hJob) \in Nat /\ 0 < Across(hJob)
      /\ Helper!Columns(hJob) = Across(hJob) * Half /\ Helper!Lines(hJob) = Down(hJob) * Half
  BY <1>1, TransposeShape, HelperJobTypes DEF HelperAccepted
<1>3. PICK a, b \in Nat : /\ a < Down(hJob) /\ hAt.rbase = a * Half
                          /\ b < Across(hJob) /\ hAt.cbase = b * Half
  <2>1. AtBlock(hAt.rbase, hAt.cbase, Down(hJob), Across(hJob))
    BY <1>1 DEF HelperInv, HelperWalk
  <2> QED
    BY <1>2, <2>1, Blocks
<1>4. Helper!Half = Half /\ Half \in Nat /\ 0 < Half
  BY DimFacts DEF Helper!Half, Half
<1>5. /\ hAt.src \in Nat /\ hAt.dst \in Nat /\ hAt.rbase \in Nat /\ hAt.cbase \in Nat
  BY <1>1 DEF HelperCounters
<1> DEFINE Inside(s, t) ==
      /\ s \in HelperCounters
      /\ \E d, e \in Nat : /\ d < Down(hJob) /\ s.rbase = d * Half
                           /\ e < Across(hJob) /\ s.cbase = e * Half
      /\ s.src < Half
      /\ t = "TDST_WRITE" => s.dst < Half
<1>6. /\ hJob' = hJob
      /\ \/ hState' = "IDLE" /\ hAt' = hAt
         \/ hState' \in Transp /\ Inside(hAt', hState')
  <2>1. CASE Helper!TransRequest
    BY <1>1, <1>3, <2>1 DEF Helper!TransRequest, Helper!Goto, Transp
  <2>2. CASE Helper!TransLatch
    <3>1. CASE hAt.src + 1 >= Half
      <4>1. /\ hAt' = [hAt EXCEPT !.dst = 0] /\ hState' = "TDST_WRITE" /\ hJob' = hJob
        BY <1>4, <2>2, <3>1 DEF Helper!TransLatch, Helper!Goto
      <4>2. [hAt EXCEPT !.dst = 0] \in HelperCounters
        BY <1>1, HelperCounterTypes
      <4>3. hAt'.dst = 0 /\ hAt'.src = hAt.src /\ hAt'.rbase = hAt.rbase /\ hAt'.cbase = hAt.cbase
        BY <1>1, <4>1 DEF HelperCounters
      <4> QED
        BY <1>1, <1>3, <1>4, <4>1, <4>2, <4>3 DEF Transp
    <3>2. CASE ~(hAt.src + 1 >= Half)
      <4> DEFINE n == hAt.src + 1
      <4>1. /\ hAt' = [hAt EXCEPT !.src = n] /\ hState' = "TSRC_REQ" /\ hJob' = hJob
        BY <1>4, <2>2, <3>2 DEF Helper!TransLatch, Helper!Goto
      <4>2. n \in Nat /\ n < Half
        BY <1>4, <1>5, <3>2
      <4> HIDE DEF n
      <4>3. [hAt EXCEPT !.src = n] \in HelperCounters
        BY <1>1, <4>2, HelperCounterTypes
      <4>4. hAt'.src = n /\ hAt'.rbase = hAt.rbase /\ hAt'.cbase = hAt.cbase
        BY <1>1, <4>1 DEF HelperCounters
      <4> QED
        BY <1>3, <4>1, <4>2, <4>3, <4>4 DEF Transp
    <3> QED
      BY <3>1, <3>2
  <2>3. CASE Helper!TransWrite /\ hAt.dst + 1 < Half
    <3> DEFINE n == hAt.dst + 1
    <3>1. /\ hAt' = [hAt EXCEPT !.dst = n] /\ hState' = "TDST_WRITE" /\ hJob' = hJob
      BY <1>4, <2>3 DEF Helper!TransWrite, Helper!Goto
    <3>2. n \in Nat /\ n < Half
      BY <1>5, <2>3
    <3> HIDE DEF n
    <3>3. [hAt EXCEPT !.dst = n] \in HelperCounters
      BY <1>1, <3>2, HelperCounterTypes
    <3>4. hAt'.dst = n /\ hAt'.src = hAt.src /\ hAt'.rbase = hAt.rbase /\ hAt'.cbase = hAt.cbase
      BY <1>1, <3>1 DEF HelperCounters
    <3> QED
      BY <1>1, <1>3, <3>1, <3>2, <3>3, <3>4 DEF Transp
  <2>4. CASE Helper!TransWrite /\ ~(hAt.dst + 1 < Half)
    <3>1. Helper!NextBlock
      BY <1>4, <2>4 DEF Helper!TransWrite
    <3>2. CASE hAt.cbase + Half < Helper!Columns(hJob)
      <4> DEFINE n == hAt.cbase + Half
      <4>1. /\ hAt' = [hAt EXCEPT !.cbase = n, !.src = 0] /\ hState' = "TSRC_REQ" /\ hJob' = hJob
        BY <1>4, <3>1, <3>2 DEF Helper!NextBlock, Helper!Goto
      <4>2. n \in Nat /\ n = (b + 1) * Half /\ b + 1 < Across(hJob) /\ b + 1 \in Nat
        BY <1>3, <1>2, <1>4, <1>5, <3>2, NextInside
      <4> HIDE DEF n
      <4>3. [hAt EXCEPT !.cbase = n, !.src = 0] \in HelperCounters
        BY <1>1, <4>2, HelperCounterTypes
      <4>4. hAt'.cbase = n /\ hAt'.src = 0 /\ hAt'.rbase = hAt.rbase
        BY <1>1, <4>1 DEF HelperCounters
      <4> QED
        BY <1>3, <1>4, <4>1, <4>2, <4>3, <4>4 DEF Transp
    <3>3. CASE ~(hAt.cbase + Half < Helper!Columns(hJob)) /\ hAt.rbase + Half < Helper!Lines(hJob)
      <4> DEFINE n == hAt.rbase + Half
      <4>1. /\ hAt' = [hAt EXCEPT !.rbase = n, !.cbase = 0, !.src = 0]
            /\ hState' = "TSRC_REQ" /\ hJob' = hJob
        BY <1>4, <3>1, <3>3 DEF Helper!NextBlock, Helper!Goto
      <4>2. n \in Nat /\ n = (a + 1) * Half /\ a + 1 < Down(hJob) /\ a + 1 \in Nat
        BY <1>3, <1>2, <1>4, <1>5, <3>3, NextInside
      <4> HIDE DEF n
      <4>3. [hAt EXCEPT !.rbase = n, !.cbase = 0, !.src = 0] \in HelperCounters
        BY <1>1, <4>2, HelperCounterTypes
      <4>4. hAt'.rbase = n /\ hAt'.cbase = 0 /\ hAt'.src = 0
        BY <1>1, <4>1 DEF HelperCounters
      <4>5. 0 * Half = 0
        BY <1>4
      <4> QED
        BY <1>2, <1>4, <4>1, <4>2, <4>3, <4>4, <4>5 DEF Transp
    <3>4. CASE /\ ~(hAt.cbase + Half < Helper!Columns(hJob))
               /\ ~(hAt.rbase + Half < Helper!Lines(hJob))
      <4>1. hAt' = hAt /\ hState' = "IDLE" /\ hJob' = hJob
        BY <1>4, <3>1, <3>4 DEF Helper!NextBlock, Helper!Goto
      <4> QED
        BY <4>1
    <3> QED
      BY <3>2, <3>3, <3>4
  <2> QED
    BY <2>1, <2>2, <2>3, <2>4
<1>7. Inside(hAt', hState') => AtBlock(hAt'.rbase, hAt'.cbase, Down(hJob), Across(hJob))
  BY <1>2, Blocks
<1> QED
  BY <1>1, <1>6, <1>7, SameHelperJob DEF HelperInv, HelperWalk, Helper!Busy, HelperStates, Flat,
     Transp, Vadd16, Bias, Accum, ScaleW, NarrowW

\* VADD of a bias.
LEMMA BiasStep ==
  ASSUME HelperInv, \/ Helper!BiasRequest \/ Helper!BiasLatch \/ Helper!AccRead \/ Helper!AccWrite
  PROVE  HelperInv'
<1>1. /\ hState \in Bias \union Accum /\ Helper!Busy /\ hAt \in HelperCounters
      /\ HelperAccepted(hJob)
      /\ hJob.op = "VADD" /\ Helper!IsVaddBias(hJob) /\ hAt.chunk < 2 * hJob.n
      /\ hState \in Accum => hAt.row < hJob.m * Dim /\ hAt.half \in {0, 1}
  BY DEF HelperInv, HelperWalk, Helper!BiasRequest, Helper!BiasLatch, Helper!AccRead,
         Helper!AccWrite, Bias, Accum, Helper!Busy
<1>2. hAt.chunk \in Nat /\ hAt.row \in Nat /\ hAt.half \in Nat
  BY <1>1 DEF HelperCounters
<1>3. hJob.n \in Nat /\ hJob.m * Dim \in Nat /\ 0 < hJob.m * Dim
  BY <1>1, HelperJobTypes, MatrixSize DEF HelperAccepted
<1> DEFINE lines == hJob.m * Dim
<1>4. /\ hJob' = hJob /\ hAt' \in HelperCounters
      /\ \/ hState' = "IDLE"
         \/ hState' \in Bias /\ hAt'.chunk < 2 * hJob.n
         \/ /\ hState' \in Accum /\ hAt'.chunk < 2 * hJob.n
            /\ hAt'.row < lines /\ hAt'.half \in {0, 1}
  <2>1. CASE Helper!BiasRequest
    BY <1>1, <2>1 DEF Helper!BiasRequest, Helper!Goto, Bias
  <2>2. CASE Helper!BiasLatch
    <3>1. hAt' = [hAt EXCEPT !.row = 0, !.half = 0] /\ hState' = "VACC_READ" /\ hJob' = hJob
      BY <2>2 DEF Helper!BiasLatch, Helper!Goto
    <3>2. [hAt EXCEPT !.row = 0, !.half = 0] \in HelperCounters
      BY <1>1, HelperCounterTypes
    <3>3. hAt'.row = 0 /\ hAt'.half = 0 /\ hAt'.chunk = hAt.chunk
      BY <1>1, <3>1 DEF HelperCounters
    <3> HIDE DEF lines
    <3>4. 0 < lines
      BY <1>3 DEF lines
    <3> QED
      BY <1>1, <3>1, <3>2, <3>3, <3>4 DEF Accum
  <2>3. CASE Helper!AccRead
    BY <1>1, <2>3 DEF Helper!AccRead, Helper!Goto, Accum
  <2>4. CASE Helper!AccWrite
    <3>1. hState = "VACC_WRITE" /\ hAt.half \in {0, 1} /\ hAt.row < lines
      BY <1>1, <2>4 DEF Helper!AccWrite, Accum
    <3>2. CASE hAt.half = 0
      <4>1. hAt' = [hAt EXCEPT !.half = 1] /\ hState' = "VACC_READ" /\ hJob' = hJob
        BY <2>4, <3>2 DEF Helper!AccWrite, Helper!Goto
      <4>2. [hAt EXCEPT !.half = 1] \in HelperCounters
        BY <1>1, HelperCounterTypes
      <4>3. hAt'.half = 1 /\ hAt'.row = hAt.row /\ hAt'.chunk = hAt.chunk
        BY <1>1, <4>1 DEF HelperCounters
      <4> HIDE DEF lines
      <4> QED
        BY <1>1, <3>1, <4>1, <4>2, <4>3 DEF Accum
    <3>3. CASE hAt.half = 1 /\ hAt.row + 1 < lines
      <4> DEFINE n == hAt.row + 1
      <4>1. hAt' = [hAt EXCEPT !.half = 0, !.row = n] /\ hState' = "VACC_READ" /\ hJob' = hJob
        <5>1. ~(hAt.half = 0) /\ ~(hAt.row + 1 >= lines)
          BY <1>2, <1>3, <3>3
        <5> QED
          BY <2>4, <3>3, <5>1 DEF Helper!AccWrite, Helper!Goto
      <4>2. n \in Nat /\ n < lines
        BY <1>2, <3>3
      <4> HIDE DEF n, lines
      <4>3. [hAt EXCEPT !.half = 0, !.row = n] \in HelperCounters
        BY <1>1, <4>2, HelperCounterTypes
      <4>4. hAt'.half = 0 /\ hAt'.row = n /\ hAt'.chunk = hAt.chunk
        BY <1>1, <4>1 DEF HelperCounters
      <4> QED
        BY <1>1, <4>1, <4>2, <4>3, <4>4 DEF Accum
    <3>4. CASE hAt.half = 1 /\ ~(hAt.row + 1 < lines) /\ hAt.chunk + 1 < 2 * hJob.n
      <4> DEFINE n == hAt.chunk + 1
      <4>1. hAt.row + 1 >= lines
        BY <1>2, <1>3, <3>4
      <4>2. hAt' = [hAt EXCEPT !.chunk = n] /\ hState' = "VB_REQ" /\ hJob' = hJob
        BY <2>4, <3>4, <4>1 DEF Helper!AccWrite, Helper!Goto
      <4>3. n \in Nat /\ n < 2 * hJob.n
        BY <1>2, <3>4
      <4> HIDE DEF n, lines
      <4>4. [hAt EXCEPT !.chunk = n] \in HelperCounters
        BY <1>1, <4>3, HelperCounterTypes
      <4>5. hAt'.chunk = n
        BY <1>1, <4>2 DEF HelperCounters
      <4> QED
        BY <4>2, <4>3, <4>4, <4>5 DEF Bias
    <3>5. CASE hAt.half = 1 /\ ~(hAt.row + 1 < lines) /\ ~(hAt.chunk + 1 < 2 * hJob.n)
      <4>1. hAt' = hAt /\ hState' = "IDLE" /\ hJob' = hJob
        BY <2>4, <3>5 DEF Helper!AccWrite, Helper!Goto
      <4> QED
        BY <1>1, <4>1
    <3> QED
      BY <3>1, <3>2, <3>3, <3>4, <3>5
  <2> QED
    BY <2>1, <2>2, <2>3, <2>4
<1> HIDE DEF lines
<1>5. lines' = lines /\ lines' = hJob'.m * Dim
  BY <1>4 DEF lines
<1> QED
  BY <1>1, <1>4, <1>5, SameHelperJob DEF HelperInv, HelperWalk, Helper!Busy, HelperStates, Flat,
     Transp, Vadd16, Bias, Accum, ScaleW, NarrowW

\* The helper engine stays inside.
LEMMA HelperStep ==
  ASSUME HelperInv, Helper!Work
  PROVE  HelperInv'
BY FlatStep, TransposeStep, V16Step, BiasStep, ScaleStep, NarrowStep DEF Helper!Work

-----------------------------------------------------------------------------
(* The SFU.                                                                *)

\* The counters keep their types.
LEMMA SfuCounterTypes ==
  /\ \A r \in SfuCounters, x \in Nat : [r EXCEPT !.read = x] \in SfuCounters
  /\ \A r \in SfuCounters, x \in Nat : [r EXCEPT !.chunk = x] \in SfuCounters
  /\ \A r \in SfuCounters, x \in Nat : [r EXCEPT !.part = x] \in SfuCounters
  /\ \A r \in SfuCounters, x, y \in Nat : [r EXCEPT !.chunk = x, !.part = y] \in SfuCounters
  /\ \A r \in SfuCounters, x, y, z \in Nat :
       [r EXCEPT !.row = x, !.read = y, !.chunk = z] \in SfuCounters
  /\ \A r \in SfuCounters, x, y, z \in Nat :
       [r EXCEPT !.row = x, !.chunk = y, !.part = z] \in SfuCounters
<1>1. \A r \in SfuCounters, x \in Nat : [r EXCEPT !.read = x] \in SfuCounters
  BY DEF SfuCounters
<1>2. \A r \in SfuCounters, x \in Nat : [r EXCEPT !.chunk = x] \in SfuCounters
  BY DEF SfuCounters
<1>3. \A r \in SfuCounters, x \in Nat : [r EXCEPT !.part = x] \in SfuCounters
  BY DEF SfuCounters
<1>4. \A r \in SfuCounters, x, y \in Nat : [r EXCEPT !.chunk = x, !.part = y] \in SfuCounters
  <2> TAKE r \in SfuCounters, x, y \in Nat
  <2>1. [r EXCEPT !.chunk = x, !.part = y]
          = [[r EXCEPT !.chunk = x] EXCEPT !.part = y]
    BY DEF SfuCounters
  <2>2. [r EXCEPT !.chunk = x] \in SfuCounters
    BY DEF SfuCounters
  <2>3. [[r EXCEPT !.chunk = x] EXCEPT !.part = y] \in SfuCounters
    BY <2>2 DEF SfuCounters
  <2> QED
    BY <2>1, <2>3
<1>5. \A r \in SfuCounters, x, y, z \in Nat :
        [r EXCEPT !.row = x, !.read = y, !.chunk = z] \in SfuCounters
  <2> TAKE r \in SfuCounters, x, y, z \in Nat
  <2>1. [r EXCEPT !.row = x, !.read = y, !.chunk = z]
          = [[[r EXCEPT !.row = x] EXCEPT !.read = y] EXCEPT !.chunk = z]
    BY DEF SfuCounters
  <2>2. [r EXCEPT !.row = x] \in SfuCounters
    BY DEF SfuCounters
  <2>3. [[r EXCEPT !.row = x] EXCEPT !.read = y] \in SfuCounters
    BY <2>2 DEF SfuCounters
  <2>4. [[[r EXCEPT !.row = x] EXCEPT !.read = y] EXCEPT !.chunk = z] \in SfuCounters
    BY <2>3 DEF SfuCounters
  <2> QED
    BY <2>1, <2>4
<1>6. \A r \in SfuCounters, x, y, z \in Nat :
        [r EXCEPT !.row = x, !.chunk = y, !.part = z] \in SfuCounters
  <2> TAKE r \in SfuCounters, x, y, z \in Nat
  <2>1. [r EXCEPT !.row = x, !.chunk = y, !.part = z]
          = [[[r EXCEPT !.row = x] EXCEPT !.chunk = y] EXCEPT !.part = z]
    BY DEF SfuCounters
  <2>2. [r EXCEPT !.row = x] \in SfuCounters
    BY DEF SfuCounters
  <2>3. [[r EXCEPT !.row = x] EXCEPT !.chunk = y] \in SfuCounters
    BY <2>2 DEF SfuCounters
  <2>4. [[[r EXCEPT !.row = x] EXCEPT !.chunk = y] EXCEPT !.part = z] \in SfuCounters
    BY <2>3 DEF SfuCounters
  <2> QED
    BY <2>1, <2>4
<1> QED
  BY <1>1, <1>2, <1>3, <1>4, <1>5, <1>6

\* The fields of a job that its walk is about.
LEMMA SfuJobTypes ==
  ASSUME NEW j \in SfuJobs
  PROVE  /\ j.op \in {"SOFTMAX", "LAYERNORM", "GELU"}
         /\ j.m \in Nat /\ j.n \in Nat /\ 0 < j.m /\ 0 < j.n
         /\ j.src1.buf \in Buffers /\ j.src2.buf \in Buffers /\ j.dst.buf \in Buffers
         /\ j.src1.off \in Nat /\ j.src2.off \in Nat /\ j.dst.off \in Nat
BY JobAssumption DEF Sfu!Job, Sfu!Place, Sfu!Buffers, Buffers

\* The lengths of the walks.
LEMMA SfuSizes ==
  ASSUME NEW j \in SfuJobs
  PROVE  /\ j.n \in Nat /\ 0 < j.n /\ j.m * Dim \in Nat /\ 0 < j.m * Dim
         /\ Sfu!Words(j) = 2 * j.n /\ Sfu!Gammas(j) = 2 * j.n
         /\ LineRows("ACCUM", j.n) = 4 * j.n /\ Sfu!LineRows("ACCUM", j.n) = 4 * j.n
<1>1. j.m \in Nat /\ j.n \in Nat /\ 0 < j.m /\ 0 < j.n
  BY SfuJobTypes
<1> QED
  BY <1>1, MatrixSize DEF Sfu!Words, Sfu!Gammas, Sfu!LineRows, LineRows

\* A walk begins inside.
LEMMA SfuStart ==
  ASSUME SfuInv, Sfu!Dispatch
  PROVE  SfuInv'
<1>1. PICK j \in SfuJobs : sJob' = j /\ sState' = Sfu!FirstState(j)
  BY DEF Sfu!Dispatch
<1>2. sAt' = [row |-> 0, read |-> 0, chunk |-> 0, part |-> 0]
  BY DEF Sfu!Dispatch
<1>3. sAt' \in SfuCounters
  BY <1>2 DEF SfuCounters
<1>4. j.n \in Nat /\ 0 < j.n /\ j.m * Dim \in Nat /\ 0 < j.m * Dim
  BY SfuSizes
<1>5. CASE Sfu!Unsupported(j) \/ Sfu!OutOfBounds(j)
  <2>1. sState' = "FAULT"
    BY <1>1, <1>5 DEF Sfu!FirstState
  <2> QED
    BY <1>3, <2>1 DEF SfuInv, SfuStates, Sfu!Busy
<1>6. CASE ~(Sfu!Unsupported(j) \/ Sfu!OutOfBounds(j))
  <2>1. SfuAccepted(j)
    BY <1>6 DEF SfuAccepted
  <2>2. j.op = "LAYERNORM" => j.src1.buf # "ACCUM"
    BY <1>6 DEF Sfu!Unsupported
  <2>3. \/ sState' = "FP32_REQ" /\ j.op = "SOFTMAX" /\ j.src1.buf = "ACCUM"
        \/ sState' = "FP16_REQ" /\ j.op = "SOFTMAX" /\ j.src1.buf # "ACCUM"
        \/ sState' = "PARAM_REQ" /\ j.op = "LAYERNORM"
        \/ sState' = "GELU32_REQ" /\ j.op = "GELU" /\ j.src1.buf = "ACCUM"
        \/ sState' = "GELU16_REQ" /\ j.op = "GELU" /\ j.src1.buf # "ACCUM"
    BY <1>1, <1>6, SfuJobTypes DEF Sfu!FirstState, Sfu!LineState
  <2>4. sState' \in SfuStates /\ SfuWalk(j, sAt', sState')
    BY <1>2, <1>4, <2>3 DEF SfuStates, SfuWalk, Params, Line16, Line32, LineOut, Gelu16W, Gelu32W
  <2>5. SfuAccepted(sJob)' /\ SfuWalk(sJob, sAt, sState)'
    BY <1>1, <2>1, <2>4 DEF SfuAccepted, SfuWalk, Sfu!Unsupported, Sfu!OutOfBounds, Sfu!Fits,
       Sfu!MatrixRows, Sfu!LineRows, Sfu!Src2Rows, Sfu!Gammas, Sfu!Elems
  <2> QED
    BY <1>3, <2>4, <2>5 DEF SfuInv
<1> QED
  BY <1>5, <1>6

\* A step inside the walk, or its end.
LEMMA SfuGoesOn ==
  ASSUME SfuInv, Sfu!Busy, sJob' = sJob, sAt' \in SfuCounters,
         \/ sState' = "IDLE"
         \/ sState' \in SfuStates /\ SfuWalk(sJob, sAt', sState')
  PROVE  SfuInv'
<1>1. SfuAccepted(sJob)
  BY DEF SfuInv
<1>2. SfuAccepted(sJob)'
  BY <1>1 DEF SfuAccepted, Sfu!Unsupported, Sfu!OutOfBounds, Sfu!Fits,
     Sfu!MatrixRows, Sfu!LineRows, Sfu!Src2Rows, Sfu!Gammas, Sfu!Elems
<1>3. CASE sState' = "IDLE"
  BY <1>3 DEF SfuInv, SfuStates, Sfu!Busy
<1>4. CASE sState' \in SfuStates /\ SfuWalk(sJob, sAt', sState')
  <2>1. SfuWalk(sJob, sAt, sState)'
    BY <1>4 DEF SfuWalk
  <2> QED
    BY <1>2, <1>4, <2>1 DEF SfuInv
<1> QED
  BY <1>3, <1>4

\* A request leaves the counters alone.
LEMMA SfuRequests ==
  ASSUME SfuInv,
         \/ Sfu!ParamRequest \/ Sfu!Fp16Request \/ Sfu!Fp32Request
         \/ Sfu!Gelu16Request \/ Sfu!Gelu32Request \/ Sfu!Gelu16Latch \/ Sfu!Compute \/ Sfu!Pack
  PROVE  SfuInv'
<1> USE DEF Sfu!Goto, SfuWalk, SfuStates, Params, Line16, Line32, LineOut, Gelu16W, Gelu32W
<1>1. /\ sJob' = sJob /\ sAt' = sAt /\ Sfu!Busy
      /\ \/ sState \in Params /\ sState' \in Params
         \/ sState \in Line16 /\ sState' \in Line16
         \/ sState \in Line32 /\ sState' \in Line32
         \/ sState \in LineOut /\ sState' \in LineOut
         \/ sState \in Gelu16W /\ sState' \in Gelu16W
         \/ sState \in Gelu32W /\ sState' \in Gelu32W
  BY DEF Sfu!ParamRequest, Sfu!Fp16Request, Sfu!Fp32Request, Sfu!Gelu16Request,
         Sfu!Gelu32Request, Sfu!Gelu16Latch, Sfu!Compute, Sfu!Pack, Sfu!Request, Sfu!Busy
<1>2. sAt' \in SfuCounters /\ SfuWalk(sJob, sAt, sState)
  BY <1>1 DEF SfuInv
<1>3. sState' \in SfuStates /\ SfuWalk(sJob, sAt', sState')
  BY <1>1, <1>2
<1> QED
  BY <1>1, <1>2, <1>3, SfuGoesOn

\* The lines and the parameters are read.
LEMMA SfuLatches ==
  ASSUME SfuInv, Sfu!ParamLatch \/ Sfu!Fp16Latch \/ Sfu!Fp32Latch
  PROVE  SfuInv'
<1>1. /\ Sfu!Busy /\ SfuAccepted(sJob) /\ SfuWalk(sJob, sAt, sState) /\ sAt \in SfuCounters
      /\ sAt.read \in Nat /\ sAt.row \in Nat
  BY DEF SfuInv, Sfu!ParamLatch, Sfu!Fp16Latch, Sfu!Fp32Latch, Sfu!LineLatch, Sfu!Busy, SfuCounters
<1>2. /\ sJob.n \in Nat /\ 0 < sJob.n
      /\ Sfu!Words(sJob) = 2 * sJob.n /\ 2 * Sfu!Gammas(sJob) = 4 * sJob.n
      /\ Sfu!LineRows("ACCUM", sJob.n) = 4 * sJob.n
  BY <1>1, SfuSizes DEF SfuAccepted
<1>3. sAt.row < sJob.m * Dim
  BY <1>1 DEF SfuWalk
<1>4. 0 < 2 * sJob.n
  BY <1>2
<1> DEFINE k == sAt.read + 1
           lines == sJob.m * Dim
<1>5. k \in Nat
  BY <1>1
<1> HIDE DEF k, lines
<1>6. /\ [sAt EXCEPT !.read = k] \in SfuCounters
      /\ [sAt EXCEPT !.read = 0] \in SfuCounters
      /\ [sAt EXCEPT !.chunk = 0] \in SfuCounters
  BY <1>1, <1>5, SfuCounterTypes
<1>7. /\ [sAt EXCEPT !.read = k].read = k /\ [sAt EXCEPT !.read = k].row = sAt.row
      /\ [sAt EXCEPT !.read = 0].read = 0 /\ [sAt EXCEPT !.read = 0].row = sAt.row
      /\ [sAt EXCEPT !.chunk = 0].chunk = 0 /\ [sAt EXCEPT !.chunk = 0].row = sAt.row
  BY <1>1 DEF SfuCounters
<1>8. ASSUME sJob' = sJob, sAt' \in SfuCounters, sAt'.row = sAt.row,
             \/ /\ sState' = "PARAM_REQ" /\ sJob.op = "LAYERNORM" /\ sAt'.read < 4 * sJob.n
             \/ /\ sState' = "FP16_REQ" /\ sJob.op # "GELU" /\ sJob.src1.buf # "ACCUM"
                /\ sAt'.read < 2 * sJob.n
             \/ /\ sState' = "FP32_REQ" /\ sJob.op = "SOFTMAX" /\ sJob.src1.buf = "ACCUM"
                /\ sAt'.read < 4 * sJob.n
             \/ /\ sState' = "COMPUTE" /\ sJob.op # "GELU" /\ sAt'.chunk < 2 * sJob.n
      PROVE  SfuInv'
  <2>1. sAt'.row < lines
    BY <1>3, <1>8 DEF lines
  <2>2. SfuWalk(sJob, sAt', sState') /\ sState' \in SfuStates
    BY <1>8, <2>1
       DEF SfuStates, SfuWalk, Params, Line16, Line32, LineOut, Gelu16W, Gelu32W, lines
  <2> QED
    BY <1>1, <1>8, <2>2, SfuGoesOn
<1>9. CASE Sfu!ParamLatch
  <2>1. sJob.op = "LAYERNORM"
    BY <1>1, <1>9 DEF SfuWalk, Params, Sfu!ParamLatch
  <2>2. sJob.src1.buf # "ACCUM"
    BY <1>1, <2>1 DEF SfuAccepted, Sfu!Unsupported
  <2>3. sJob' = sJob
        /\ \/ sAt' = [sAt EXCEPT !.read = k] /\ sState' = "PARAM_REQ" /\ k < 4 * sJob.n
           \/ sAt' = [sAt EXCEPT !.read = 0] /\ sState' = "FP16_REQ"
    BY <1>2, <1>9 DEF Sfu!ParamLatch, Sfu!Goto, k
  <2>4. CASE sAt' = [sAt EXCEPT !.read = k] /\ sState' = "PARAM_REQ" /\ k < 4 * sJob.n
    BY <1>6, <1>7, <1>8, <2>1, <2>3, <2>4
  <2>5. CASE sAt' = [sAt EXCEPT !.read = 0] /\ sState' = "FP16_REQ"
    BY <1>4, <1>6, <1>7, <1>8, <2>1, <2>2, <2>3, <2>5
  <2> QED
    BY <2>3, <2>4, <2>5
<1>10. CASE Sfu!Fp16Latch
  <2>1. sJob.op # "GELU" /\ sJob.src1.buf # "ACCUM"
    BY <1>1, <1>10 DEF SfuWalk, Line16, Sfu!Fp16Latch, Sfu!LineLatch
  <2>2. sJob' = sJob
        /\ \/ sAt' = [sAt EXCEPT !.read = k] /\ sState' = "FP16_REQ" /\ k < 2 * sJob.n
           \/ sAt' = [sAt EXCEPT !.chunk = 0] /\ sState' = "COMPUTE"
    BY <1>2, <1>10 DEF Sfu!Fp16Latch, Sfu!LineLatch, Sfu!Goto, k
  <2>3. CASE sAt' = [sAt EXCEPT !.read = k] /\ sState' = "FP16_REQ" /\ k < 2 * sJob.n
    BY <1>6, <1>7, <1>8, <2>1, <2>2, <2>3
  <2>4. CASE sAt' = [sAt EXCEPT !.chunk = 0] /\ sState' = "COMPUTE"
    BY <1>4, <1>6, <1>7, <1>8, <2>1, <2>2, <2>4
  <2> QED
    BY <2>2, <2>3, <2>4
<1>11. CASE Sfu!Fp32Latch
  <2>1. sJob.op = "SOFTMAX" /\ sJob.src1.buf = "ACCUM"
    BY <1>1, <1>11 DEF SfuWalk, Line32, Sfu!Fp32Latch, Sfu!LineLatch
  <2>2. sJob' = sJob
        /\ \/ sAt' = [sAt EXCEPT !.read = k] /\ sState' = "FP32_REQ" /\ k < 4 * sJob.n
           \/ sAt' = [sAt EXCEPT !.chunk = 0] /\ sState' = "COMPUTE"
    BY <1>2, <1>11 DEF Sfu!Fp32Latch, Sfu!LineLatch, Sfu!Goto, k
  <2>3. CASE sAt' = [sAt EXCEPT !.read = k] /\ sState' = "FP32_REQ" /\ k < 4 * sJob.n
    BY <1>6, <1>7, <1>8, <2>1, <2>2, <2>3
  <2>4. CASE sAt' = [sAt EXCEPT !.chunk = 0] /\ sState' = "COMPUTE"
    BY <1>4, <1>6, <1>7, <1>8, <2>1, <2>2, <2>4
  <2> QED
    BY <2>2, <2>3, <2>4
<1> QED
  BY <1>9, <1>10, <1>11

\* A word is written, and the next one, the next line or the end comes.
LEMMA SfuWrites ==
  ASSUME SfuInv, Sfu!Write \/ Sfu!Gelu16Write \/ Sfu!Gelu32Write
  PROVE  SfuInv'
<1>1. /\ Sfu!Busy /\ SfuAccepted(sJob) /\ SfuWalk(sJob, sAt, sState) /\ sAt \in SfuCounters
      /\ sAt.chunk \in Nat /\ sAt.row \in Nat /\ sAt.part \in Nat
  BY DEF SfuInv, Sfu!Write, Sfu!Gelu16Write, Sfu!Gelu32Write, Sfu!Busy, SfuCounters
<1>2. /\ sJob.n \in Nat /\ 0 < sJob.n /\ Sfu!Words(sJob) = 2 * sJob.n
      /\ sJob.op \in {"SOFTMAX", "LAYERNORM", "GELU"}
  BY <1>1, SfuSizes, SfuJobTypes DEF SfuAccepted
<1> DEFINE k == sAt.chunk + 1
           r == sAt.row + 1
           lines == sJob.m * Dim
<1>3. k \in Nat /\ r \in Nat
  BY <1>1
<1>4. CASE Sfu!Write
  <2>1. sState \in LineOut /\ sJob.op # "GELU"
    BY <1>1, <1>4 DEF Sfu!Write, LineOut, SfuWalk
  <2>2. CASE k < Sfu!Words(sJob)
    <3>1. sAt' = [sAt EXCEPT !.chunk = k] /\ sState' = "PACK" /\ sJob' = sJob
      BY <1>4, <2>2 DEF Sfu!Write, Sfu!Goto
    <3>2. k < 2 * sJob.n
      BY <1>2, <2>2
    <3>3. sAt.row < lines
      BY <1>1 DEF SfuWalk
    <3> HIDE DEF k, r, lines
    <3>4. [sAt EXCEPT !.chunk = k] \in SfuCounters
      BY <1>1, <1>3, SfuCounterTypes
    <3>5. sAt'.chunk = k /\ sAt'.row = sAt.row
      BY <1>1, <3>1 DEF SfuCounters
    <3>6. sAt' \in SfuCounters /\ sState' \in SfuStates /\ SfuWalk(sJob, sAt', sState')
      BY <2>1, <3>1, <3>2, <3>3, <3>4, <3>5
         DEF SfuStates, SfuWalk, Params, Line16, Line32, LineOut, Gelu16W, Gelu32W, lines
    <3> QED
      BY <1>1, <3>1, <3>6, SfuGoesOn
  <2>3. CASE ~(k < Sfu!Words(sJob)) /\ r < lines
    <3>1. /\ sAt' = [sAt EXCEPT !.row = r, !.read = 0, !.chunk = 0]
          /\ sState' = Sfu!LineState(sJob) /\ sJob' = sJob
      BY <1>4, <2>3 DEF Sfu!Write, Sfu!NextLine, Sfu!Goto
    <3>2. \/ sState' = "FP32_REQ" /\ sJob.op = "SOFTMAX" /\ sJob.src1.buf = "ACCUM"
          \/ sState' = "FP16_REQ" /\ sJob.src1.buf # "ACCUM"
      <4>1. sJob.op = "LAYERNORM" => sJob.src1.buf # "ACCUM"
        BY <1>1 DEF SfuAccepted, Sfu!Unsupported
      <4> QED
        BY <1>2, <2>1, <3>1, <4>1 DEF Sfu!LineState
    <3> HIDE DEF k, r, lines
    <3>3. [sAt EXCEPT !.row = r, !.read = 0, !.chunk = 0] \in SfuCounters
      BY <1>1, <1>3, SfuCounterTypes
    <3>4. sAt'.row = r /\ sAt'.read = 0 /\ sAt'.chunk = 0
      BY <1>1, <3>1 DEF SfuCounters
    <3>5. sAt' \in SfuCounters /\ sState' \in SfuStates /\ SfuWalk(sJob, sAt', sState')
      BY <1>2, <2>1, <2>3, <3>1, <3>2, <3>3, <3>4
         DEF SfuStates, SfuWalk, Params, Line16, Line32, LineOut, Gelu16W, Gelu32W, lines
    <3> QED
      BY <1>1, <3>1, <3>5, SfuGoesOn
  <2>4. CASE ~(k < Sfu!Words(sJob)) /\ ~(r < lines)
    <3>1. sAt' = sAt /\ sState' = "IDLE" /\ sJob' = sJob
      BY <1>4, <2>4 DEF Sfu!Write, Sfu!Goto
    <3> QED
      BY <1>1, <3>1, SfuGoesOn
  <2> QED
    BY <2>2, <2>3, <2>4
<1>5. ASSUME NEW again, NEW part \in Nat, Sfu!NextWord(again, part),
             \/ again = "GELU16_REQ" /\ sState \in Gelu16W
             \/ again = "GELU32_REQ" /\ sState \in Gelu32W /\ part = 0
      PROVE  SfuInv'
  <2>1. CASE k < Sfu!Words(sJob)
    <3>1. sAt' = [sAt EXCEPT !.chunk = k, !.part = part] /\ sState' = again /\ sJob' = sJob
      BY <1>5, <2>1 DEF Sfu!NextWord, Sfu!Goto
    <3>2. k < 2 * sJob.n
      BY <1>2, <2>1
    <3>3. sAt.row < lines
      BY <1>1 DEF SfuWalk
    <3> HIDE DEF k, r, lines
    <3>4. [sAt EXCEPT !.chunk = k, !.part = part] \in SfuCounters
      BY <1>1, <1>3, <1>5, SfuCounterTypes
    <3>5. sAt'.chunk = k /\ sAt'.part = part /\ sAt'.row = sAt.row
      BY <1>1, <3>1 DEF SfuCounters
    <3>6. sAt' \in SfuCounters /\ sState' \in SfuStates /\ SfuWalk(sJob, sAt', sState')
      BY <1>1, <1>5, <3>1, <3>2, <3>3, <3>4, <3>5
         DEF SfuStates, SfuWalk, Params, Line16, Line32, LineOut, Gelu16W, Gelu32W, lines
    <3> QED
      BY <1>1, <3>1, <3>6, SfuGoesOn
  <2>2. CASE ~(k < Sfu!Words(sJob)) /\ r < lines
    <3>1. /\ sAt' = [sAt EXCEPT !.row = r, !.chunk = 0, !.part = part]
          /\ sState' = again /\ sJob' = sJob
      BY <1>5, <2>2 DEF Sfu!NextWord, Sfu!Goto
    <3> HIDE DEF k, r, lines
    <3>2. [sAt EXCEPT !.row = r, !.chunk = 0, !.part = part] \in SfuCounters
      BY <1>1, <1>3, <1>5, SfuCounterTypes
    <3>3. sAt'.row = r /\ sAt'.chunk = 0 /\ sAt'.part = part
      BY <1>1, <3>1 DEF SfuCounters
    <3>4. sAt' \in SfuCounters /\ sState' \in SfuStates /\ SfuWalk(sJob, sAt', sState')
      BY <1>1, <1>2, <1>5, <2>2, <3>1, <3>2, <3>3
         DEF SfuStates, SfuWalk, Params, Line16, Line32, LineOut, Gelu16W, Gelu32W, lines
    <3> QED
      BY <1>1, <3>1, <3>4, SfuGoesOn
  <2>3. CASE ~(k < Sfu!Words(sJob)) /\ ~(r < lines)
    <3>1. sAt' = sAt /\ sState' = "IDLE" /\ sJob' = sJob
      BY <1>5, <2>3 DEF Sfu!NextWord, Sfu!Goto
    <3> QED
      BY <1>1, <3>1, SfuGoesOn
  <2> QED
    BY <2>1, <2>2, <2>3
<1>6. CASE Sfu!Gelu16Write
  <2>1. Sfu!NextWord("GELU16_REQ", sAt.part) /\ sState \in Gelu16W
    BY <1>6 DEF Sfu!Gelu16Write, Gelu16W
  <2> QED
    BY <1>1, <1>5, <2>1
<1>7. CASE Sfu!Gelu32Write
  <2>1. Sfu!NextWord("GELU32_REQ", 0) /\ sState \in Gelu32W
    BY <1>7 DEF Sfu!Gelu32Write, Gelu32W
  <2> QED
    BY <1>5, <2>1
<1> QED
  BY <1>4, <1>6, <1>7

\* The second row of an FP32 word.
LEMMA SfuParts ==
  ASSUME SfuInv, Sfu!Gelu32Latch
  PROVE  SfuInv'
<1>1. /\ Sfu!Busy /\ SfuWalk(sJob, sAt, sState) /\ sAt \in SfuCounters /\ sState \in Gelu32W
  BY DEF SfuInv, Sfu!Gelu32Latch, Sfu!Busy, Gelu32W
<1>2. /\ sJob' = sJob /\ sState' \in Gelu32W
      /\ sAt' = [sAt EXCEPT !.part = 1] \/ sAt' = sAt
  BY DEF Sfu!Gelu32Latch, Sfu!Goto, Gelu32W
<1>3. [sAt EXCEPT !.part = 1] \in SfuCounters
  BY <1>1, SfuCounterTypes
<1>4. /\ [sAt EXCEPT !.part = 1].part = 1
      /\ [sAt EXCEPT !.part = 1].row = sAt.row /\ [sAt EXCEPT !.part = 1].chunk = sAt.chunk
  BY <1>1 DEF SfuCounters
<1>5. sAt' \in SfuCounters /\ sState' \in SfuStates /\ SfuWalk(sJob, sAt', sState')
  BY <1>1, <1>2, <1>3, <1>4
     DEF SfuStates, SfuWalk, Params, Line16, Line32, LineOut, Gelu16W, Gelu32W
<1> QED
  BY <1>1, <1>2, <1>5, SfuGoesOn

\* The SFU stays inside.
LEMMA SfuStep ==
  ASSUME SfuInv, Sfu!Work
  PROVE  SfuInv'
BY SfuRequests, SfuLatches, SfuWrites, SfuParts DEF Sfu!Work

-----------------------------------------------------------------------------
(* No access leaves its buffer.                                            *)

\* Rows of a buffer that an access may touch.
Inside(access) == access[2] \in 0 .. BufRows[access[1]] - 1

\* A row of a place that fits.
LEMMA RowInside ==
  ASSUME NEW buf \in Buffers, NEW off \in Nat, NEW rows \in Nat, off + rows <= BufRows[buf],
         NEW i \in Nat, i < rows
  PROVE  off + i \in 0 .. BufRows[buf] - 1
BY RowAssumption

\* The places of an accepted job fit.
LEMMA HelperFits ==
  ASSUME NEW j, HelperAccepted(j)
  PROVE  /\ j.src1.off + Helper!Src1Rows(j) <= BufRows[j.src1.buf]
         /\ j.dst.off + Helper!DstRows(j) <= BufRows[j.dst.buf]
         /\ j.op = "VADD" => j.src2.off + Helper!Src2Rows(j) <= BufRows[j.src2.buf]
BY DEF HelperAccepted, Helper!OutOfBounds, Helper!Fits

\* Flat copy: the step, from either end.
LEMMA FlatInside ==
  ASSUME HelperInv, hState \in Flat
  PROVE  /\ Inside(<<hJob.src1.buf, Helper!FlatRow(hJob.src1)>>)
         /\ Inside(<<hJob.dst.buf, Helper!FlatRow(hJob.dst)>>)
<1>1. /\ HelperAccepted(hJob) /\ hJob.op = "BUF_COPY" /\ hAt.step < hJob.length
      /\ hAt.step \in Nat
  BY DEF HelperInv, HelperWalk, Helper!Busy, Flat, HelperCounters
<1>2. /\ hJob.length \in Nat /\ hJob.src1.buf \in Buffers /\ hJob.dst.buf \in Buffers
      /\ hJob.src1.off \in Nat /\ hJob.dst.off \in Nat
  BY <1>1, HelperJobTypes DEF HelperAccepted
<1>3. /\ hJob.src1.off + hJob.length <= BufRows[hJob.src1.buf]
      /\ hJob.dst.off + hJob.length <= BufRows[hJob.dst.buf]
  BY <1>1, HelperFits DEF Helper!Src1Rows, Helper!DstRows
<1> DEFINE i == IF hAt.backward THEN hJob.length - hAt.step - 1 ELSE hAt.step
<1>4. i \in Nat /\ i < hJob.length
  BY <1>1, <1>2
<1>5. /\ Helper!FlatRow(hJob.src1) = hJob.src1.off + i
      /\ Helper!FlatRow(hJob.dst) = hJob.dst.off + i
  BY DEF Helper!FlatRow
<1> HIDE DEF i
<1> QED
  BY <1>2, <1>3, <1>4, <1>5, RowInside DEF Inside

\* Transpose: a line of a block in the source, one in the destination.
LEMMA TransposeInside ==
  ASSUME HelperInv, hState \in Transp
  PROVE  /\ Inside(<<hJob.src1.buf, Helper!TransSrcRow>>)
         /\ hState = "TDST_WRITE" => Inside(<<hJob.dst.buf, Helper!TransDstRow>>)
<1>1. /\ HelperAccepted(hJob) /\ hJob.op = "BUF_COPY" /\ hJob.transpose /\ hJob.length # 0
      /\ hAt.src < Half /\ hAt.src \in Nat /\ hAt.dst \in Nat
      /\ hState = "TDST_WRITE" => hAt.dst < Half
  BY DEF HelperInv, HelperWalk, Helper!Busy, Transp, HelperCounters
<1>2. PICK a, b \in Nat : /\ a < Down(hJob) /\ hAt.rbase = a * Half
                          /\ b < Across(hJob) /\ hAt.cbase = b * Half
  <2>1. AtBlock(hAt.rbase, hAt.cbase, Down(hJob), Across(hJob))
    BY DEF HelperInv, HelperWalk, Helper!Busy, Transp
  <2>2. Across(hJob) \in Nat /\ Down(hJob) \in Nat
    BY <1>1, TransposeShape, HelperJobTypes DEF HelperAccepted
  <2> QED
    BY <2>1, <2>2, Blocks
<1>3. /\ hJob.length \in Nat /\ hJob.src1.buf \in Buffers /\ hJob.dst.buf \in Buffers
      /\ hJob.src1.off \in Nat /\ hJob.dst.off \in Nat
  BY <1>1, HelperJobTypes DEF HelperAccepted
<1>4. /\ hJob.src1.off + hJob.length <= BufRows[hJob.src1.buf]
      /\ hJob.dst.off + hJob.length <= BufRows[hJob.dst.buf]
  BY <1>1, HelperFits DEF Helper!Src1Rows, Helper!DstRows
<1> DEFINE h == Half
           x == Across(hJob)
           y == Down(hJob)
           src == hAt.src
           dst == hAt.dst
           length == hJob.length
<1>5. h \in Nat /\ 0 < h
  BY DimFacts
<1>6. /\ x \in Nat /\ y \in Nat
      /\ Helper!Columns(hJob) = x * h /\ Helper!Lines(hJob) = y * h
      /\ length = Helper!Lines(hJob) * x /\ length = Helper!Columns(hJob) * y
  BY <1>1, TransposeShape, HelperJobTypes DEF HelperAccepted
<1>7. Helper!Half = h
  BY DEF Helper!Half, Half
<1>8. /\ Helper!TransSrcRow = hJob.src1.off + (a * h + src) * x + (b * h) \div h
      /\ Helper!TransDstRow = hJob.dst.off + (b * h + dst) * y + (a * h) \div h
  BY <1>2, <1>7 DEF Helper!TransSrcRow, Helper!TransDstRow, Across, Down
<1>9. src \in Nat /\ dst \in Nat /\ src < h /\ a < y /\ b < x
      /\ (hState = "TDST_WRITE" => dst < h)
  BY <1>1, <1>2
<1> HIDE DEF h, x, y, src, dst, length
<1>10. (b * h) \div h = b /\ (a * h) \div h = a
  BY <1>5, Quotient
<1>11. /\ a * h + src \in Nat /\ a * h + src < y * h
  BY <1>5, <1>6, <1>9, Block
<1>12. y * h \in Nat /\ x * h \in Nat
  BY <1>5, <1>6, NatProduct
<1>13. (a * h + src) * x + b \in Nat /\ (a * h + src) * x + b < length
  <2> DEFINE p == a * h + src
             q == y * h
  <2>1. p \in Nat /\ q \in Nat /\ p < q /\ length = q * x
    BY <1>6, <1>11, <1>12
  <2> HIDE DEF p, q
  <2>2. p * x + b \in Nat /\ p * x + b < q * x
    BY <1>6, <1>9, <2>1, Block
  <2> QED
    BY <2>1, <2>2 DEF p
<1>14. hState = "TDST_WRITE" =>
         (b * h + dst) * y + a \in Nat /\ (b * h + dst) * y + a < length
  <2> SUFFICES ASSUME hState = "TDST_WRITE"
               PROVE  (b * h + dst) * y + a \in Nat /\ (b * h + dst) * y + a < length
    OBVIOUS
  <2> DEFINE p == b * h + dst
             q == x * h
  <2>1. p \in Nat /\ p < q
    BY <1>5, <1>6, <1>9, Block
  <2>2. q \in Nat /\ length = q * y
    BY <1>6, <1>12
  <2> HIDE DEF p, q
  <2>3. p * y + a \in Nat /\ p * y + a < q * y
    BY <1>6, <1>9, <2>1, <2>2, Block
  <2> QED
    BY <2>2, <2>3 DEF p
<1> DEFINE s == (a * h + src) * x
           d == (b * h + dst) * y
<1>15. s \in Nat
  BY <1>6, <1>11, NatProduct
<1>16. b * h + dst \in Nat
  <2>1. b * h \in Nat
    BY <1>5, NatProduct
  <2> QED
    BY <1>9, <2>1
<1>17. d \in Nat
  BY <1>6, <1>16, NatProduct
<1>18. /\ Helper!TransSrcRow = hJob.src1.off + s + b
       /\ Helper!TransDstRow = hJob.dst.off + d + a
       /\ s + b \in Nat /\ s + b < length
       /\ hState = "TDST_WRITE" => d + a < length
  BY <1>8, <1>10, <1>13, <1>14
<1> HIDE DEF s, d
<1>19. /\ Helper!TransSrcRow = hJob.src1.off + (s + b)
       /\ Helper!TransDstRow = hJob.dst.off + (d + a)
       /\ d + a \in Nat
  BY <1>3, <1>15, <1>17, <1>18
<1> QED
  BY <1>3, <1>4, <1>18, <1>19, RowInside DEF Inside, length

\* VADD of FP16: all three matrices have the same rows.
LEMMA V16Inside ==
  ASSUME HelperInv, hState \in Vadd16
  PROVE  /\ Inside(<<hJob.src1.buf, Helper!StepRow(hJob.src1)>>)
         /\ Inside(<<hJob.src2.buf, Helper!StepRow(hJob.src2)>>)
         /\ Inside(<<hJob.dst.buf, Helper!StepRow(hJob.dst)>>)
<1>1. /\ HelperAccepted(hJob) /\ hJob.op = "VADD" /\ Helper!IsVaddFp16(hJob)
      /\ hAt.step < MatrixRows(hJob.dst, hJob) /\ hAt.step \in Nat
  BY DEF HelperInv, HelperWalk, Helper!Busy, Vadd16, HelperCounters
<1>2. hJob \in HelperJobs
  BY <1>1 DEF HelperAccepted
<1>3. /\ hJob.src1.buf \in Buffers /\ hJob.src2.buf \in Buffers /\ hJob.dst.buf \in Buffers
      /\ hJob.src1.off \in Nat /\ hJob.src2.off \in Nat /\ hJob.dst.off \in Nat
  BY <1>2, HelperJobTypes
<1>4. /\ hJob.src1.buf # "ACCUM" /\ hJob.src2.buf # "ACCUM" /\ hJob.dst.buf # "ACCUM"
      /\ ~Helper!IsVaddBias(hJob)
  BY <1>1 DEF Helper!IsVaddFp16, Helper!IsVaddBias
<1> DEFINE rows == MatrixRows(hJob.dst, hJob)
<1>5. /\ rows \in Nat /\ MatrixRows(hJob.src1, hJob) = rows
      /\ MatrixRows(hJob.src2, hJob) = rows
  BY <1>2, <1>4, RowsOfMatrix
<1>6. /\ Helper!Src1Rows(hJob) = rows /\ Helper!Src2Rows(hJob) = rows
      /\ Helper!DstRows(hJob) = rows
  BY <1>1, <1>2, <1>4, <1>5, RowsOfMatrix DEF Helper!Src1Rows, Helper!Src2Rows, Helper!DstRows
<1>7. hAt.step < rows
  BY <1>1
<1> HIDE DEF rows
<1>8. /\ hJob.src1.off + rows <= BufRows[hJob.src1.buf]
      /\ hJob.src2.off + rows <= BufRows[hJob.src2.buf]
      /\ hJob.dst.off + rows <= BufRows[hJob.dst.buf]
  BY <1>1, <1>6, HelperFits
<1> QED
  BY <1>1, <1>3, <1>5, <1>7, <1>8, RowInside DEF Inside, Helper!StepRow

\* VADD of a bias: a row of the bias, and the lines under it.
LEMMA BiasInside ==
  ASSUME HelperInv, hState \in Bias \union Accum
  PROVE  /\ Inside(<<hJob.src2.buf, Helper!BiasRow>>)
         /\ hState \in Accum => /\ Inside(<<hJob.src1.buf, Helper!AccRow(hJob.src1)>>)
                                /\ Inside(<<hJob.dst.buf, Helper!AccRow(hJob.dst)>>)
<1>1. /\ HelperAccepted(hJob) /\ hJob.op = "VADD" /\ Helper!IsVaddBias(hJob)
      /\ hAt.chunk < 2 * hJob.n
      /\ hAt.chunk \in Nat /\ hAt.row \in Nat /\ hAt.half \in Nat
      /\ hState \in Accum => hAt.row < hJob.m * Dim /\ hAt.half \in {0, 1}
  BY DEF HelperInv, HelperWalk, Helper!Busy, Bias, Accum, HelperCounters
<1>2. hJob \in HelperJobs
  BY <1>1 DEF HelperAccepted
<1>3. /\ hJob.src1.buf \in Buffers /\ hJob.src2.buf \in Buffers /\ hJob.dst.buf \in Buffers
      /\ hJob.src1.off \in Nat /\ hJob.src2.off \in Nat /\ hJob.dst.off \in Nat
      /\ hJob.n \in Nat /\ 0 < hJob.n /\ hJob.m \in Nat /\ 0 < hJob.m
  BY <1>2, HelperJobTypes
<1>4. /\ hJob.src1.buf = "ACCUM" /\ hJob.src2.buf = "WBUF" /\ hJob.dst.buf = "ACCUM"
  BY <1>1 DEF Helper!IsVaddBias
<1> DEFINE lines == hJob.m * Dim
           rows == lines * (4 * hJob.n)
<1>5. lines \in Nat
  BY <1>3, MatrixSize
<1>6. /\ MatrixRows(hJob.src1, hJob) = rows /\ MatrixRows(hJob.dst, hJob) = rows
      /\ rows \in Nat
  BY <1>2, <1>4, RowsOfMatrix
<1>7. /\ Helper!Src1Rows(hJob) = rows /\ Helper!Src2Rows(hJob) = 2 * hJob.n
      /\ Helper!DstRows(hJob) = rows
  BY <1>1, <1>2, <1>4, <1>6, RowsOfMatrix
     DEF Helper!Src1Rows, Helper!Src2Rows, Helper!DstRows, Helper!LineRows
<1>8. Inside(<<hJob.src2.buf, Helper!BiasRow>>)
  <2>1. hJob.src2.off + 2 * hJob.n <= BufRows[hJob.src2.buf]
    BY <1>1, <1>7, HelperFits
  <2>2. 2 * hJob.n \in Nat
    BY <1>3
  <2> DEFINE w == 2 * hJob.n
  <2>3. hJob.src2.off + w <= BufRows[hJob.src2.buf] /\ w \in Nat /\ hAt.chunk < w
    BY <1>1, <2>1, <2>2
  <2> HIDE DEF w, lines, rows
  <2>4. hJob.src2.off + hAt.chunk \in 0 .. BufRows[hJob.src2.buf] - 1
    BY <1>1, <1>3, <2>3, RowInside
  <2> QED
    BY <2>4 DEF Inside, Helper!BiasRow
<1>9. ASSUME hState \in Accum
      PROVE  /\ Inside(<<hJob.src1.buf, Helper!AccRow(hJob.src1)>>)
             /\ Inside(<<hJob.dst.buf, Helper!AccRow(hJob.dst)>>)
  <2> DEFINE b == 2 * hAt.chunk + hAt.half
             w == 4 * hJob.n
             r == hAt.row
             i == r * w + b
  <2>1. b \in Nat /\ w \in Nat /\ b < w
    BY <1>1, <1>3, <1>9
  <2>2. r \in Nat /\ r < lines
    BY <1>1, <1>9
  <2>3. /\ Helper!AccRow(hJob.src1) = hJob.src1.off + r * w + 2 * hAt.chunk + hAt.half
        /\ Helper!AccRow(hJob.dst) = hJob.dst.off + r * w + 2 * hAt.chunk + hAt.half
    BY DEF Helper!AccRow, Helper!LineRows
  <2>4. rows = lines * w
    OBVIOUS
  <2> DEFINE s == r * w
  <2> HIDE DEF w, r, lines, rows
  <2>5. s \in Nat
    BY <2>1, <2>2, NatProduct
  <2>6. i \in Nat /\ i < rows
    BY <1>5, <2>1, <2>2, <2>4, Block
  <2> HIDE DEF s
  <2>7. /\ Helper!AccRow(hJob.src1) = hJob.src1.off + (s + b)
        /\ Helper!AccRow(hJob.dst) = hJob.dst.off + (s + b)
    BY <1>1, <1>3, <2>3, <2>5 DEF s
  <2>8. s + b \in Nat /\ s + b < rows
    BY <2>6 DEF s
  <2>9. /\ hJob.src1.off + rows <= BufRows[hJob.src1.buf]
        /\ hJob.dst.off + rows <= BufRows[hJob.dst.buf]
    BY <1>1, <1>7, HelperFits
  <2> HIDE DEF b
  <2> QED
    BY <1>3, <1>6, <2>7, <2>8, <2>9, RowInside DEF Inside
<1> QED
  BY <1>8, <1>9

\* SCALE_MUL of one width.
LEMMA ScaleInside ==
  ASSUME HelperInv, hState \in ScaleW
  PROVE  /\ Inside(<<hJob.src1.buf, Helper!StepRow(hJob.src1)>>)
         /\ Inside(<<hJob.dst.buf, Helper!StepRow(hJob.dst)>>)
<1>1. /\ HelperAccepted(hJob) /\ hJob.op = "SCALE_MUL" /\ ~Helper!Narrows(hJob)
      /\ hAt.step < MatrixRows(hJob.src1, hJob) /\ hAt.step \in Nat
  BY DEF HelperInv, HelperWalk, Helper!Busy, ScaleW, HelperCounters
<1>2. hJob \in HelperJobs
  BY <1>1 DEF HelperAccepted
<1>3. /\ hJob.src1.buf \in Buffers /\ hJob.dst.buf \in Buffers
      /\ hJob.src1.off \in Nat /\ hJob.dst.off \in Nat
  BY <1>2, HelperJobTypes
<1>4. hJob.src1.buf = "ACCUM" <=> hJob.dst.buf = "ACCUM"
  BY <1>1 DEF HelperAccepted, Helper!Unsupported, Helper!Narrows
<1> DEFINE rows == MatrixRows(hJob.src1, hJob)
<1>5. rows \in Nat /\ MatrixRows(hJob.dst, hJob) = rows
  BY <1>2, <1>4, RowsOfMatrix
<1>6. Helper!Src1Rows(hJob) = rows /\ Helper!DstRows(hJob) = rows
  BY <1>1, <1>2, <1>5, RowsOfMatrix DEF Helper!Src1Rows, Helper!DstRows
<1>7. hAt.step < rows
  BY <1>1
<1> HIDE DEF rows
<1>8. /\ hJob.src1.off + rows <= BufRows[hJob.src1.buf]
      /\ hJob.dst.off + rows <= BufRows[hJob.dst.buf]
  BY <1>1, <1>6, HelperFits
<1> QED
  BY <1>1, <1>3, <1>5, <1>7, <1>8, RowInside DEF Inside, Helper!StepRow

\* SCALE_MUL to FP16: two rows are read for one that is written.
LEMMA NarrowInside ==
  ASSUME HelperInv, hState \in NarrowW
  PROVE  /\ Inside(<<hJob.src1.buf, Helper!NarrowRow>>)
         /\ Inside(<<hJob.dst.buf, Helper!StepRow(hJob.dst)>>)
<1>1. /\ HelperAccepted(hJob) /\ hJob.op = "SCALE_MUL" /\ Helper!Narrows(hJob)
      /\ hAt.step < MatrixRows(hJob.dst, hJob) /\ hAt.step \in Nat
      /\ hAt.part \in {0, 1}
  BY DEF HelperInv, HelperWalk, Helper!Busy, NarrowW, HelperCounters
<1>2. hJob \in HelperJobs
  BY <1>1 DEF HelperAccepted
<1>3. /\ hJob.src1.buf \in Buffers /\ hJob.dst.buf \in Buffers
      /\ hJob.src1.off \in Nat /\ hJob.dst.off \in Nat
  BY <1>2, HelperJobTypes
<1>4. hJob.src1.buf = "ACCUM" /\ hJob.dst.buf # "ACCUM"
  BY <1>1 DEF Helper!Narrows
<1> DEFINE rows == MatrixRows(hJob.dst, hJob)
<1>5. rows \in Nat /\ MatrixRows(hJob.src1, hJob) = 2 * rows
  BY <1>2, <1>4, RowsOfMatrix
<1>6. Helper!Src1Rows(hJob) = 2 * rows /\ Helper!DstRows(hJob) = rows
  BY <1>1, <1>2, <1>5, RowsOfMatrix DEF Helper!Src1Rows, Helper!DstRows
<1>7. hAt.step < rows
  BY <1>1
<1> HIDE DEF rows
<1>8. /\ hJob.src1.off + 2 * rows <= BufRows[hJob.src1.buf]
      /\ hJob.dst.off + rows <= BufRows[hJob.dst.buf]
  BY <1>1, <1>6, HelperFits
<1> DEFINE i == 2 * hAt.step + hAt.part
<1>9. i \in Nat /\ i < 2 * rows /\ 2 * rows \in Nat
  BY <1>1, <1>5, <1>7
<1>10. Helper!NarrowRow = hJob.src1.off + i
  BY <1>1, <1>3 DEF Helper!NarrowRow
<1> HIDE DEF i
<1>11. Inside(<<hJob.src1.buf, Helper!NarrowRow>>)
  BY <1>3, <1>8, <1>9, <1>10, RowInside DEF Inside
<1> QED
  BY <1>1, <1>3, <1>5, <1>7, <1>8, <1>11, RowInside DEF Inside, Helper!StepRow

\* Every access of the helper engine.
LEMMA HelperInside ==
  ASSUME HelperInv, NEW access \in Helper!Accesses
  PROVE  Inside(access)
<1>1. \/ /\ hState \in Flat
         /\ access \in {<<hJob.src1.buf, Helper!FlatRow(hJob.src1)>>,
                        <<hJob.dst.buf, Helper!FlatRow(hJob.dst)>>}
      \/ hState \in Transp /\ access = <<hJob.src1.buf, Helper!TransSrcRow>>
      \/ hState = "TDST_WRITE" /\ access = <<hJob.dst.buf, Helper!TransDstRow>>
      \/ /\ hState \in Vadd16
         /\ access \in {<<hJob.src1.buf, Helper!StepRow(hJob.src1)>>,
                        <<hJob.src2.buf, Helper!StepRow(hJob.src2)>>,
                        <<hJob.dst.buf, Helper!StepRow(hJob.dst)>>}
      \/ hState \in Bias /\ access = <<hJob.src2.buf, Helper!BiasRow>>
      \/ /\ hState \in Accum
         /\ access \in {<<hJob.src1.buf, Helper!AccRow(hJob.src1)>>,
                        <<hJob.dst.buf, Helper!AccRow(hJob.dst)>>}
      \/ /\ hState \in ScaleW
         /\ access \in {<<hJob.src1.buf, Helper!StepRow(hJob.src1)>>,
                        <<hJob.dst.buf, Helper!StepRow(hJob.dst)>>}
      \/ /\ hState \in NarrowW
         /\ access \in {<<hJob.src1.buf, Helper!NarrowRow>>,
                        <<hJob.dst.buf, Helper!StepRow(hJob.dst)>>}
  BY DEF HelperInv, HelperStates, Flat, Transp, Vadd16, Bias, Accum, ScaleW, NarrowW,
         Helper!Accesses
<1> QED
  BY <1>1, FlatInside, TransposeInside, V16Inside, BiasInside, ScaleInside, NarrowInside
     DEF Transp

\* The places of an accepted job of the SFU fit.
LEMMA SfuFits ==
  ASSUME NEW j, SfuAccepted(j)
  PROVE  /\ j.src1.off + MatrixRows(j.src1, j) <= BufRows[j.src1.buf]
         /\ j.src2.off + Sfu!Src2Rows(j) <= BufRows[j.src2.buf]
         /\ j.dst.off + MatrixRows(j.dst, j) <= BufRows[j.dst.buf]
BY DEF SfuAccepted, Sfu!OutOfBounds, Sfu!Fits, Sfu!MatrixRows, Sfu!LineRows, MatrixRows, LineRows

\* A word of the line the SFU is at.
LEMMA LineInside ==
  ASSUME SfuInv, Sfu!Busy, NEW p \in {sJob.src1, sJob.dst}, NEW w \in Nat, NEW i \in Nat, i < w,
         LineRows(p.buf, sJob.n) = w
  PROVE  Inside(<<p.buf, Sfu!LineStart(p) + i>>)
<1>1. SfuAccepted(sJob) /\ sAt.row < sJob.m * Dim /\ sAt.row \in Nat
  BY DEF SfuInv, SfuWalk, SfuCounters
<1>2. /\ p.buf \in Buffers /\ p.off \in Nat
      /\ sJob.m \in Nat /\ 0 < sJob.m /\ sJob.n \in Nat /\ 0 < sJob.n
  BY <1>1, SfuJobTypes DEF SfuAccepted
<1> DEFINE r == sAt.row
           lines == sJob.m * Dim
           s == r * w
<1>3. lines \in Nat /\ r \in Nat /\ r < lines
  BY <1>1, <1>2, MatrixSize
<1>4. p.off + lines * w <= BufRows[p.buf]
  <2>1. MatrixRows(p, sJob) = lines * w
    BY DEF MatrixRows
  <2>2. p.off + MatrixRows(p, sJob) <= BufRows[p.buf]
    BY <1>1, SfuFits
  <2> QED
    BY <2>1, <2>2
<1>5. Sfu!LineStart(p) = p.off + s
  BY DEF Sfu!LineStart, Sfu!LineRows, LineRows
<1> HIDE DEF r, lines
<1>6. s + i \in Nat /\ s + i < lines * w
  BY <1>3, Block
<1>7. lines * w \in Nat /\ s \in Nat
  BY <1>3, NatProduct
<1> DEFINE rows == lines * w
<1> HIDE DEF s, rows
<1>8. rows \in Nat /\ s + i < rows /\ p.off + rows <= BufRows[p.buf]
  BY <1>4, <1>6, <1>7 DEF rows
<1>9. p.off + (s + i) \in 0 .. BufRows[p.buf] - 1
  BY <1>2, <1>6, <1>8, RowInside
<1>10. Sfu!LineStart(p) + i = p.off + (s + i)
  BY <1>2, <1>5, <1>7
<1> QED
  BY <1>9, <1>10 DEF Inside

\* The rows of the gammas and betas.
LEMMA ParamInside ==
  ASSUME SfuInv, sState \in Params
  PROVE  Inside(<<sJob.src2.buf, Sfu!ParamRow>>)
<1>1. /\ SfuAccepted(sJob) /\ sJob.op = "LAYERNORM" /\ sAt.read < 4 * sJob.n
      /\ sAt.read \in Nat
  BY DEF SfuInv, SfuWalk, SfuCounters, Sfu!Busy, Params
<1>2. /\ sJob.src2.buf \in Buffers /\ sJob.src2.off \in Nat /\ sJob.n \in Nat
  BY <1>1, SfuJobTypes DEF SfuAccepted
<1>3. Sfu!Src2Rows(sJob) = 4 * sJob.n
  BY <1>1, <1>2 DEF Sfu!Src2Rows, Sfu!Gammas
<1> DEFINE w == 4 * sJob.n
<1>4. w \in Nat /\ sAt.read < w /\ sJob.src2.off + w <= BufRows[sJob.src2.buf]
  BY <1>1, <1>2, <1>3, SfuFits
<1> HIDE DEF w
<1>5. sJob.src2.off + sAt.read \in 0 .. BufRows[sJob.src2.buf] - 1
  BY <1>1, <1>2, <1>4, RowInside
<1> QED
  BY <1>5 DEF Inside, Sfu!ParamRow

\* Every access of the SFU.
LEMMA SfuInside ==
  ASSUME SfuInv, NEW access \in Sfu!Accesses
  PROVE  Inside(access)
<1>1. \/ sState \in Params /\ access = <<sJob.src2.buf, Sfu!ParamRow>>
      \/ sState \in Line16 /\ access = <<sJob.src1.buf, Sfu!ReadRow>>
      \/ sState \in Line32 /\ access = <<sJob.src1.buf, Sfu!ReadRow>>
      \/ sState \in Gelu16W /\ access = <<sJob.src1.buf, Sfu!Gelu16Row>>
      \/ sState \in Gelu32W /\ access = <<sJob.src1.buf, Sfu!Gelu32Row>>
      \/ /\ sState \in LineOut \union Gelu16W \union Gelu32W
         /\ access = <<sJob.dst.buf, Sfu!DstRow>>
  BY DEF SfuInv, SfuStates, Params, Line16, Line32, LineOut, Gelu16W, Gelu32W, Sfu!Accesses
<1>2. Sfu!Busy /\ SfuAccepted(sJob) /\ SfuWalk(sJob, sAt, sState) /\ sAt \in SfuCounters
  BY <1>1 DEF SfuInv, Sfu!Busy, Params, Line16, Line32, LineOut, Gelu16W, Gelu32W
<1>3. sJob.n \in Nat /\ sAt.read \in Nat /\ sAt.chunk \in Nat
  BY <1>2, SfuJobTypes DEF SfuAccepted, SfuCounters
<1>4. 2 * sJob.n \in Nat /\ 4 * sJob.n \in Nat
  BY <1>3
<1>5. CASE sState \in Params /\ access = <<sJob.src2.buf, Sfu!ParamRow>>
  BY <1>5, ParamInside
<1>6. CASE sState \in Line16 /\ access = <<sJob.src1.buf, Sfu!ReadRow>>
  <2>1. sAt.read < 2 * sJob.n /\ LineRows(sJob.src1.buf, sJob.n) = 2 * sJob.n
    BY <1>2, <1>6 DEF SfuWalk, LineRows
  <2>2. Inside(<<sJob.src1.buf, Sfu!LineStart(sJob.src1) + sAt.read>>)
    BY <1>2, <1>3, <1>4, <2>1, LineInside
  <2> QED
    BY <1>6, <2>2 DEF Sfu!ReadRow
<1>7. CASE sState \in Line32 /\ access = <<sJob.src1.buf, Sfu!ReadRow>>
  <2>1. sAt.read < 4 * sJob.n /\ LineRows(sJob.src1.buf, sJob.n) = 4 * sJob.n
    BY <1>2, <1>7 DEF SfuWalk, LineRows
  <2>2. Inside(<<sJob.src1.buf, Sfu!LineStart(sJob.src1) + sAt.read>>)
    BY <1>2, <1>3, <1>4, <2>1, LineInside
  <2> QED
    BY <1>7, <2>2 DEF Sfu!ReadRow
<1>8. CASE sState \in Gelu16W /\ access = <<sJob.src1.buf, Sfu!Gelu16Row>>
  <2>1. sAt.chunk < 2 * sJob.n /\ LineRows(sJob.src1.buf, sJob.n) = 2 * sJob.n
    BY <1>2, <1>8 DEF SfuWalk, LineRows
  <2>2. Inside(<<sJob.src1.buf, Sfu!LineStart(sJob.src1) + sAt.chunk>>)
    BY <1>2, <1>3, <1>4, <2>1, LineInside
  <2> QED
    BY <1>8, <2>2 DEF Sfu!Gelu16Row
<1>9. CASE sState \in Gelu32W /\ access = <<sJob.src1.buf, Sfu!Gelu32Row>>
  <2>1. /\ sAt.chunk < 2 * sJob.n /\ sAt.part \in {0, 1}
        /\ LineRows(sJob.src1.buf, sJob.n) = 4 * sJob.n
    BY <1>2, <1>9 DEF SfuWalk, LineRows
  <2> DEFINE i == 2 * sAt.chunk + sAt.part
  <2>2. i \in Nat /\ i < 4 * sJob.n
    BY <1>3, <2>1
  <2>3. Sfu!Gelu32Row = Sfu!LineStart(sJob.src1) + i
    <3>1. Sfu!LineStart(sJob.src1) \in Nat
      <4> DEFINE r == sAt.row
                 w == 4 * sJob.n
      <4>1. Sfu!LineStart(sJob.src1) = sJob.src1.off + r * w
        BY <1>2, <1>9 DEF Sfu!LineStart, Sfu!LineRows, SfuWalk
      <4>2. r \in Nat /\ w \in Nat /\ sJob.src1.off \in Nat
        BY <1>2, <1>4, SfuJobTypes DEF SfuCounters, SfuAccepted
      <4> HIDE DEF r, w
      <4>3. r * w \in Nat
        BY <4>2, NatProduct
      <4> QED
        BY <4>1, <4>2, <4>3
    <3> QED
      BY <1>3, <2>1, <3>1 DEF Sfu!Gelu32Row
  <2> HIDE DEF i
  <2>4. Inside(<<sJob.src1.buf, Sfu!LineStart(sJob.src1) + i>>)
    BY <1>2, <1>4, <2>1, <2>2, LineInside
  <2> QED
    BY <1>9, <2>3, <2>4
<1>10. CASE /\ sState \in LineOut \union Gelu16W \union Gelu32W
            /\ access = <<sJob.dst.buf, Sfu!DstRow>>
  <2>1. sAt.chunk < 2 * sJob.n
    BY <1>2, <1>10 DEF SfuWalk
  <2>2. sJob.dst.buf # "ACCUM"
    BY <1>2 DEF SfuAccepted, Sfu!Unsupported
  <2>3. LineRows(sJob.dst.buf, sJob.n) = 2 * sJob.n
    BY <2>2 DEF LineRows
  <2>4. Inside(<<sJob.dst.buf, Sfu!LineStart(sJob.dst) + sAt.chunk>>)
    BY <1>2, <1>3, <1>4, <2>1, <2>3, LineInside
  <2> QED
    BY <1>10, <2>4 DEF Sfu!DstRow
<1> QED
  BY <1>1, <1>5, <1>6, <1>7, <1>8, <1>9, <1>10

-----------------------------------------------------------------------------
(* Both engines.                                                           *)

\* An engine that does nothing stays where it is.
LEMMA HelperWaits == HelperInv /\ UNCHANGED helper => HelperInv'
<1> SUFFICES ASSUME HelperInv, UNCHANGED helper PROVE HelperInv'
  OBVIOUS
<1>1. hState' = hState /\ hJob' = hJob /\ hAt' = hAt
  BY DEF helper
<1> QED
  BY <1>1 DEF HelperInv, HelperWalk, HelperAccepted, HelperStates, Helper!Busy, Down, Across,
     Helper!Lines, Helper!Columns, Helper!LineBytes, Helper!IsVaddFp16, Helper!IsVaddBias,
     Helper!Narrows, MatrixRows, LineRows, Helper!Unsupported, Helper!OutOfBounds, Helper!Fits,
     Helper!MatrixRows, Helper!LineRows, Helper!Src1Rows, Helper!Src2Rows, Helper!DstRows,
     Helper!Misaligned

\* The same for the SFU.
LEMMA SfuWaits == SfuInv /\ UNCHANGED sfu => SfuInv'
<1> SUFFICES ASSUME SfuInv, UNCHANGED sfu PROVE SfuInv'
  OBVIOUS
<1>1. sState' = sState /\ sJob' = sJob /\ sAt' = sAt
  BY DEF sfu
<1> QED
  BY <1>1 DEF SfuInv, SfuWalk, SfuAccepted, SfuStates, Sfu!Busy, Sfu!Unsupported,
     Sfu!OutOfBounds, Sfu!Fits, Sfu!MatrixRows, Sfu!LineRows, Sfu!Src2Rows, Sfu!Gammas, Sfu!Elems

\* Between dispatch and the last step the counters of the engine that works
\* stay within the tile counts of a job that passed its checks.
THEOREM WalksStayInside == Spec => []WalksInside
<1>1. Init => WalksInside
  <2> SUFFICES ASSUME Init PROVE WalksInside
    OBVIOUS
  <2>1. hState = "IDLE" /\ sState = "IDLE"
    BY DEF Init, Helper!Init, Sfu!Init
  <2>2. hAt \in HelperCounters
    BY DEF Init, Helper!Init, HelperCounters
  <2>3. sAt \in SfuCounters
    BY DEF Init, Sfu!Init, SfuCounters
  <2> QED
    BY <2>1, <2>2, <2>3 DEF WalksInside, HelperInv, SfuInv, HelperStates, SfuStates,
       Helper!Busy, Sfu!Busy
<1>2. WalksInside /\ [Next]_vars => WalksInside'
  <2> SUFFICES ASSUME WalksInside, [Next]_vars PROVE WalksInside'
    OBVIOUS
  <2>1. HelperInv /\ SfuInv
    BY DEF WalksInside
  <2>2. CASE IssueHelper
    BY <2>1, <2>2, HelperStart, SfuWaits DEF IssueHelper, WalksInside
  <2>3. CASE IssueSfu
    BY <2>1, <2>3, SfuStart, HelperWaits DEF IssueSfu, WalksInside
  <2>4. CASE HelperWork
    BY <2>1, <2>4, HelperStep, SfuWaits DEF HelperWork, WalksInside, sfu
  <2>5. CASE SfuWork
    BY <2>1, <2>5, SfuStep, HelperWaits DEF SfuWork, WalksInside, helper
  <2>6. CASE UNCHANGED vars
    BY <2>1, <2>6, HelperWaits, SfuWaits DEF WalksInside, vars
  <2> QED
    BY <2>2, <2>3, <2>4, <2>5, <2>6 DEF Next
<1> QED
  BY <1>1, <1>2, PTL DEF Spec

\* An instruction of the helper engine or of the SFU that was accepted never
\* touches a row outside its buffers, for every tile width, matrix size,
\* placement and buffer depth: the fault branches inside the walks are dead.
THEOREM NoWalkLeavesItsBuffers == Spec => []AccessInBounds
<1>1. WalksInside => AccessInBounds
  <2> SUFFICES ASSUME WalksInside,
                      NEW access \in Helper!Accesses \union Sfu!Accesses
               PROVE  Inside(access)
    BY DEF AccessInBounds, Inside
  <2> QED
    BY HelperInside, SfuInside DEF WalksInside
<1> QED
  BY <1>1, WalksStayInside, PTL

-----------------------------------------------------------------------------
(* The arithmetic of rows and elements.                                    *)

\* A number and its quotient and remainder.
LEMMA DivMod ==
  ASSUME NEW i \in Nat, NEW y \in Nat, 0 < y
  PROVE  i \div y \in Nat /\ i % y \in 0 .. y - 1 /\ i = (i \div y) * y + (i % y)
OBVIOUS

\* Quotient and remainder of element b of block a.
LEMMA BlockDivMod ==
  ASSUME NEW a \in Nat, NEW b \in Nat, NEW y \in Nat, b < y
  PROVE  a * y + b \in Nat /\ (a * y + b) \div y = a /\ (a * y + b) % y = b
<1> DEFINE i == a * y + b
           q == i \div y
           r == i % y
<1>1. i \in Nat
  <2>1. a * y \in Nat
    BY NatProduct
  <2> QED
    BY <2>1
<1> HIDE DEF i
<1>2. q \in Nat /\ r \in 0 .. y - 1 /\ i = q * y + r
  BY <1>1, DivMod
<1> HIDE DEF q, r
<1>3. a * y + b = q * y + r /\ q * y \in Nat /\ a * y \in Nat
  BY <1>2, NatProduct DEF i
<1>4. CASE q < a
  <2>1. q * y + r < a * y
    BY <1>2, <1>4, Block
  <2> QED
    BY <1>2, <1>3, <2>1
<1>5. CASE a < q
  <2>1. a * y + b < q * y
    BY <1>2, <1>5, Block
  <2> QED
    BY <1>2, <1>3, <2>1
<1>6. CASE q = a
  BY <1>2, <1>3, <1>6
<1>7. q = a /\ r = b
  BY <1>2, <1>3, <1>4, <1>5, <1>6
<1> QED
  BY <1>1, <1>7 DEF i, q, r

\* The quotient of a number below a multiple.
LEMMA QuotientBound ==
  ASSUME NEW i \in Nat, NEW x \in Nat, NEW y \in Nat, i < x * y
  PROVE  0 < y /\ i \div y \in Nat /\ i \div y < x
<1>1. 0 < y
  <2>1. x * 0 = 0
    OBVIOUS
  <2> QED
    BY <2>1
<1> DEFINE q == i \div y
           r == i % y
<1>2. q \in Nat /\ r \in 0 .. y - 1 /\ i = q * y + r
  BY <1>1, DivMod
<1> HIDE DEF q, r
<1>3. CASE x <= q
  <2>1. PICK d \in Nat : q = x + d
    <3>1. q - x \in Nat /\ q = x + (q - x)
      BY <1>2, <1>3
    <3> QED
      BY <3>1
  <2>2. (x + d) * y = x * y + d * y /\ x * y \in Nat /\ d * y \in Nat
    OBVIOUS
  <2> QED
    BY <1>2, <2>1, <2>2
<1>4. q < x
  BY <1>2, <1>3
<1> QED
  BY <1>1, <1>2, <1>4 DEF q

\* A tile line has four groups; a row of ACCUM has one, the others two.
LEMMA LaneFacts ==
  /\ Group \in Nat /\ 0 < Group /\ Half = 2 * Group /\ Dim = 4 * Group
  /\ \A b : Lanes(b) = IF b = "ACCUM" THEN Group ELSE Half
  /\ \A b : Lanes(b) \in Nat /\ 0 < Lanes(b)
BY DimAssumption DEF Half, Group, Lanes

-----------------------------------------------------------------------------
(* Memories.                                                               *)

\* The shape of a memory.
LEMMA MemoryShape ==
  ASSUME NEW memory, IsMemory(memory)
  PROVE  /\ memory = [b \in Buffers |-> [r \in 0 .. BufRows[b] - 1 |-> memory[b][r]]]
         /\ \A b \in Buffers : \A r \in 0 .. BufRows[b] - 1 : IsRow(b, memory[b][r])
<1> DEFINE M == [b \in Buffers |-> [r \in 0 .. BufRows[b] - 1 |->
                                 [x \in 0 .. Lanes(b) - 1 |-> memory[b][r][x]]]]
<1>1. memory = M
  BY DEF IsMemory
<1>2. \A b \in Buffers : \A r \in 0 .. BufRows[b] - 1 :
        memory[b][r] = [x \in 0 .. Lanes(b) - 1 |-> memory[b][r][x]]
  <2> TAKE b \in Buffers
  <2> TAKE r \in 0 .. BufRows[b] - 1
  <2>1. M[b][r] = [x \in 0 .. Lanes(b) - 1 |-> memory[b][r][x]]
    OBVIOUS
  <2> HIDE DEF M
  <2> QED
    BY <1>1, <2>1
<1>3. memory = [b \in Buffers |-> [r \in 0 .. BufRows[b] - 1 |-> memory[b][r]]]
  <2>1. M = [b \in Buffers |-> [r \in 0 .. BufRows[b] - 1 |-> memory[b][r]]]
    BY <1>2
  <2> HIDE DEF M
  <2> QED
    BY <1>1, <2>1
<1> QED
  BY <1>2, <1>3 DEF IsRow

\* A memory whose rows have the right shape.
LEMMA ShapeMemory ==
  ASSUME NEW memory,
         memory = [b \in Buffers |-> [r \in 0 .. BufRows[b] - 1 |-> memory[b][r]]],
         \A b \in Buffers : \A r \in 0 .. BufRows[b] - 1 : IsRow(b, memory[b][r])
  PROVE  IsMemory(memory)
<1> DEFINE N == [b \in Buffers |-> [r \in 0 .. BufRows[b] - 1 |-> memory[b][r]]]
<1>1. N = [b \in Buffers |-> [r \in 0 .. BufRows[b] - 1 |->
                                 [x \in 0 .. Lanes(b) - 1 |-> memory[b][r][x]]]]
  BY DEF IsRow
<1>2. memory = N
  OBVIOUS
<1> HIDE DEF N
<1> QED
  BY <1>1, <1>2 DEF IsMemory

\* A row of the right shape keeps the shape of the memory it is written to.
LEMMA WriteShape ==
  ASSUME NEW memory, IsMemory(memory), NEW b \in Buffers, NEW r \in 0 .. BufRows[b] - 1,
         NEW word, IsRow(b, word)
  PROVE  IsMemory([memory EXCEPT ![b][r] = word])
<1> DEFINE new == [memory EXCEPT ![b][r] = word]
<1>1. /\ memory = [c \in Buffers |-> [s \in 0 .. BufRows[c] - 1 |-> memory[c][s]]]
      /\ \A c \in Buffers : \A s \in 0 .. BufRows[c] - 1 : IsRow(c, memory[c][s])
  BY MemoryShape
<1>2. new = [c \in Buffers |-> [s \in 0 .. BufRows[c] - 1 |->
                                  IF c = b /\ s = r THEN word ELSE memory[c][s]]]
  BY <1>1
<1>3. \A c \in Buffers : \A s \in 0 .. BufRows[c] - 1 :
        new[c][s] = IF c = b /\ s = r THEN word ELSE memory[c][s]
  BY <1>2
<1>4. new = [c \in Buffers |-> [s \in 0 .. BufRows[c] - 1 |-> new[c][s]]]
  BY <1>2, <1>3
<1> HIDE DEF new
<1>5. \A c \in Buffers : \A s \in 0 .. BufRows[c] - 1 : IsRow(c, new[c][s])
  BY <1>1, <1>3
<1>6. IsMemory(new)
  BY <1>4, <1>5, ShapeMemory
<1> QED
  BY <1>6 DEF new

\* Nothing done yet.
LEMMA ImageStart ==
  ASSUME NEW memory, IsMemory(memory), NEW dst, NEW words, NEW done, done = {}
  PROVE  Image(memory, dst, words, done) = memory
<1>1. Image(memory, dst, words, done)
        = [b \in Buffers |-> [r \in 0 .. BufRows[b] - 1 |-> memory[b][r]]]
  BY DEF Image
<1> QED
  BY <1>1, MemoryShape

\* A row that has not been written holds what it held.
LEMMA ImageRead ==
  ASSUME NEW memory, NEW dst, NEW words, NEW done,
         NEW b \in Buffers, NEW r \in 0 .. BufRows[b] - 1,
         b # dst.buf \/ r - dst.off \notin done
  PROVE  Image(memory, dst, words, done)[b][r] = memory[b][r]
BY DEF Image

\* One more row.
LEMMA ImageWrite ==
  ASSUME NEW memory, NEW dst, dst.buf \in Buffers, dst.off \in Nat, NEW words, NEW done,
         NEW k \in Nat, dst.off + k \in 0 .. BufRows[dst.buf] - 1,
         NEW row, row = dst.off + k, NEW word, word = words[k],
         NEW more, \A d \in Int : d \in more <=> d \in done \/ d = k
  PROVE  [Image(memory, dst, words, done) EXCEPT ![dst.buf][row] = word]
           = Image(memory, dst, words, more)
<1> DEFINE old == Image(memory, dst, words, done)
           new == [old EXCEPT ![dst.buf][row] = word]
           Cell(b, r) == IF b = dst.buf /\ r - dst.off \in more THEN words[r - dst.off]
                         ELSE memory[b][r]
<1>1. /\ old = [b \in Buffers |-> [r \in 0 .. BufRows[b] - 1 |-> old[b][r]]]
      /\ \A b \in Buffers : \A r \in 0 .. BufRows[b] - 1 :
           old[b][r] = IF b = dst.buf /\ r - dst.off \in done THEN words[r - dst.off]
                       ELSE memory[b][r]
  BY DEF Image
<1> HIDE DEF old
<1>2. new = [b \in Buffers |-> [r \in 0 .. BufRows[b] - 1 |->
                                  IF b = dst.buf /\ r = row THEN word ELSE old[b][r]]]
  BY <1>1
<1>3. \A b \in Buffers : \A r \in 0 .. BufRows[b] - 1 :
        (IF b = dst.buf /\ r = row THEN word ELSE old[b][r]) = Cell(b, r)
  <2> TAKE b \in Buffers
  <2> TAKE r \in 0 .. BufRows[b] - 1
  <2>1. r \in Int /\ r - dst.off \in Int /\ (r = row <=> r - dst.off = k)
    BY RowAssumption
  <2> QED
    BY <1>1, <2>1
<1>4. Image(memory, dst, words, more)
        = [b \in Buffers |-> [r \in 0 .. BufRows[b] - 1 |->
             IF b = dst.buf /\ r = row THEN word ELSE old[b][r]]]
  BY <1>3 DEF Image
<1> QED
  BY <1>2, <1>4 DEF old

\* An image depends on what is done only.
LEMMA ImageSame ==
  ASSUME NEW memory, NEW dst, NEW words, NEW done, NEW again,
         dst.off \in Nat, \A d \in Int : d \in done <=> d \in again
  PROVE  Image(memory, dst, words, done) = Image(memory, dst, words, again)
<1>1. \A b \in Buffers : \A r \in 0 .. BufRows[b] - 1 : r - dst.off \in Int
  BY RowAssumption
<1> QED
  BY <1>1 DEF Image

\* Rows stored at a place.
LEMMA StoredRows ==
  ASSUME NEW memory, IsMemory(memory), NEW dst, dst.buf \in Buffers, dst.off \in Nat,
         NEW rows \in Nat, NEW words
  PROVE  [memory EXCEPT ![dst.buf] =
            [row \in DOMAIN @ |-> IF row \in dst.off .. dst.off + rows - 1
                                  THEN words[row - dst.off] ELSE @[row]]]
           = Image(memory, dst, words, Upto(rows))
<1>1. memory = [b \in Buffers |-> [r \in 0 .. BufRows[b] - 1 |-> memory[b][r]]]
  BY MemoryShape
<1>2. \A b \in Buffers : DOMAIN memory[b] = 0 .. BufRows[b] - 1 /\ DOMAIN memory = Buffers
  BY <1>1
<1>3. \A r \in 0 .. BufRows[dst.buf] - 1 :
        r \in dst.off .. dst.off + rows - 1 <=> r - dst.off \in Upto(rows)
  BY RowAssumption DEF Upto
<1>4. [row \in DOMAIN memory[dst.buf] |->
         IF row \in dst.off .. dst.off + rows - 1 THEN words[row - dst.off]
         ELSE memory[dst.buf][row]]
      = [r \in 0 .. BufRows[dst.buf] - 1 |->
           IF r - dst.off \in Upto(rows) THEN words[r - dst.off] ELSE memory[dst.buf][r]]
  BY <1>2, <1>3
<1>5. \A b \in Buffers \ {dst.buf} :
        memory[b] = [r \in 0 .. BufRows[b] - 1 |-> memory[b][r]]
  BY <1>1
<1> QED
  BY <1>2, <1>4, <1>5 DEF Image

-----------------------------------------------------------------------------
(* The result of each instruction of the helper engine, row by row.        *)

\* Element number i of a matrix at a place.
Cell(memory, p, i) == memory[p.buf][p.off + i \div Lanes(p.buf)][i % Lanes(p.buf)]

\* The number of an element is that of its line and column.
LEMMA ElementAt ==
  ASSUME NEW memory, NEW p, NEW columns, NEW line, NEW column,
         NEW i, i = line * columns + column
  PROVE  /\ Helper!Element(memory, p, columns, line, column) = Cell(memory, p, i)
         /\ Sfu!Element(memory, p, columns, line, column) = Cell(memory, p, i)
<1>1. Helper!Lanes(p.buf) = Lanes(p.buf) /\ Sfu!Lanes(p.buf) = Lanes(p.buf)
  BY DEF Helper!Lanes, Sfu!Lanes, Lanes, Helper!Group, Sfu!Group, Group, Helper!Half, Sfu!Half,
         Half
<1> QED
  BY <1>1 DEF Helper!Element, Sfu!Element, Cell

\* Taking a number apart and putting it together again.
LEMMA ElementOf ==
  ASSUME NEW memory, NEW p, NEW columns \in Nat, 0 < columns, NEW i \in Nat
  PROVE  /\ Helper!Element(memory, p, columns, i \div columns, i % columns) = Cell(memory, p, i)
         /\ Sfu!Element(memory, p, columns, i \div columns, i % columns) = Cell(memory, p, i)
<1> DEFINE q == i \div columns
           r == i % columns
<1>1. i = q * columns + r
  BY DivMod
<1> HIDE DEF q, r
<1>2. /\ Helper!Element(memory, p, columns, q, r) = Cell(memory, p, i)
      /\ Sfu!Element(memory, p, columns, q, r) = Cell(memory, p, i)
  BY <1>1, ElementAt
<1> QED
  BY <1>2 DEF q, r

\* BUF_COPY as it is: the rows of the source.
LEMMA FlatResult ==
  ASSUME NEW j \in HelperJobs, NEW memory, IsMemory(memory),
         j.op = "BUF_COPY", ~(j.transpose /\ j.length # 0),
         j.src1.buf = "ACCUM" <=> j.dst.buf = "ACCUM",
         j.src1.off + j.length <= BufRows[j.src1.buf]
  PROVE  Helper!Result(j, memory) = Image(memory, j.dst, FlatWords(j, memory), Upto(j.length))
<1> DEFINE l == Lanes(j.dst.buf)
           words == FlatWords(j, memory)
           RowAt(row) ==
             [x \in 0 .. l - 1 |->
                Helper!Element(memory, j.src1, l, ((row - j.dst.off) * l + x) \div l,
                               ((row - j.dst.off) * l + x) % l)]
<1>1. /\ j.length \in Nat /\ j.dst.off \in Nat /\ j.dst.buf \in Buffers
      /\ j.src1.off \in Nat /\ j.src1.buf \in Buffers
  BY HelperJobTypes
<1>2. Lanes(j.src1.buf) = l /\ l \in Nat /\ 0 < l
  BY LaneFacts
<1>3. Helper!Result(j, memory) =
        [memory EXCEPT ![j.dst.buf] =
           [row \in DOMAIN @ |-> IF row \in j.dst.off .. j.dst.off + j.length - 1
                                 THEN RowAt(row) ELSE @[row]]]
  <2>1. Helper!Lanes(j.src1.buf) = l /\ Helper!Lanes(j.dst.buf) = l
    BY <1>2 DEF Helper!Lanes, Lanes, Helper!Group, Group, Helper!Half, Half
  <2> HIDE DEF l
  <2> QED
    BY <2>1 DEF Helper!Result, Helper!Stored, Helper!RowsOf
<1>4. ASSUME NEW row \in j.dst.off .. j.dst.off + j.length - 1
      PROVE  RowAt(row) = words[row - j.dst.off]
  <2> DEFINE k == row - j.dst.off
  <2>1. k \in Nat /\ k < j.length
    BY <1>1
  <2> HIDE DEF k
  <2>2. words[k] = memory[j.src1.buf][j.src1.off + k]
    BY <1>1, <2>1 DEF FlatWords
  <2>3. j.src1.off + k \in 0 .. BufRows[j.src1.buf] - 1
    BY <1>1, <2>1, RowInside
  <2> HIDE DEF l
  <2>4. words[k] = [x \in 0 .. l - 1 |-> memory[j.src1.buf][j.src1.off + k][x]]
    <3>1. IsRow(j.src1.buf, memory[j.src1.buf][j.src1.off + k])
      BY <1>1, <2>3, MemoryShape
    <3> QED
      BY <1>1, <1>2, <2>2, <3>1 DEF IsRow
  <2>5. ASSUME NEW x \in 0 .. l - 1
        PROVE  Helper!Element(memory, j.src1, l, (k * l + x) \div l, (k * l + x) % l)
                 = memory[j.src1.buf][j.src1.off + k][x]
    <3> DEFINE i == k * l + x
    <3>1. x \in Nat /\ x < l /\ i \in Nat
      BY <1>2, <2>1, NatProduct
    <3>2. i \div l = k /\ i % l = x
      BY <1>2, <2>1, <3>1, BlockDivMod
    <3> HIDE DEF i
    <3>3. Helper!Element(memory, j.src1, l, i \div l, i % l) = Cell(memory, j.src1, i)
      BY <1>2, <3>1, ElementOf
    <3>4. Cell(memory, j.src1, i) = memory[j.src1.buf][j.src1.off + k][x]
      BY <1>2, <3>2 DEF Cell
    <3> QED
      BY <3>3, <3>4 DEF i
  <2> QED
    BY <2>4, <2>5 DEF k
<1> HIDE DEF RowAt, words, l
<1>5. [memory EXCEPT ![j.dst.buf] =
         [row \in DOMAIN @ |-> IF row \in j.dst.off .. j.dst.off + j.length - 1
                               THEN RowAt(row) ELSE @[row]]]
      = [memory EXCEPT ![j.dst.buf] =
         [row \in DOMAIN @ |-> IF row \in j.dst.off .. j.dst.off + j.length - 1
                               THEN words[row - j.dst.off] ELSE @[row]]]
  BY <1>4
<1>6. [memory EXCEPT ![j.dst.buf] =
         [row \in DOMAIN @ |-> IF row \in j.dst.off .. j.dst.off + j.length - 1
                               THEN words[row - j.dst.off] ELSE @[row]]]
      = Image(memory, j.dst, words, Upto(j.length))
  BY <1>1, StoredRows
<1> QED
  BY <1>3, <1>5, <1>6 DEF words

\* VADD of FP16 operands: row by row.
LEMMA V16Result ==
  ASSUME NEW j \in HelperJobs, NEW memory, IsMemory(memory),
         j.op = "VADD", Helper!IsVaddFp16(j)
  PROVE  Helper!Result(j, memory)
           = Image(memory, j.dst, V16Words(j, memory), Upto(MatrixRows(j.dst, j)))
<1> DEFINE rows == MatrixRows(j.dst, j)
           words == V16Words(j, memory)
           c == j.n * Dim
           RowAt(row) ==
             [x \in 0 .. Half - 1 |->
                LET i == (row - j.dst.off) * Half + x
                IN  Fp16(Sum(Helper!Element(memory, j.src1, c, i \div c, i % c),
                             Helper!Element(memory, j.src2, c, i \div c, i % c)))]
<1>1. /\ j.dst.off \in Nat /\ j.dst.buf \in Buffers /\ j.n \in Nat /\ 0 < j.n
      /\ j.transpose \in BOOLEAN
  BY HelperJobTypes
<1>2. /\ j.src1.buf # "ACCUM" /\ j.src2.buf # "ACCUM" /\ j.dst.buf # "ACCUM"
      /\ ~Helper!IsVaddBias(j)
  BY DEF Helper!IsVaddFp16, Helper!IsVaddBias
<1>3. /\ Lanes(j.src1.buf) = Half /\ Lanes(j.src2.buf) = Half /\ Half \in Nat /\ 0 < Half
      /\ Helper!Lanes(j.dst.buf) = Half
  BY <1>2, DimFacts DEF Lanes, Helper!Lanes, Helper!Half, Half
<1>4. rows \in Nat /\ Helper!DstRows(j) = rows
  BY RowsOfMatrix DEF Helper!DstRows
<1>5. c \in Nat /\ 0 < c
  BY <1>1, MatrixSize
<1>6. Helper!Result(j, memory) =
        [memory EXCEPT ![j.dst.buf] =
           [row \in DOMAIN @ |-> IF row \in j.dst.off .. j.dst.off + rows - 1
                                 THEN RowAt(row) ELSE @[row]]]
  <2> HIDE DEF rows, c
  <2> QED
    BY <1>2, <1>3, <1>4 DEF Helper!Result, Helper!Stored, Helper!RowsOf, c,
       Helper!Fp16, Fp16, Helper!Sum, Sum
<1> HIDE DEF rows, c
<1>7. ASSUME NEW row \in j.dst.off .. j.dst.off + rows - 1
      PROVE  RowAt(row) = words[row - j.dst.off]
  <2> DEFINE k == row - j.dst.off
  <2>1. k \in Nat /\ k \in 0 .. rows - 1
    BY <1>1, <1>4
  <2> HIDE DEF k
  <2>2. words[k] = [x \in 0 .. Half - 1 |-> Fp16(Sum(memory[j.src1.buf][j.src1.off + k][x],
                                                     memory[j.src2.buf][j.src2.off + k][x]))]
    BY <2>1 DEF V16Words, rows
  <2>3. ASSUME NEW x \in 0 .. Half - 1
        PROVE  LET i == k * Half + x
               IN  /\ Helper!Element(memory, j.src1, c, i \div c, i % c)
                        = memory[j.src1.buf][j.src1.off + k][x]
                   /\ Helper!Element(memory, j.src2, c, i \div c, i % c)
                        = memory[j.src2.buf][j.src2.off + k][x]
    <3> DEFINE i == k * Half + x
    <3>1. x \in Nat /\ x < Half /\ i \in Nat
      BY <1>3, <2>1, NatProduct
    <3>2. i \div Half = k /\ i % Half = x
      BY <1>3, <2>1, <3>1, BlockDivMod
    <3> HIDE DEF i
    <3>3. /\ Helper!Element(memory, j.src1, c, i \div c, i % c) = Cell(memory, j.src1, i)
          /\ Helper!Element(memory, j.src2, c, i \div c, i % c) = Cell(memory, j.src2, i)
      BY <1>5, <3>1, ElementOf
    <3>4. /\ Cell(memory, j.src1, i) = memory[j.src1.buf][j.src1.off + k][x]
          /\ Cell(memory, j.src2, i) = memory[j.src2.buf][j.src2.off + k][x]
      BY <1>3, <3>2 DEF Cell
    <3> QED
      BY <3>3, <3>4 DEF i
  <2>4. RowAt(row) = [x \in 0 .. Half - 1 |->
                        LET i == k * Half + x
                        IN  Fp16(Sum(Helper!Element(memory, j.src1, c, i \div c, i % c),
                                     Helper!Element(memory, j.src2, c, i \div c, i % c)))]
    BY DEF k
  <2> QED
    BY <2>2, <2>3, <2>4 DEF k
<1> HIDE DEF RowAt, words
<1>8. [memory EXCEPT ![j.dst.buf] =
         [row \in DOMAIN @ |-> IF row \in j.dst.off .. j.dst.off + rows - 1
                               THEN RowAt(row) ELSE @[row]]]
      = [memory EXCEPT ![j.dst.buf] =
         [row \in DOMAIN @ |-> IF row \in j.dst.off .. j.dst.off + rows - 1
                               THEN words[row - j.dst.off] ELSE @[row]]]
  BY <1>7
<1>9. [memory EXCEPT ![j.dst.buf] =
         [row \in DOMAIN @ |-> IF row \in j.dst.off .. j.dst.off + rows - 1
                               THEN words[row - j.dst.off] ELSE @[row]]]
      = Image(memory, j.dst, words, Upto(rows))
  BY <1>1, <1>4, StoredRows
<1> QED
  BY <1>6, <1>8, <1>9 DEF words, rows

\* SCALE_MUL that keeps the width: row by row.
LEMMA ScaleResult ==
  ASSUME NEW j \in HelperJobs, NEW memory, IsMemory(memory),
         j.op = "SCALE_MUL", j.src1.buf = "ACCUM" <=> j.dst.buf = "ACCUM"
  PROVE  Helper!Result(j, memory)
           = Image(memory, j.dst, ScaleWords(j, memory), Upto(MatrixRows(j.dst, j)))
<1> DEFINE rows == MatrixRows(j.dst, j)
           words == ScaleWords(j, memory)
           c == j.n * Dim
           l == Lanes(j.dst.buf)
           RowAt(row) ==
             [x \in 0 .. l - 1 |->
                LET i == (row - j.dst.off) * l + x
                IN  Helper!ScaleOf(j.dst.buf, Helper!Element(memory, j.src1, c, i \div c, i % c))]
<1>1. /\ j.dst.off \in Nat /\ j.dst.buf \in Buffers /\ j.n \in Nat /\ 0 < j.n
  BY HelperJobTypes
<1>2. Lanes(j.src1.buf) = l /\ l \in Nat /\ 0 < l /\ Helper!Lanes(j.dst.buf) = l
  BY LaneFacts DEF Helper!Lanes, Lanes, Helper!Group, Group, Helper!Half, Half
<1>3. rows \in Nat /\ Helper!DstRows(j) = rows
  BY RowsOfMatrix DEF Helper!DstRows
<1>4. c \in Nat /\ 0 < c
  BY <1>1, MatrixSize
<1> HIDE DEF l
<1>5. Helper!Result(j, memory) =
        [memory EXCEPT ![j.dst.buf] =
           [row \in DOMAIN @ |-> IF row \in j.dst.off .. j.dst.off + rows - 1
                                 THEN RowAt(row) ELSE @[row]]]
  <2> HIDE DEF rows, c
  <2> QED
    BY <1>2, <1>3 DEF Helper!Result, Helper!Stored, Helper!RowsOf, c
<1> HIDE DEF rows, c
<1>6. ASSUME NEW row \in j.dst.off .. j.dst.off + rows - 1
      PROVE  RowAt(row) = words[row - j.dst.off]
  <2> DEFINE k == row - j.dst.off
  <2>1. k \in Nat /\ k \in 0 .. rows - 1
    BY <1>1, <1>3
  <2> HIDE DEF k
  <2>2. words[k] = [x \in 0 .. l - 1 |->
                      Helper!ScaleOf(j.dst.buf, memory[j.src1.buf][j.src1.off + k][x])]
    BY <2>1 DEF ScaleWords, rows, l
  <2>3. ASSUME NEW x \in 0 .. l - 1
        PROVE  LET i == k * l + x
               IN  Helper!Element(memory, j.src1, c, i \div c, i % c)
                     = memory[j.src1.buf][j.src1.off + k][x]
    <3> DEFINE i == k * l + x
    <3>1. x \in Nat /\ x < l /\ i \in Nat
      BY <1>2, <2>1, NatProduct
    <3>2. i \div l = k /\ i % l = x
      BY <1>2, <2>1, <3>1, BlockDivMod
    <3> HIDE DEF i
    <3>3. Helper!Element(memory, j.src1, c, i \div c, i % c) = Cell(memory, j.src1, i)
      BY <1>4, <3>1, ElementOf
    <3>4. Cell(memory, j.src1, i) = memory[j.src1.buf][j.src1.off + k][x]
      BY <1>2, <3>2 DEF Cell
    <3> QED
      BY <3>3, <3>4 DEF i
  <2>4. RowAt(row) = [x \in 0 .. l - 1 |->
                        LET i == k * l + x
                        IN  Helper!ScaleOf(j.dst.buf,
                              Helper!Element(memory, j.src1, c, i \div c, i % c))]
    BY DEF k
  <2> QED
    BY <2>2, <2>3, <2>4 DEF k
<1> HIDE DEF RowAt, words
<1>7. [memory EXCEPT ![j.dst.buf] =
         [row \in DOMAIN @ |-> IF row \in j.dst.off .. j.dst.off + rows - 1
                               THEN RowAt(row) ELSE @[row]]]
      = [memory EXCEPT ![j.dst.buf] =
         [row \in DOMAIN @ |-> IF row \in j.dst.off .. j.dst.off + rows - 1
                               THEN words[row - j.dst.off] ELSE @[row]]]
  BY <1>6
<1>8. [memory EXCEPT ![j.dst.buf] =
         [row \in DOMAIN @ |-> IF row \in j.dst.off .. j.dst.off + rows - 1
                               THEN words[row - j.dst.off] ELSE @[row]]]
      = Image(memory, j.dst, words, Upto(rows))
  BY <1>1, <1>3, StoredRows
<1> QED
  BY <1>5, <1>7, <1>8 DEF words, rows

\* SCALE_MUL from FP32 to FP16: two rows of the source make one.
LEMMA NarrowResult ==
  ASSUME NEW j \in HelperJobs, NEW memory, IsMemory(memory),
         j.op = "SCALE_MUL", Helper!Narrows(j)
  PROVE  Helper!Result(j, memory)
           = Image(memory, j.dst, NarrowWords(j, memory), Upto(MatrixRows(j.dst, j)))
<1> DEFINE rows == MatrixRows(j.dst, j)
           words == NarrowWords(j, memory)
           c == j.n * Dim
           g == Group
           RowAt(row) ==
             [x \in 0 .. Half - 1 |->
                LET i == (row - j.dst.off) * Half + x
                IN  Fp16(Scaled(Helper!Element(memory, j.src1, c, i \div c, i % c)))]
           Source(k, x) == IF x < g THEN memory[j.src1.buf][j.src1.off + 2 * k][x]
                           ELSE memory[j.src1.buf][j.src1.off + 2 * k + 1][x - g]
<1>1. /\ j.dst.off \in Nat /\ j.dst.buf \in Buffers /\ j.n \in Nat /\ 0 < j.n
      /\ j.src1.off \in Nat
  BY HelperJobTypes
<1>2. /\ Lanes(j.src1.buf) = g /\ g \in Nat /\ 0 < g /\ Half = 2 * g
      /\ Helper!Lanes(j.dst.buf) = Half /\ j.dst.buf # "ACCUM"
  BY LaneFacts DEF Helper!Narrows, Helper!Lanes, Helper!Half, Half
<1>3. rows \in Nat /\ Helper!DstRows(j) = rows
  BY RowsOfMatrix DEF Helper!DstRows
<1>4. c \in Nat /\ 0 < c
  BY <1>1, MatrixSize
<1> HIDE DEF g
<1>5. Helper!Result(j, memory) =
        [memory EXCEPT ![j.dst.buf] =
           [row \in DOMAIN @ |-> IF row \in j.dst.off .. j.dst.off + rows - 1
                                 THEN RowAt(row) ELSE @[row]]]
  <2> HIDE DEF rows, c
  <2> QED
    BY <1>2, <1>3 DEF Helper!Result, Helper!Stored, Helper!RowsOf, c, Helper!ScaleOf,
       Helper!Fp16, Fp16, Helper!Scaled, Scaled
<1> HIDE DEF rows, c
<1>6. ASSUME NEW row \in j.dst.off .. j.dst.off + rows - 1
      PROVE  RowAt(row) = words[row - j.dst.off]
  <2> DEFINE k == row - j.dst.off
  <2>1. k \in Nat /\ k \in 0 .. rows - 1
    BY <1>1, <1>3
  <2> HIDE DEF k
  <2>2. words[k] = [x \in 0 .. Half - 1 |-> Fp16(Scaled(Source(k, x)))]
    BY <2>1 DEF NarrowWords, rows, g
  <2>3. ASSUME NEW x \in 0 .. Half - 1
        PROVE  LET i == k * Half + x
               IN  Helper!Element(memory, j.src1, c, i \div c, i % c) = Source(k, x)
    <3> DEFINE i == k * Half + x
    <3>1. x \in Nat /\ x < 2 * g /\ i \in Nat /\ i = k * (2 * g) + x
      BY <1>2, <2>1, NatProduct
    <3> HIDE DEF i
    <3>2. Helper!Element(memory, j.src1, c, i \div c, i % c) = Cell(memory, j.src1, i)
      BY <1>4, <3>1, ElementOf
    <3>3. CASE x < g
      <4>1. i = (2 * k) * g + x /\ 2 * k \in Nat
        BY <1>2, <2>1, <3>1
      <4>2. i \div g = 2 * k /\ i % g = x
        BY <1>2, <3>1, <3>3, <4>1, BlockDivMod
      <4>3. Cell(memory, j.src1, i) = memory[j.src1.buf][j.src1.off + 2 * k][x]
        BY <1>2, <4>2 DEF Cell
      <4> QED
        BY <3>2, <3>3, <4>3 DEF i
    <3>4. CASE ~(x < g)
      <4> DEFINE y == x - g
      <4>1. i = (2 * k + 1) * g + y /\ 2 * k + 1 \in Nat /\ y \in Nat /\ y < g
        BY <1>2, <2>1, <3>1, <3>4
      <4> HIDE DEF y
      <4>2. i \div g = 2 * k + 1 /\ i % g = y
        BY <1>2, <4>1, BlockDivMod
      <4>3. Cell(memory, j.src1, i) = memory[j.src1.buf][j.src1.off + (2 * k + 1)][y]
        BY <1>2, <4>2 DEF Cell
      <4>4. j.src1.off + (2 * k + 1) = j.src1.off + 2 * k + 1
        BY <1>1, <2>1
      <4> QED
        BY <3>2, <3>4, <4>3, <4>4 DEF i, y
    <3> QED
      BY <3>3, <3>4
  <2>4. RowAt(row) = [x \in 0 .. Half - 1 |->
                        LET i == k * Half + x
                        IN  Fp16(Scaled(Helper!Element(memory, j.src1, c, i \div c, i % c)))]
    BY DEF k
  <2> HIDE DEF Source
  <2> QED
    BY <2>2, <2>3, <2>4 DEF k
<1> HIDE DEF RowAt, words
<1>7. [memory EXCEPT ![j.dst.buf] =
         [row \in DOMAIN @ |-> IF row \in j.dst.off .. j.dst.off + rows - 1
                               THEN RowAt(row) ELSE @[row]]]
      = [memory EXCEPT ![j.dst.buf] =
         [row \in DOMAIN @ |-> IF row \in j.dst.off .. j.dst.off + rows - 1
                               THEN words[row - j.dst.off] ELSE @[row]]]
  BY <1>6
<1>8. [memory EXCEPT ![j.dst.buf] =
         [row \in DOMAIN @ |-> IF row \in j.dst.off .. j.dst.off + rows - 1
                               THEN words[row - j.dst.off] ELSE @[row]]]
      = Image(memory, j.dst, words, Upto(rows))
  BY <1>1, <1>3, StoredRows
<1> QED
  BY <1>5, <1>7, <1>8 DEF words, rows

\* VADD of a bias: the row of the bias that is under a group of a line.
LEMMA BiasResult ==
  ASSUME NEW j \in HelperJobs, NEW memory, IsMemory(memory),
         j.op = "VADD", Helper!IsVaddBias(j)
  PROVE  Helper!Result(j, memory)
           = Image(memory, j.dst, BiasWords(j, memory), Upto(MatrixRows(j.dst, j)))
<1> DEFINE rows == MatrixRows(j.dst, j)
           words == BiasWords(j, memory)
           c == j.n * Dim
           w == 4 * j.n
           g == Group
           RowAt(row) ==
             [x \in 0 .. g - 1 |->
                LET i == (row - j.dst.off) * g + x
                IN  Sum(Helper!Element(memory, j.src1, c, i \div c, i % c),
                        Helper!Element(memory, j.src2, c, 0, i % c))]
           Bias2(k, x) == memory[j.src2.buf][j.src2.off + (k % w) \div 2][((k % w) % 2) * g + x]
<1>1. /\ j.dst.off \in Nat /\ j.dst.buf \in Buffers /\ j.n \in Nat /\ 0 < j.n
      /\ j.src1.off \in Nat /\ w \in Nat /\ 0 < w
  BY HelperJobTypes
<1>2. /\ Lanes(j.src1.buf) = g /\ g \in Nat /\ 0 < g /\ Half = 2 * g /\ Dim = 4 * g
      /\ Lanes(j.src2.buf) = Half
      /\ Helper!Lanes(j.dst.buf) = g
  BY LaneFacts DEF Helper!IsVaddBias, Helper!Lanes, Helper!Group, Group
<1>3. rows \in Nat /\ Helper!DstRows(j) = rows
  BY RowsOfMatrix DEF Helper!DstRows
<1>4. c \in Nat /\ 0 < c
  BY <1>1, MatrixSize
<1>5. c = w * g
  BY <1>1, <1>2
<1> HIDE DEF g
<1>6. Helper!Result(j, memory) =
        [memory EXCEPT ![j.dst.buf] =
           [row \in DOMAIN @ |-> IF row \in j.dst.off .. j.dst.off + rows - 1
                                 THEN RowAt(row) ELSE @[row]]]
  <2> HIDE DEF rows, c
  <2> QED
    BY <1>2, <1>3 DEF Helper!Result, Helper!Stored, Helper!RowsOf, c, Helper!Sum, Sum
<1> HIDE DEF rows, c, w
<1>7. ASSUME NEW row \in j.dst.off .. j.dst.off + rows - 1
      PROVE  RowAt(row) = words[row - j.dst.off]
  <2> DEFINE k == row - j.dst.off
  <2>1. k \in Nat /\ k \in 0 .. rows - 1
    BY <1>1, <1>3
  <2> HIDE DEF k
  <2>2. words[k] = [x \in 0 .. g - 1 |->
                      Sum(memory[j.src1.buf][j.src1.off + k][x], Bias2(k, x))]
    BY <2>1 DEF BiasWords, rows, g, w
  <2>3. ASSUME NEW x \in 0 .. g - 1
        PROVE  LET i == k * g + x
               IN  /\ Helper!Element(memory, j.src1, c, i \div c, i % c)
                        = memory[j.src1.buf][j.src1.off + k][x]
                   /\ Helper!Element(memory, j.src2, c, 0, i % c) = Bias2(k, x)
    <3> DEFINE i == k * g + x
               q == k \div w
               m == k % w
               h == m \div 2
               e == m % 2
               o == m * g + x
    <3>1. x \in Nat /\ x < g /\ i \in Nat
      BY <1>2, <2>1, NatProduct
    <3>2. i \div g = k /\ i % g = x
      BY <1>2, <2>1, <3>1, BlockDivMod
    <3>3. q \in Nat /\ m \in Nat /\ m < w /\ k = q * w + m
      BY <1>1, <2>1, DivMod
    <3> HIDE DEF q, m
    <3>4. h \in Nat /\ e \in {0, 1} /\ m = h * 2 + e
      BY <3>3
    <3> HIDE DEF h, e
    <3>5. o \in Nat /\ o < w * g
      BY <1>1, <1>2, <3>1, <3>3, Block
    <3>6. i = q * c + o
      <4>1. (q * w + m) * g = q * (w * g) + m * g
        BY <1>1, <1>2, <3>3
      <4>2. q * (w * g) \in Nat /\ m * g \in Nat
        BY <1>1, <1>2, <3>3, NatProduct
      <4> QED
        BY <1>5, <3>1, <3>3, <4>1, <4>2
    <3>7. i % c = o
      <4> HIDE DEF i, o
      <4> QED
        BY <1>4, <1>5, <3>3, <3>5, <3>6, BlockDivMod
    <3>8. o = h * (2 * g) + (e * g + x) /\ e * g + x \in Nat /\ e * g + x < 2 * g
      BY <1>2, <3>1, <3>4
    <3>9. o \div Half = h /\ o % Half = e * g + x
      <4> DEFINE y == e * g + x
      <4>1. o = h * Half + y /\ y \in Nat /\ y < Half /\ Half \in Nat
        BY <1>2, <3>8
      <4> HIDE DEF o, y
      <4> QED
        BY <3>4, <4>1, BlockDivMod DEF y
    <3> HIDE DEF i, o
    <3>10. Helper!Element(memory, j.src1, c, i \div c, i % c) = Cell(memory, j.src1, i)
      BY <1>4, <3>1, ElementOf
    <3>11. Cell(memory, j.src1, i) = memory[j.src1.buf][j.src1.off + k][x]
      BY <1>2, <3>2 DEF Cell
    <3>12. o = 0 * c + o
      BY <1>4, <3>5
    <3>13. Helper!Element(memory, j.src2, c, 0, o) = Cell(memory, j.src2, o)
      BY <3>12, ElementAt
    <3>14. Cell(memory, j.src2, o) = memory[j.src2.buf][j.src2.off + h][e * g + x]
      BY <1>2, <3>9 DEF Cell
    <3>15. Bias2(k, x) = memory[j.src2.buf][j.src2.off + h][e * g + x]
      BY DEF h, e, m
    <3> HIDE DEF Bias2
    <3> QED
      BY <3>7, <3>10, <3>11, <3>13, <3>14, <3>15 DEF i
  <2>4. RowAt(row) = [x \in 0 .. g - 1 |->
                        LET i == k * g + x
                        IN  Sum(Helper!Element(memory, j.src1, c, i \div c, i % c),
                                Helper!Element(memory, j.src2, c, 0, i % c))]
    BY DEF k
  <2> HIDE DEF Bias2
  <2> QED
    BY <2>2, <2>3, <2>4 DEF k
<1> HIDE DEF RowAt, words
<1>8. [memory EXCEPT ![j.dst.buf] =
         [row \in DOMAIN @ |-> IF row \in j.dst.off .. j.dst.off + rows - 1
                               THEN RowAt(row) ELSE @[row]]]
      = [memory EXCEPT ![j.dst.buf] =
         [row \in DOMAIN @ |-> IF row \in j.dst.off .. j.dst.off + rows - 1
                               THEN words[row - j.dst.off] ELSE @[row]]]
  BY <1>7
<1>9. [memory EXCEPT ![j.dst.buf] =
         [row \in DOMAIN @ |-> IF row \in j.dst.off .. j.dst.off + rows - 1
                               THEN words[row - j.dst.off] ELSE @[row]]]
      = Image(memory, j.dst, words, Upto(rows))
  BY <1>1, <1>3, StoredRows
<1> QED
  BY <1>6, <1>8, <1>9 DEF words, rows

\* BUF_COPY with transposition: row k of the destination holds column
\* k \div Down, from line (k % Down) * Half on.
LEMMA TransResult ==
  ASSUME NEW j \in HelperJobs, HelperAccepted(j), NEW memory, IsMemory(memory),
         j.op = "BUF_COPY", j.transpose, j.length # 0,
         j.src1.buf = "ACCUM" <=> j.dst.buf = "ACCUM"
  PROVE  Helper!Result(j, memory) = Image(memory, j.dst, TransWords(j, memory), Upto(j.length))
<1> DEFINE words == TransWords(j, memory)
           c == Helper!Lines(j)
           a == Across(j)
           d == Down(j)
           h == Half
           Source(line, column) ==
             Helper!Element(memory, j.src1, Helper!Columns(j), column, line)
           RowAt(row) ==
             [x \in 0 .. h - 1 |->
                LET i == (row - j.dst.off) * h + x
                IN  Source(i \div c, i % c)]
           Value(k, x) ==
             memory[j.src1.buf][j.src1.off + ((k % d) * h + x) * a + (k \div d) \div h]
                   [(k \div d) % h]
<1>1. /\ j.dst.off \in Nat /\ j.dst.buf \in Buffers /\ j.length \in Nat
      /\ j.src1.off \in Nat /\ j.src1.buf \in Buffers
  BY HelperJobTypes
<1>2. /\ a \in Nat /\ d \in Nat /\ 0 < a /\ 0 < d
      /\ Helper!Columns(j) = a * h /\ c = d * h
      /\ j.length = Helper!Columns(j) * d
  BY TransposeShape, HelperJobTypes DEF HelperAccepted
<1>3. /\ j.src1.buf # "ACCUM" /\ j.dst.buf # "ACCUM"
  BY <1>1 DEF HelperAccepted, Helper!Unsupported, Buffers
<1>4. /\ h \in Nat /\ 0 < h /\ Lanes(j.src1.buf) = h /\ Helper!Lanes(j.dst.buf) = h
  BY <1>3, LaneFacts, DimFacts DEF Helper!Lanes, Helper!Half, Half
<1>5. c \in Nat /\ 0 < c
  <2>1. 0 * h + 0 < d * h
    BY <1>2, <1>4, Block
  <2> QED
    BY <1>2, <1>4, <2>1, NatProduct
<1> HIDE DEF c, h
<1>6. Helper!Result(j, memory) =
        [memory EXCEPT ![j.dst.buf] =
           [row \in DOMAIN @ |-> IF row \in j.dst.off .. j.dst.off + j.length - 1
                                 THEN RowAt(row) ELSE @[row]]]
  BY <1>4 DEF Helper!Result, Helper!Stored, Helper!RowsOf, c
<1> HIDE DEF a, d
<1>7. ASSUME NEW row \in j.dst.off .. j.dst.off + j.length - 1
      PROVE  RowAt(row) = words[row - j.dst.off]
  <2> DEFINE k == row - j.dst.off
  <2>1. k \in Nat /\ k \in 0 .. j.length - 1
    BY <1>1
  <2> HIDE DEF k
  <2>2. words[k] = [x \in 0 .. h - 1 |-> Value(k, x)]
    BY <2>1 DEF TransWords, h, a, d
  <2>3. ASSUME NEW x \in 0 .. h - 1
        PROVE  LET i == k * h + x
               IN  Source(i \div c, i % c) = Value(k, x)
    <3> DEFINE i == k * h + x
               q == k \div d
               m == k % d
               o == m * h + x
               s == q \div h
               t == q % h
               y == o * a + s
               z == o * Helper!Columns(j) + q
    <3>1. x \in Nat /\ x < h /\ i \in Nat
      BY <1>4, <2>1, NatProduct
    <3>2. q \in Nat /\ m \in Nat /\ m < d /\ k = q * d + m
      BY <1>2, <2>1, DivMod
    <3> HIDE DEF q, m
    <3>3. o \in Nat /\ o < d * h
      BY <1>2, <1>4, <3>1, <3>2, Block
    <3>4. i = q * c + o
      <4>1. (q * d + m) * h = q * (d * h) + m * h
        BY <1>2, <1>4, <3>2
      <4>2. q * (d * h) \in Nat /\ m * h \in Nat
        BY <1>2, <1>4, <3>2, NatProduct
      <4> QED
        BY <1>2, <3>1, <3>2, <4>1, <4>2
    <3>5. i \div c = q /\ i % c = o
      <4>1. o < c
        BY <1>2, <3>3
      <4> HIDE DEF i, o
      <4> QED
        BY <1>5, <3>2, <3>3, <3>4, <4>1, BlockDivMod
    <3>6. s \in Nat /\ t \in Nat /\ t < h /\ q = s * h + t
      BY <1>4, <3>2, DivMod
    <3> HIDE DEF i, o, s, t
    <3>7. o * a \in Nat /\ y \in Nat
      <4>1. o * a \in Nat
        BY <1>2, <3>3, NatProduct
      <4> QED
        BY <3>6, <4>1
    <3>8. z = y * h + t
      <4>1. o * (a * h) + s * h = (o * a + s) * h
        BY <1>2, <1>4, <3>3, <3>6
      <4>2. o * (a * h) \in Nat /\ s * h \in Nat
        BY <1>2, <1>4, <3>3, <3>6, NatProduct
      <4> QED
        BY <1>2, <3>6, <4>1, <4>2
    <3> HIDE DEF y
    <3>9. z \div h = y /\ z % h = t
      <4> HIDE DEF z
      <4> QED
        BY <1>4, <3>6, <3>7, <3>8, BlockDivMod
    <3>10. Source(q, o) = Cell(memory, j.src1, z)
      BY ElementAt
    <3> HIDE DEF z
    <3>11. Cell(memory, j.src1, z) = memory[j.src1.buf][j.src1.off + y][t]
      BY <1>4, <3>9 DEF Cell
    <3>12. j.src1.off + y = j.src1.off + o * a + s
      <4> DEFINE b == o * a
      <4>1. b \in Nat
        BY <3>7
      <4>2. y = b + s
        BY DEF y
      <4> HIDE DEF b
      <4>3. j.src1.off + y = j.src1.off + b + s
        BY <1>1, <3>6, <4>1, <4>2
      <4> QED
        BY <4>3 DEF b
    <3>13. Value(k, x) = memory[j.src1.buf][j.src1.off + o * a + s][t]
      BY DEF o, s, t, q, m
    <3> HIDE DEF Value, Source
    <3> QED
      BY <3>5, <3>10, <3>11, <3>12, <3>13 DEF i
  <2>4. RowAt(row) = [x \in 0 .. h - 1 |->
                        LET i == k * h + x
                        IN  Source(i \div c, i % c)]
    BY DEF k
  <2> HIDE DEF Value, Source
  <2> QED
    BY <2>2, <2>3, <2>4 DEF k
<1> HIDE DEF RowAt, words
<1>8. [memory EXCEPT ![j.dst.buf] =
         [row \in DOMAIN @ |-> IF row \in j.dst.off .. j.dst.off + j.length - 1
                               THEN RowAt(row) ELSE @[row]]]
      = [memory EXCEPT ![j.dst.buf] =
         [row \in DOMAIN @ |-> IF row \in j.dst.off .. j.dst.off + j.length - 1
                               THEN words[row - j.dst.off] ELSE @[row]]]
  BY <1>7
<1>9. [memory EXCEPT ![j.dst.buf] =
         [row \in DOMAIN @ |-> IF row \in j.dst.off .. j.dst.off + j.length - 1
                               THEN words[row - j.dst.off] ELSE @[row]]]
      = Image(memory, j.dst, words, Upto(j.length))
  BY <1>1, StoredRows
<1> QED
  BY <1>6, <1>8, <1>9 DEF words

-----------------------------------------------------------------------------
(* The result of the SFU, row by row.                                      *)

\* An element of a line is in its row, at its lane.
LEMMA SfuElement ==
  ASSUME NEW j \in SfuJobs, NEW memory, NEW line \in Nat, NEW i \in Nat
  PROVE  Sfu!Element(memory, j.src1, Sfu!Elems(j), line, i) = SfuSource(j, memory, line, i)
<1> DEFINE l == Lanes(j.src1.buf)
           w == LineRows(j.src1.buf, j.n)
           c == Sfu!Elems(j)
           q == i \div l
           r == i % l
           z == line * c + i
           y == line * w + q
<1>1. j.n \in Nat /\ j.src1.off \in Nat
  BY SfuJobTypes
<1>2. l \in Nat /\ 0 < l /\ w \in Nat /\ c = w * l
  BY <1>1, LaneFacts DEF LineRows, Sfu!Elems
<1> HIDE DEF c, w, l
<1>3. q \in Nat /\ r \in Nat /\ r < l /\ i = q * l + r
  BY <1>2, DivMod
<1>4. Sfu!Element(memory, j.src1, c, line, i) = Cell(memory, j.src1, z)
  BY ElementAt
<1> HIDE DEF q, r
<1>5. line * w \in Nat /\ y \in Nat
  <2>1. line * w \in Nat
    BY <1>2, NatProduct
  <2> QED
    BY <1>3, <2>1
<1>6. z = y * l + r
  <2>1. line * (w * l) + q * l = (line * w + q) * l
    BY <1>2, <1>3
  <2>2. line * (w * l) \in Nat /\ q * l \in Nat
    BY <1>2, <1>3, NatProduct
  <2> QED
    BY <1>2, <1>3, <2>1, <2>2
<1> HIDE DEF y
<1>7. z \div l = y /\ z % l = r
  <2> HIDE DEF z
  <2> QED
    BY <1>2, <1>3, <1>5, <1>6, BlockDivMod
<1> HIDE DEF z
<1>8. Cell(memory, j.src1, z) = memory[j.src1.buf][j.src1.off + y][r]
  BY <1>7 DEF Cell, l
<1>9. j.src1.off + y = j.src1.off + line * w + q
  <2> DEFINE b == line * w
  <2>1. b \in Nat /\ y = b + q
    BY <1>5 DEF y
  <2> HIDE DEF b
  <2>2. j.src1.off + y = j.src1.off + b + q
    BY <1>1, <1>3, <2>1
  <2> QED
    BY <2>2 DEF b
<1>10. SfuSource(j, memory, line, i) = memory[j.src1.buf][j.src1.off + line * w + q][r]
  BY DEF SfuSource, w, q, r, l
<1> QED
  BY <1>4, <1>8, <1>9, <1>10 DEF c

\* The same of the parameters of a layer norm.
LEMMA SfuParameter ==
  ASSUME NEW j \in SfuJobs, SfuAccepted(j), j.op = "LAYERNORM", NEW memory, NEW i \in Nat
  PROVE  Sfu!Element(memory, j.src2, 2 * Sfu!Elems(j), 0, i) = SfuParam(j, memory, i)
<1> DEFINE c == 2 * Sfu!Elems(j)
<1>1. Lanes(j.src2.buf) = Half
  BY LaneFacts DEF SfuAccepted, Sfu!Unsupported
<1>2. c \in Nat
  <2>1. Sfu!Elems(j) \in Nat
    BY SfuJobTypes, DimFacts, NatProduct DEF Sfu!Elems
  <2> QED
    BY <2>1
<1> HIDE DEF c
<1>3. i = 0 * c + i
  BY <1>2
<1>4. Sfu!Element(memory, j.src2, c, 0, i) = Cell(memory, j.src2, i)
  BY <1>3, ElementAt
<1> QED
  BY <1>1, <1>4 DEF Cell, SfuParam, c

\* An accepted instruction of the SFU: word k \div (2 * n) of every line.
LEMMA SfuResultRows ==
  ASSUME NEW j \in SfuJobs, SfuAccepted(j), NEW memory, IsMemory(memory)
  PROVE  Sfu!Result(j, memory)
           = Image(memory, j.dst, SfuWords(j, memory), Upto(MatrixRows(j.dst, j)))
<1> DEFINE rows == MatrixRows(j.dst, j)
           words == SfuWords(j, memory)
           c == Sfu!Elems(j)
           w == 2 * j.n
           h == Half
           Source(line, column) == Sfu!Element(memory, j.src1, c, line, column)
           Param(i) == Sfu!Element(memory, j.src2, 2 * c, 0, i)
           Whole(line) == [i \in 1 .. c |-> Source(line, i - 1)]
           Value(line, column) ==
             CASE j.op = "SOFTMAX"   -> Fp16(Softmax(Source(line, column), Whole(line)))
               [] j.op = "LAYERNORM" -> Fp16(Norm(Source(line, column), Whole(line),
                                                  Param(column), Param(c + column)))
               [] j.op = "GELU"      -> Fp16(Gelu(Source(line, column)))
           RowAt(row) ==
             [x \in 0 .. h - 1 |->
                LET i == (row - j.dst.off) * h + x
                IN  Value(i \div c, i % c)]
<1>1. /\ j.dst.off \in Nat /\ j.dst.buf \in Buffers /\ j.n \in Nat /\ 0 < j.n
      /\ j.m \in Nat /\ 0 < j.m
      /\ j.op \in {"SOFTMAX", "LAYERNORM", "GELU"} /\ w \in Nat /\ 0 < w
  BY SfuJobTypes
<1>2. /\ j.dst.buf # "ACCUM" /\ h \in Nat /\ 0 < h /\ Dim = 2 * h
      /\ Sfu!Lanes(j.dst.buf) = h
  BY DimFacts DEF SfuAccepted, Sfu!Unsupported, Sfu!Lanes, Sfu!Half, Half
<1>3. rows \in Nat /\ Sfu!MatrixRows(j.dst, j) = rows
  <2>1. MatrixRows(j.dst, j) = (j.m * Dim) * (2 * j.n)
    BY <1>2 DEF MatrixRows, LineRows
  <2>2. Sfu!MatrixRows(j.dst, j) = MatrixRows(j.dst, j)
    BY DEF MatrixRows, LineRows, Sfu!MatrixRows, Sfu!LineRows
  <2> QED
    BY <1>1, <2>1, <2>2, MatrixSize
<1>4. c = w * h /\ c \in Nat /\ 0 < c
  <2>1. c = w * h
    BY <1>1, <1>2 DEF Sfu!Elems
  <2>2. 0 * h + 0 < w * h /\ 0 * h = 0 /\ w * h \in Nat
    BY <1>1, <1>2, Block, NatProduct
  <2> QED
    BY <2>1, <2>2
<1> HIDE DEF rows, h, w
<1>5. Sfu!Result(j, memory) =
        [memory EXCEPT ![j.dst.buf] =
           [row \in DOMAIN @ |-> IF row \in j.dst.off .. j.dst.off + rows - 1
                                 THEN RowAt(row) ELSE @[row]]]
  BY <1>2, <1>3 DEF Sfu!Result, Sfu!Stored, Sfu!RowsOf, Sfu!Fp16, Fp16, Sfu!Softmax, Softmax,
     Sfu!Norm, Norm, Sfu!Gelu, Gelu
<1> HIDE DEF c
<1>6. ASSUME NEW line \in Nat, NEW i \in Nat
      PROVE  Value(line, i) = SfuValue(j, memory, line, i)
  <2>1. \A e \in Nat : Source(line, e) = SfuSource(j, memory, line, e)
    BY SfuElement DEF c
  <2>2. Whole(line) = SfuLine(j, memory, line)
    <3>1. \A e \in 1 .. c : e - 1 \in Nat
      BY <1>4
    <3>2. \A e \in 1 .. c : Source(line, e - 1) = SfuSource(j, memory, line, e - 1)
      BY <2>1, <3>1
    <3> HIDE DEF Source
    <3> QED
      BY <3>2 DEF SfuLine, c
  <2>3. CASE j.op = "LAYERNORM"
    <3>1. Param(i) = SfuParam(j, memory, i) /\ Param(c + i) = SfuParam(j, memory, c + i)
      BY <1>4, <2>3, SfuParameter DEF c
    <3> HIDE DEF Source, Param, Whole
    <3> QED
      BY <2>1, <2>2, <2>3, <3>1 DEF SfuValue, c
  <2>4. CASE j.op # "LAYERNORM"
    <3> HIDE DEF Source, Param, Whole
    <3> QED
      BY <1>1, <2>1, <2>2, <2>4 DEF SfuValue
  <2> QED
    BY <2>3, <2>4
<1> HIDE DEF Value
<1>7. ASSUME NEW row \in j.dst.off .. j.dst.off + rows - 1
      PROVE  RowAt(row) = words[row - j.dst.off]
  <2> DEFINE k == row - j.dst.off
  <2>1. k \in Nat /\ k \in 0 .. rows - 1
    BY <1>1, <1>3
  <2> HIDE DEF k
  <2>2. words[k] = [x \in 0 .. h - 1 |-> SfuValue(j, memory, k \div w, (k % w) * h + x)]
    BY <2>1 DEF SfuWords, rows, h, w
  <2>3. ASSUME NEW x \in 0 .. h - 1
        PROVE  LET i == k * h + x
               IN  Value(i \div c, i % c) = SfuValue(j, memory, k \div w, (k % w) * h + x)
    <3> DEFINE i == k * h + x
               q == k \div w
               m == k % w
               o == m * h + x
    <3>1. x \in Nat /\ x < h /\ i \in Nat
      BY <1>2, <2>1, NatProduct
    <3>2. q \in Nat /\ m \in Nat /\ m < w /\ k = q * w + m
      BY <1>1, <2>1, DivMod
    <3> HIDE DEF q, m
    <3>3. o \in Nat /\ o < c
      BY <1>1, <1>2, <1>4, <3>1, <3>2, Block
    <3>4. i = q * c + o
      <4>1. (q * w + m) * h = q * (w * h) + m * h
        BY <1>1, <1>2, <3>2
      <4>2. q * (w * h) \in Nat /\ m * h \in Nat
        BY <1>1, <1>2, <3>2, NatProduct
      <4> QED
        BY <1>4, <3>1, <3>2, <4>1, <4>2
    <3> HIDE DEF i, o
    <3>5. i \div c = q /\ i % c = o
      BY <1>4, <3>2, <3>3, <3>4, BlockDivMod
    <3>6. Value(q, o) = SfuValue(j, memory, q, o)
      BY <1>6, <3>2, <3>3
    <3> QED
      BY <3>5, <3>6 DEF i, o, q, m
  <2>4. RowAt(row) = [x \in 0 .. h - 1 |-> LET i == k * h + x IN  Value(i \div c, i % c)]
    BY DEF k
  <2> QED
    BY <2>2, <2>3, <2>4 DEF k
<1> HIDE DEF RowAt, words
<1>8. [memory EXCEPT ![j.dst.buf] =
         [row \in DOMAIN @ |-> IF row \in j.dst.off .. j.dst.off + rows - 1
                               THEN RowAt(row) ELSE @[row]]]
      = [memory EXCEPT ![j.dst.buf] =
         [row \in DOMAIN @ |-> IF row \in j.dst.off .. j.dst.off + rows - 1
                               THEN words[row - j.dst.off] ELSE @[row]]]
  BY <1>7
<1>9. [memory EXCEPT ![j.dst.buf] =
         [row \in DOMAIN @ |-> IF row \in j.dst.off .. j.dst.off + rows - 1
                               THEN words[row - j.dst.off] ELSE @[row]]]
      = Image(memory, j.dst, words, Upto(rows))
  BY <1>1, <1>3, StoredRows
<1> QED
  BY <1>5, <1>8, <1>9 DEF words, rows

-----------------------------------------------------------------------------
(* How the walks get there: what a step of the helper engine leaves.       *)

\* A source row that a walk which has written n rows has not reached.
Behind(src, dst, srcRows, dstRows, n, row) ==
  /\ src.buf \in Buffers /\ src.off \in Nat /\ dst.off \in Nat
  /\ srcRows \in Nat /\ dstRows \in Nat /\ src.off + srcRows <= BufRows[src.buf]
  /\ NeverAhead(src, dst, srcRows, dstRows)
  /\ n \in Nat /\ n <= dstRows
  /\ row \in RowsOf(src, srcRows) /\ src.off + n <= row

\* What a row of a buffer holds.
Held(memory, buf, row) == memory[buf][row]

\* It still holds what it held.
LEMMA Unwritten ==
  ASSUME NEW memory, NEW words, NEW src, NEW dst, NEW srcRows, NEW dstRows, NEW n, NEW row,
         Behind(src, dst, srcRows, dstRows, n, row)
  PROVE  Held(Image(memory, dst, words, Upto(n)), src.buf, row) = Held(memory, src.buf, row)
<1> USE DEF Behind
<1>1. row \in 0 .. BufRows[src.buf] - 1
  BY RowAssumption DEF RowsOf
<1>2. src.buf # dst.buf \/ row - dst.off \notin Upto(n)
  <2>1. CASE src.buf # dst.buf
    BY <2>1
  <2>2. CASE RowsOf(src, srcRows) \intersect RowsOf(dst, dstRows) = {}
    <3>1. row - dst.off \in Upto(n) => row \in RowsOf(dst, dstRows)
      BY DEF RowsOf, Upto
    <3> QED
      BY <2>2, <3>1
  <2>3. CASE dst.off <= src.off
    BY <2>3 DEF Upto, RowsOf
  <2> QED
    BY <2>1, <2>2, <2>3 DEF NeverAhead
<1>3. Image(memory, dst, words, Upto(n))[src.buf][row] = memory[src.buf][row]
  BY <1>1, <1>2, ImageRead
<1> QED
  BY <1>3 DEF Held

\* A walk over steps takes the next one, or has taken them all.
LEMMA StepTaken ==
  ASSUME hAt \in HelperCounters, NEW total \in Nat, hAt.step < total, NEW next, NEW part \in Nat,
         Helper!NextStep(total, next, part)
  PROVE  /\ hJob' = hJob
         /\ \/ hState' = "IDLE" /\ hAt.step + 1 = total
            \/ /\ hState' = next /\ hAt'.step = hAt.step + 1 /\ hAt'.part = part
               /\ hAt'.backward = hAt.backward /\ hAt.step + 1 < total
<1>0. hAt.step \in Nat
  BY DEF HelperCounters
<1>1. CASE hAt.step + 1 >= total
  BY <1>0, <1>1 DEF Helper!NextStep, Helper!Goto
<1>2. CASE ~(hAt.step + 1 >= total)
  <2>1. hState' = next /\ hJob' = hJob /\ hAt' = [hAt EXCEPT !.step = @ + 1, !.part = part]
    BY <1>2 DEF Helper!NextStep, Helper!Goto
  <2> DEFINE n == hAt.step + 1
  <2>2. hAt' = [hAt EXCEPT !.step = n, !.part = part]
    BY <2>1
  <2> HIDE DEF n
  <2>3. hAt'.step = n /\ hAt'.part = part /\ hAt'.backward = hAt.backward
    BY <2>2 DEF HelperCounters
  <2> QED
    BY <1>0, <1>2, <2>1, <2>3 DEF n
<1> QED
  BY <1>1, <1>2

\* The first rows, and one more.
LEMMA OneMore == \A n \in Nat : \A d \in Int : d \in Upto(n + 1) <=> d \in Upto(n) \/ d = n
BY DEF Upto

\* A memory with a row written, and what one more row makes of the rows done.
Put(memory, buf, row, word) == [memory EXCEPT ![buf][row] = word]
Extends(dst, done, k, row, more) ==
  /\ dst.buf \in Buffers /\ dst.off \in Nat
  /\ k \in Nat /\ row = dst.off + k /\ row \in 0 .. BufRows[dst.buf] - 1
  /\ \A d \in Int : d \in more <=> d \in done \/ d = k

\* One more row of the result.
LEMMA PutRow ==
  ASSUME NEW memory, NEW dst, NEW words, NEW done, NEW k, NEW row, NEW more,
         Extends(dst, done, k, row, more)
  PROVE  Put(Image(memory, dst, words, done), dst.buf, row, words[k])
           = Image(memory, dst, words, more)
<1> USE DEF Extends
<1>1. [Image(memory, dst, words, done) EXCEPT ![dst.buf][row] = words[k]]
        = Image(memory, dst, words, more)
  BY ImageWrite
<1> QED
  BY <1>1 DEF Put

\* VADD of FP16 operands: both operand rows are read before their row of the
\* destination is written.
LEMMA V16Goes ==
  ASSUME HelperInv, IsMemory(before), V16Inv, Helper!Defined(hJob),
         Helper!V16Read \/ Helper!V16Write, before' = before
  PROVE  \/ hState' \in Vadd16 /\ V16Inv'
         \/ hState' = "IDLE" /\ mem' = Helper!Result(hJob, before)
<1> DEFINE total == MatrixRows(hJob.dst, hJob)
           words == V16Words(hJob, before)
           s     == hAt.step
<1>1. /\ hState \in Vadd16 /\ hAt \in HelperCounters /\ HelperAccepted(hJob)
      /\ hJob.op = "VADD" /\ Helper!IsVaddFp16(hJob) /\ s < total
  BY DEF HelperInv, HelperWalk, Helper!V16Read, Helper!V16Write, Vadd16, Helper!Busy
<1>2. /\ hJob.src1.buf = "ABUF" /\ hJob.src2.buf # "ACCUM" /\ hJob.dst.buf = "ABUF"
      /\ ~Helper!IsVaddBias(hJob)
  BY <1>1 DEF Helper!IsVaddFp16, Helper!IsVaddBias
<1>3. /\ hJob \in HelperJobs /\ s \in Nat /\ hAt.part \in Nat
      /\ hJob.src1.buf \in Buffers /\ hJob.src2.buf \in Buffers /\ hJob.dst.buf \in Buffers
      /\ hJob.src1.off \in Nat /\ hJob.src2.off \in Nat /\ hJob.dst.off \in Nat
  BY <1>1, HelperJobTypes DEF HelperAccepted, HelperCounters
<1>4. /\ total \in Nat /\ Helper!MatrixRows(hJob.dst, hJob) = total
      /\ Helper!Src1Rows(hJob) = total /\ Helper!Src2Rows(hJob) = total
      /\ Helper!DstRows(hJob) = total
  BY <1>1, <1>2, <1>3, RowsOfMatrix DEF Helper!Src1Rows, Helper!Src2Rows, Helper!DstRows
<1> HIDE DEF total
<1>5. /\ hJob.src1.off + total <= BufRows[hJob.src1.buf]
      /\ hJob.src2.off + total <= BufRows[hJob.src2.buf]
      /\ hJob.dst.off + total <= BufRows[hJob.dst.buf]
  BY <1>1, <1>4, HelperFits
<1>6. /\ NeverAhead(hJob.src1, hJob.dst, total, total)
      /\ NeverAhead(hJob.src2, hJob.dst, total, total)
  BY <1>1, <1>2, <1>4 DEF Helper!Defined, NeverAhead, RowsOf, Helper!NeverAhead, Helper!RowsOf
<1>7. mem = Image(before, hJob.dst, words, Upto(s))
  BY DEF V16Inv
<1>8. /\ Helper!StepRow(hJob.src1) = hJob.src1.off + s
      /\ Helper!StepRow(hJob.src2) = hJob.src2.off + s
      /\ Helper!StepRow(hJob.dst) = hJob.dst.off + s
  BY DEF Helper!StepRow
<1> HIDE DEF s, words
<1>9. CASE Helper!V16Read
  <2>1. /\ hState' = "V16_WRITE" /\ hJob' = hJob /\ hAt' = hAt /\ mem' = mem
        /\ rdataA' = mem[hJob.src2.buf][Helper!StepRow(hJob.src2)]
        /\ rdataB' = mem[hJob.src1.buf][Helper!StepRow(hJob.src1)]
    BY <1>9 DEF Helper!V16Read, Helper!ReadA, Helper!ReadB, Helper!Goto
  <2>2. /\ rdataA' = before[hJob.src2.buf][Helper!StepRow(hJob.src2)]
        /\ rdataB' = before[hJob.src1.buf][Helper!StepRow(hJob.src1)]
    <3>1. /\ Behind(hJob.src1, hJob.dst, total, total, s, Helper!StepRow(hJob.src1))
          /\ Behind(hJob.src2, hJob.dst, total, total, s, Helper!StepRow(hJob.src2))
      BY <1>1, <1>3, <1>4, <1>5, <1>6, <1>8 DEF s, RowsOf, Behind
    <3>2. /\ Held(mem, hJob.src1.buf, Helper!StepRow(hJob.src1))
               = Held(before, hJob.src1.buf, Helper!StepRow(hJob.src1))
          /\ Held(mem, hJob.src2.buf, Helper!StepRow(hJob.src2))
               = Held(before, hJob.src2.buf, Helper!StepRow(hJob.src2))
      BY <1>7, <3>1, Unwritten
    <3> QED
      BY <2>1, <3>2 DEF Held
  <2>3. /\ V16Words(hJob, before)' = V16Words(hJob, before)
        /\ Helper!StepRow(hJob.src1)' = Helper!StepRow(hJob.src1)
        /\ Helper!StepRow(hJob.src2)' = Helper!StepRow(hJob.src2)
    BY <2>1 DEF V16Words, Helper!StepRow, MatrixRows, LineRows
  <2> QED
    BY <1>7, <2>1, <2>2, <2>3 DEF V16Inv, Vadd16, words, s
<1>10. CASE Helper!V16Write
  <2>1. /\ hState = "V16_WRITE"
        /\ mem' = [mem EXCEPT ![hJob.dst.buf][Helper!StepRow(hJob.dst)] =
                     [x \in 0 .. Half - 1 |-> Fp16(Sum(rdataB[x], rdataA[x]))]]
        /\ Helper!NextStep(total, "V16_READ", hAt.part)
    BY <1>4, <1>10 DEF Helper!V16Write, Helper!WriteA, Helper!Half, Half, Helper!Fp16, Fp16,
       Helper!Sum, Sum
  <2> DEFINE word == [x \in 0 .. Half - 1 |-> Fp16(Sum(rdataB[x], rdataA[x]))]
  <2>2. /\ rdataA = before[hJob.src2.buf][hJob.src2.off + s]
        /\ rdataB = before[hJob.src1.buf][hJob.src1.off + s]
    BY <1>8, <2>1 DEF V16Inv
  <2>3. s \in 0 .. total - 1
    BY <1>1, <1>3, <1>4 DEF s
  <2>4. words[s] = [x \in 0 .. Half - 1 |->
                     Fp16(Sum(before[hJob.src1.buf][hJob.src1.off + s][x],
                              before[hJob.src2.buf][hJob.src2.off + s][x]))]
    BY <2>3 DEF words, V16Words, total
  <2>5. word = words[s]
    BY <2>2, <2>4
  <2> HIDE DEF word
  <2>6. hJob.dst.off + s \in 0 .. BufRows[hJob.dst.buf] - 1
    BY <1>1, <1>3, <1>4, <1>5, RowInside DEF s
  <2>7. Extends(hJob.dst, Upto(s), s, Helper!StepRow(hJob.dst), Upto(s + 1))
    BY <1>3, <1>8, <2>6, OneMore DEF Extends, s
  <2>8. mem' = Image(before, hJob.dst, words, Upto(s + 1))
    <3>1. mem' = Put(mem, hJob.dst.buf, Helper!StepRow(hJob.dst), word)
      BY <2>1 DEF Put, word
    <3> QED
      BY <1>7, <2>5, <2>7, <3>1, PutRow
  <2>9. /\ hJob' = hJob
        /\ \/ hState' = "IDLE" /\ s + 1 = total
           \/ hState' = "V16_READ" /\ hAt'.step = s + 1
    BY <1>1, <1>3, <1>4, <2>1, StepTaken DEF s
  <2>10. CASE hState' = "IDLE" /\ s + 1 = total
    BY <1>1, <1>3, <2>8, <2>10, V16Result DEF words, total
  <2>11. CASE hState' = "V16_READ" /\ hAt'.step = s + 1
    <3>1. V16Words(hJob, before)' = words
      BY <2>9 DEF V16Words, words, MatrixRows, LineRows
    <3> QED
      BY <2>8, <2>9, <2>11, <3>1 DEF V16Inv, Vadd16
  <2> QED
    BY <2>9, <2>10, <2>11
<1> QED
  BY <1>9, <1>10

\* The same of any row that is not among those done.
LEMMA HeldRow ==
  ASSUME NEW memory, NEW dst, NEW words, NEW done,
         NEW buf \in Buffers, NEW row \in 0 .. BufRows[buf] - 1,
         buf # dst.buf \/ row - dst.off \notin done
  PROVE  Held(Image(memory, dst, words, done), buf, row) = Held(memory, buf, row)
BY ImageRead DEF Held

\* BUF_COPY without transposition: the copy goes away from the overlap, so a
\* row is read before it is written over.
LEMMA FlatGoes ==
  ASSUME HelperInv, IsMemory(before), FlatInv, CopiesKeepWidth,
         Helper!FlatRead \/ Helper!FlatWrite, before' = before
  PROVE  \/ hState' \in Flat /\ FlatInv'
         \/ hState' = "IDLE" /\ mem' = Helper!Result(hJob, before)
<1> DEFINE total == hJob.length
           words == FlatWords(hJob, before)
           s     == hAt.step
           i     == IF hAt.backward THEN total - s - 1 ELSE s
           more  == IF hAt.backward THEN (total - (s + 1)) .. (total - 1) ELSE Upto(s + 1)
           r     == Helper!FlatRow(hJob.src1)
<1>1. /\ hState \in Flat /\ hAt \in HelperCounters /\ HelperAccepted(hJob)
      /\ hJob.op = "BUF_COPY" /\ s < total
  BY DEF HelperInv, HelperWalk, Helper!FlatRead, Helper!FlatWrite, Flat, Helper!Busy
<1>2. /\ hJob \in HelperJobs /\ s \in Nat /\ hAt.part \in Nat /\ total \in Nat
      /\ hJob.src1.buf \in Buffers /\ hJob.dst.buf \in Buffers
      /\ hJob.src1.off \in Nat /\ hJob.dst.off \in Nat
  BY <1>1, HelperJobTypes DEF HelperAccepted, HelperCounters
<1>3. /\ hJob.src1.off + total <= BufRows[hJob.src1.buf]
      /\ hJob.dst.off + total <= BufRows[hJob.dst.buf]
  BY <1>1, HelperFits DEF Helper!Src1Rows, Helper!DstRows
<1>4. /\ mem = Image(before, hJob.dst, words, FlatDone)
      /\ ~(hJob.transpose /\ hJob.length # 0)
      /\ hAt.backward = Helper!GoesBackward(hJob)
  BY DEF FlatInv
<1>5. i \in Nat /\ i < total
  BY <1>1, <1>2
<1>6. r = hJob.src1.off + i /\ Helper!FlatRow(hJob.dst) = hJob.dst.off + i
  BY DEF Helper!FlatRow
<1>7. CASE Helper!FlatRead
  <2>1. /\ hState' = "FLAT_WRITE" /\ hJob' = hJob /\ hAt' = hAt /\ mem' = mem
        /\ rdataA' = mem[hJob.src1.buf][r]
    BY <1>7 DEF Helper!FlatRead, Helper!ReadA, Helper!Goto
  <2>2. hJob.src1.buf # hJob.dst.buf \/ r - hJob.dst.off \notin FlatDone
    <3>1. SUFFICES ASSUME hJob.src1.buf = hJob.dst.buf PROVE r - hJob.dst.off \notin FlatDone
      OBVIOUS
    <3>2. CASE hAt.backward
      <4>1. hJob.src1.off < hJob.dst.off
        BY <1>2, <1>4, <3>2 DEF Helper!GoesBackward
      <4> QED
        BY <1>1, <1>2, <1>6, <3>2, <4>1 DEF FlatDone
    <3>3. CASE ~hAt.backward
      <4>1. \/ hJob.src1.off >= hJob.dst.off + total
            \/ hJob.dst.off >= hJob.src1.off + total
            \/ hJob.dst.off <= hJob.src1.off
        BY <1>2, <1>4, <3>1, <3>3 DEF Helper!GoesBackward
      <4> QED
        BY <1>1, <1>2, <1>6, <3>3, <4>1 DEF FlatDone, Upto
    <3> QED
      BY <3>2, <3>3
  <2>3. r \in 0 .. BufRows[hJob.src1.buf] - 1
    BY <1>2, <1>3, <1>5, <1>6, RowInside
  <2> HIDE DEF r, words
  <2>4. Held(mem, hJob.src1.buf, r) = Held(before, hJob.src1.buf, r)
    BY <1>2, <1>4, <2>2, <2>3, HeldRow
  <2>5. rdataA' = before[hJob.src1.buf][r]
    BY <2>1, <2>4 DEF Held
  <2>6. /\ FlatWords(hJob, before)' = words
        /\ Helper!FlatRow(hJob.src1)' = r /\ FlatDone' = FlatDone
        /\ Helper!GoesBackward(hJob)' = Helper!GoesBackward(hJob)
    BY <2>1 DEF FlatWords, Helper!FlatRow, FlatDone, words, r, Helper!GoesBackward
  <2> QED
    BY <1>4, <2>1, <2>5, <2>6 DEF FlatInv, Flat
<1>8. CASE Helper!FlatWrite
  <2>1. /\ hState = "FLAT_WRITE"
        /\ mem' = [mem EXCEPT ![hJob.dst.buf][Helper!FlatRow(hJob.dst)] = rdataA]
        /\ Helper!NextStep(total, "FLAT_READ", hAt.part)
    BY <1>8 DEF Helper!FlatWrite, Helper!WriteA
  <2>2. rdataA = before[hJob.src1.buf][r]
    BY <2>1 DEF FlatInv
  <2> HIDE DEF i
  <2>3. words[i] = before[hJob.src1.buf][hJob.src1.off + i]
    <3>1. i \in 0 .. total - 1
      BY <1>2, <1>5
    <3> QED
      BY <3>1 DEF words, FlatWords, total
  <2>4. rdataA = words[i]
    BY <1>6, <2>2, <2>3
  <2>5. hJob.dst.off + i \in 0 .. BufRows[hJob.dst.buf] - 1
    BY <1>2, <1>3, <1>5, RowInside
  <2>6. \A d \in Int : d \in more <=> d \in FlatDone \/ d = i
    BY <1>1, <1>2 DEF i, FlatDone, Upto
  <2> HIDE DEF words, more, s, total, r
  <2>7. Extends(hJob.dst, FlatDone, i, Helper!FlatRow(hJob.dst), more)
    BY <1>2, <1>5, <1>6, <2>5, <2>6 DEF Extends
  <2>8. mem' = Image(before, hJob.dst, words, more)
    <3>1. mem' = Put(mem, hJob.dst.buf, Helper!FlatRow(hJob.dst), rdataA)
      BY <2>1 DEF Put
    <3> QED
      BY <1>4, <2>4, <2>7, <3>1, PutRow
  <2>9. /\ hJob' = hJob
        /\ \/ hState' = "IDLE" /\ s + 1 = total
           \/ hState' = "FLAT_READ" /\ hAt'.step = s + 1 /\ hAt'.backward = hAt.backward
    BY <1>1, <1>2, <2>1, StepTaken DEF s
  <2>10. CASE hState' = "IDLE" /\ s + 1 = total
    <3>1. \A d \in Int : d \in more <=> d \in Upto(total)
      BY <1>2, <2>10 DEF more, Upto
    <3>2. mem' = Image(before, hJob.dst, words, Upto(total))
      BY <1>2, <2>8, <3>1, ImageSame
    <3>3. hJob.src1.buf = "ACCUM" <=> hJob.dst.buf = "ACCUM"
      BY <1>1, <1>2 DEF CopiesKeepWidth
    <3> QED
      BY <1>1, <1>2, <1>3, <1>4, <2>10, <3>2, <3>3, FlatResult DEF words, total
  <2>11. CASE hState' = "FLAT_READ" /\ hAt'.step = s + 1 /\ hAt'.backward = hAt.backward
    <3>1. FlatWords(hJob, before)' = words /\ Helper!GoesBackward(hJob)' = Helper!GoesBackward(hJob)
      BY <2>9 DEF FlatWords, words, Helper!GoesBackward
    <3>2. FlatDone' = more
      BY <2>9, <2>11 DEF FlatDone, more, total
    <3> QED
      BY <1>4, <2>8, <2>9, <2>11, <3>1, <3>2 DEF FlatInv, Flat
  <2> QED
    BY <2>9, <2>10, <2>11
<1> QED
  BY <1>7, <1>8

\* SCALE_MUL that keeps the width.
LEMMA ScaleGoes ==
  ASSUME HelperInv, IsMemory(before), ScaleInv, Helper!Defined(hJob),
         Helper!ScaleRequest \/ Helper!ScaleWrite, before' = before
  PROVE  \/ hState' \in ScaleW /\ ScaleInv'
         \/ hState' = "IDLE" /\ mem' = Helper!Result(hJob, before)
<1> DEFINE total == MatrixRows(hJob.dst, hJob)
           words == ScaleWords(hJob, before)
           s     == hAt.step
           r     == Helper!StepRow(hJob.src1)
<1>1. /\ hState \in ScaleW /\ hAt \in HelperCounters /\ HelperAccepted(hJob)
      /\ hJob.op = "SCALE_MUL" /\ ~Helper!Narrows(hJob) /\ s < MatrixRows(hJob.src1, hJob)
  BY DEF HelperInv, HelperWalk, Helper!ScaleRequest, Helper!ScaleWrite, ScaleW, Helper!Busy
<1>2. hJob.src1.buf = "ACCUM" <=> hJob.dst.buf = "ACCUM"
  BY <1>1 DEF HelperAccepted, Helper!Unsupported, Helper!Narrows
<1>3. /\ hJob \in HelperJobs /\ s \in Nat /\ hAt.part \in Nat
      /\ hJob.src1.buf \in Buffers /\ hJob.dst.buf \in Buffers
      /\ hJob.src1.off \in Nat /\ hJob.dst.off \in Nat
  BY <1>1, HelperJobTypes DEF HelperAccepted, HelperCounters
<1>4. /\ total \in Nat /\ Helper!MatrixRows(hJob.src1, hJob) = total
      /\ MatrixRows(hJob.src1, hJob) = total
      /\ Helper!Src1Rows(hJob) = total /\ Helper!DstRows(hJob) = total
  BY <1>1, <1>2, <1>3, RowsOfMatrix DEF Helper!Src1Rows, Helper!DstRows
<1> HIDE DEF total
<1>5. s < total
  BY <1>1, <1>4
<1>6. /\ hJob.src1.off + total <= BufRows[hJob.src1.buf]
      /\ hJob.dst.off + total <= BufRows[hJob.dst.buf]
  BY <1>1, <1>4, HelperFits
<1>7. NeverAhead(hJob.src1, hJob.dst, total, total)
  BY <1>1, <1>4 DEF Helper!Defined, NeverAhead, RowsOf, Helper!NeverAhead, Helper!RowsOf
<1>8. mem = Image(before, hJob.dst, words, Upto(s))
  BY DEF ScaleInv
<1>9. r = hJob.src1.off + s /\ Helper!StepRow(hJob.dst) = hJob.dst.off + s
  BY DEF Helper!StepRow
<1>10. Behind(hJob.src1, hJob.dst, total, total, s, r)
  BY <1>3, <1>4, <1>5, <1>6, <1>7, <1>9 DEF RowsOf, Behind
<1> HIDE DEF s, words, r
<1>11. CASE Helper!ScaleRequest
  <2>1. /\ hState' = "SM1_WRITE" /\ hJob' = hJob /\ hAt' = hAt /\ mem' = mem
        /\ rdataB' = mem[hJob.src1.buf][r]
    BY <1>11 DEF Helper!ScaleRequest, Helper!QuietA, Helper!ReadB, Helper!Goto, r
  <2>2. Held(mem, hJob.src1.buf, r) = Held(before, hJob.src1.buf, r)
    BY <1>8, <1>10, Unwritten
  <2>3. rdataB' = before[hJob.src1.buf][r]
    BY <2>1, <2>2 DEF Held
  <2>4. /\ ScaleWords(hJob, before)' = words
        /\ Helper!StepRow(hJob.src1)' = r
    BY <2>1 DEF ScaleWords, Helper!StepRow, MatrixRows, LineRows, Lanes, Half, Group,
       Helper!ScaleOf, Helper!Fp16, Helper!Scaled, words, r
  <2> QED
    BY <1>8, <2>1, <2>3, <2>4 DEF ScaleInv, ScaleW, s
<1>12. CASE Helper!ScaleWrite
  <2> DEFINE word == [x \in 0 .. Lanes(hJob.dst.buf) - 1 |->
                       Helper!ScaleOf(hJob.dst.buf, rdataB[x])]
  <2>1. /\ Helper!Lanes(hJob.src1.buf) = Lanes(hJob.dst.buf)
        /\ \A x : Helper!ScaleOf(hJob.src1.buf, x) = Helper!ScaleOf(hJob.dst.buf, x)
    BY <1>2 DEF Helper!Lanes, Lanes, Helper!Half, Half, Helper!Group, Group, Helper!ScaleOf
  <2>2. /\ hState = "SM1_WRITE"
        /\ mem' = [mem EXCEPT ![hJob.dst.buf][Helper!StepRow(hJob.dst)] = word]
        /\ Helper!NextStep(total, "SM1_REQ", hAt.part)
    BY <1>4, <1>12, <2>1 DEF Helper!ScaleWrite, Helper!WriteA
  <2>3. rdataB = before[hJob.src1.buf][hJob.src1.off + s]
    BY <1>9, <2>2 DEF ScaleInv, r
  <2>4. s \in 0 .. total - 1
    BY <1>3, <1>4, <1>5 DEF s
  <2>5. words[s] = [x \in 0 .. Lanes(hJob.dst.buf) - 1 |->
                      Helper!ScaleOf(hJob.dst.buf, before[hJob.src1.buf][hJob.src1.off + s][x])]
    BY <2>4 DEF words, ScaleWords, total
  <2>6. word = words[s]
    BY <2>3, <2>5
  <2> HIDE DEF word
  <2>7. hJob.dst.off + s \in 0 .. BufRows[hJob.dst.buf] - 1
    BY <1>3, <1>4, <1>5, <1>6, RowInside DEF s
  <2>8. Extends(hJob.dst, Upto(s), s, Helper!StepRow(hJob.dst), Upto(s + 1))
    BY <1>3, <1>9, <2>7, OneMore DEF Extends, s
  <2>9. mem' = Image(before, hJob.dst, words, Upto(s + 1))
    <3>1. mem' = Put(mem, hJob.dst.buf, Helper!StepRow(hJob.dst), word)
      BY <2>2 DEF Put
    <3> QED
      BY <1>8, <2>6, <2>8, <3>1, PutRow
  <2>10. /\ hJob' = hJob
         /\ \/ hState' = "IDLE" /\ s + 1 = total
            \/ hState' = "SM1_REQ" /\ hAt'.step = s + 1
    BY <1>1, <1>3, <1>4, <1>5, <2>2, StepTaken DEF s
  <2>11. CASE hState' = "IDLE" /\ s + 1 = total
    BY <1>1, <1>2, <1>3, <2>9, <2>11, ScaleResult DEF words, total
  <2>12. CASE hState' = "SM1_REQ" /\ hAt'.step = s + 1
    <3>1. ScaleWords(hJob, before)' = words
      BY <2>10 DEF ScaleWords, words, MatrixRows, LineRows, Lanes, Half, Group,
         Helper!ScaleOf, Helper!Fp16, Helper!Scaled
    <3> QED
      BY <2>9, <2>10, <2>12, <3>1 DEF ScaleInv, ScaleW
  <2> QED
    BY <2>10, <2>11, <2>12
<1> QED
  BY <1>11, <1>12

\* SCALE_MUL from FP32 to FP16: two rows of the source make one of the
\* destination.
LEMMA NarrowGoes ==
  ASSUME HelperInv, IsMemory(before), NarrowInv,
         hLatch = [scratch |-> hLatch.scratch, bias |-> hLatch.bias,
                   row0 |-> hLatch.row0, row1 |-> hLatch.row1],
         Helper!NarrowRequest \/ Helper!NarrowLatch \/ Helper!NarrowWrite, before' = before
  PROVE  \/ hState' \in NarrowW /\ NarrowInv'
         \/ hState' = "IDLE" /\ mem' = Helper!Result(hJob, before)
<1> DEFINE total == MatrixRows(hJob.dst, hJob)
           words == NarrowWords(hJob, before)
           s     == hAt.step
           buf   == hJob.src1.buf
           off   == hJob.src1.off
           r     == Helper!NarrowRow
<1>1. /\ hState \in NarrowW /\ hAt \in HelperCounters /\ HelperAccepted(hJob)
      /\ hJob.op = "SCALE_MUL" /\ Helper!Narrows(hJob) /\ s < total /\ hAt.part \in {0, 1}
  BY DEF HelperInv, HelperWalk, Helper!NarrowRequest, Helper!NarrowLatch, Helper!NarrowWrite,
     NarrowW, Helper!Busy
<1>2. buf = "ACCUM" /\ hJob.dst.buf # "ACCUM"
  BY <1>1 DEF Helper!Narrows
<1>3. /\ hJob \in HelperJobs /\ s \in Nat
      /\ buf \in Buffers /\ hJob.dst.buf \in Buffers /\ off \in Nat /\ hJob.dst.off \in Nat
  BY <1>1, HelperJobTypes DEF HelperAccepted, HelperCounters
<1>4. /\ total \in Nat /\ Helper!MatrixRows(hJob.dst, hJob) = total
      /\ Helper!Src1Rows(hJob) = 2 * total /\ Helper!DstRows(hJob) = total
  BY <1>1, <1>2, <1>3, RowsOfMatrix DEF Helper!Src1Rows, Helper!DstRows
<1> HIDE DEF total
<1>5. off + 2 * total <= BufRows[buf] /\ hJob.dst.off + total <= BufRows[hJob.dst.buf]
  BY <1>1, <1>4, HelperFits
<1>6. mem = Image(before, hJob.dst, words, Upto(s))
  BY DEF NarrowInv
<1>7. r = off + 2 * s + hAt.part /\ Helper!StepRow(hJob.dst) = hJob.dst.off + s
  BY DEF Helper!NarrowRow, Helper!StepRow
<1>8. /\ hState = "SM2_LATCH" => rdataB = before[buf][r]
      /\ hAt.part = 1 => hLatch.row0 = before[buf][off + 2 * s]
      /\ hState = "SM2_WRITE" => hAt.part = 1 /\ hLatch.row1 = before[buf][off + 2 * s + 1]
  BY DEF NarrowInv
<1>9. r \in 0 .. BufRows[buf] - 1
  BY <1>1, <1>3, <1>4, <1>5, <1>7, RowAssumption
<1> HIDE DEF s, words, r, buf, off
<1>10. CASE Helper!NarrowRequest
  <2>1. /\ hState = "SM2_REQ" /\ hState' = "SM2_LATCH" /\ hJob' = hJob /\ hAt' = hAt /\ mem' = mem
        /\ rdataB' = mem[buf][r] /\ hLatch' = hLatch
    BY <1>10 DEF Helper!NarrowRequest, Helper!QuietA, Helper!ReadB, Helper!Goto, r, buf
  <2>2. Held(mem, buf, r) = Held(before, buf, r)
    BY <1>2, <1>3, <1>6, <1>9, HeldRow
  <2>3. rdataB' = before[buf][r]
    BY <2>1, <2>2 DEF Held
  <2>4. /\ NarrowWords(hJob, before)' = words
        /\ Helper!NarrowRow' = r
    BY <2>1 DEF NarrowWords, Helper!NarrowRow, MatrixRows, LineRows, Half, Group, Fp16, Scaled,
       words, r
  <2> QED
    BY <1>6, <1>8, <2>1, <2>3, <2>4 DEF NarrowInv, NarrowW, s, buf, off
<1>11. CASE Helper!NarrowLatch
  <2>1. rdataB = before[buf][r] /\ hState = "SM2_LATCH"
    BY <1>8, <1>11 DEF Helper!NarrowLatch
  <2>2. hJob' = hJob /\ mem' = mem
    BY <1>11 DEF Helper!NarrowLatch, Helper!QuietA, Helper!Goto
  <2>3. NarrowWords(hJob, before)' = words
    BY <2>2 DEF NarrowWords, MatrixRows, LineRows, Half, Group, Fp16, Scaled, words
  <2>4. CASE hAt.part = 0
    <3>1. /\ hState' = "SM2_REQ" /\ hAt' = [hAt EXCEPT !.part = 1]
          /\ hLatch' = [hLatch EXCEPT !.row0 = rdataB]
      BY <1>11, <2>4 DEF Helper!NarrowLatch, Helper!Goto
    <3>2. hAt'.part = 1 /\ hAt'.step = s
      BY <1>1, <3>1 DEF HelperCounters, s
    <3>3. hLatch'.row0 = rdataB
      BY <3>1
    <3>4. r = off + 2 * s
      BY <1>3, <1>7, <2>4
    <3> QED
      BY <1>6, <2>1, <2>2, <2>3, <3>1, <3>2, <3>3, <3>4 DEF NarrowInv, NarrowW, buf, off
  <2>5. CASE hAt.part = 1
    <3>1. /\ hState' = "SM2_WRITE" /\ hAt' = hAt
          /\ hLatch' = [hLatch EXCEPT !.row1 = rdataB]
      BY <1>11, <2>5 DEF Helper!NarrowLatch, Helper!Goto
    <3>2. hLatch'.row1 = rdataB /\ hLatch'.row0 = hLatch.row0
      BY <3>1
    <3>3. r = off + 2 * s + 1
      BY <1>3, <1>7, <2>5
    <3> QED
      BY <1>6, <1>8, <2>1, <2>2, <2>3, <2>5, <3>1, <3>2, <3>3 DEF NarrowInv, NarrowW, s, buf, off
  <2> QED
    BY <1>1, <2>4, <2>5
<1>12. CASE Helper!NarrowWrite
  <2> DEFINE word == [x \in 0 .. Half - 1 |->
                       Fp16(Scaled(IF x < Group THEN hLatch.row0[x] ELSE hLatch.row1[x - Group]))]
  <2>1. /\ hState = "SM2_WRITE"
        /\ mem' = [mem EXCEPT ![hJob.dst.buf][Helper!StepRow(hJob.dst)] = word]
        /\ Helper!NextStep(total, "SM2_REQ", 0)
    BY <1>4, <1>12 DEF Helper!NarrowWrite, Helper!WriteA, Helper!Half, Half, Helper!Group, Group,
       Helper!Fp16, Fp16, Helper!Scaled, Scaled
  <2>2. hLatch.row0 = before[buf][off + 2 * s] /\ hLatch.row1 = before[buf][off + 2 * s + 1]
    BY <1>8, <2>1
  <2>3. s \in 0 .. total - 1
    BY <1>1, <1>3, <1>4 DEF s
  <2>4. words[s] = [x \in 0 .. Half - 1 |->
                      Fp16(Scaled(IF x < Group THEN before[buf][off + 2 * s][x]
                                  ELSE before[buf][off + 2 * s + 1][x - Group]))]
    BY <2>3 DEF words, NarrowWords, total, buf, off
  <2>5. word = words[s]
    BY <2>2, <2>4
  <2> HIDE DEF word
  <2>6. hJob.dst.off + s \in 0 .. BufRows[hJob.dst.buf] - 1
    BY <1>1, <1>3, <1>4, <1>5, RowInside DEF s
  <2>7. Extends(hJob.dst, Upto(s), s, Helper!StepRow(hJob.dst), Upto(s + 1))
    BY <1>3, <1>7, <2>6, OneMore DEF Extends, s
  <2>8. mem' = Image(before, hJob.dst, words, Upto(s + 1))
    <3>1. mem' = Put(mem, hJob.dst.buf, Helper!StepRow(hJob.dst), word)
      BY <2>1 DEF Put
    <3> QED
      BY <1>6, <2>5, <2>7, <3>1, PutRow
  <2>9. /\ hJob' = hJob
        /\ \/ hState' = "IDLE" /\ s + 1 = total
           \/ hState' = "SM2_REQ" /\ hAt'.step = s + 1 /\ hAt'.part = 0
    BY <1>1, <1>3, <1>4, <2>1, StepTaken DEF s
  <2>10. CASE hState' = "IDLE" /\ s + 1 = total
    BY <1>1, <1>3, <2>8, <2>10, NarrowResult DEF words, total
  <2>11. CASE hState' = "SM2_REQ" /\ hAt'.step = s + 1 /\ hAt'.part = 0
    <3>1. NarrowWords(hJob, before)' = words
      BY <2>9 DEF NarrowWords, MatrixRows, LineRows, Half, Group, Fp16, Scaled, words
    <3> QED
      BY <2>8, <2>9, <2>11, <3>1 DEF NarrowInv, NarrowW
  <2> QED
    BY <2>9, <2>10, <2>11
<1> QED
  BY <1>10, <1>11, <1>12

\* The walk of a bias has reached group g of line l when it is at a group of a
\* line and adding, or between two rows of the bias.
Reached(adding, chunk, line, half, l, g) ==
  \/ g < 2 * chunk
  \/ adding /\ g < 2 * chunk + 2 /\ (l < line \/ (l = line /\ g < 2 * chunk + half))

\* The rows it has written then, of lines of w rows.
BiasSet(rows, w, adding, chunk, line, half) ==
  {k \in Upto(rows) : Reached(adding, chunk, line, half, k \div w, k % w)}

\* Group b of a line of w groups is row k of the matrix.
AtGroup(w, lines, b, line, k) ==
  /\ w \in Nat /\ lines \in Nat /\ b \in Nat /\ b < w /\ line \in Nat /\ line < lines
  /\ k = line * w + b

\* The row of the destination the walk of a bias is at.
LEMMA BiasPlace ==
  ASSUME NEW w, NEW lines, NEW b, NEW line, NEW k, AtGroup(w, lines, b, line, k)
  PROVE  /\ k \in Upto(lines * w) /\ k \div w = line /\ k % w = b
         /\ \A d \in Upto(lines * w) : /\ d \div w \in Nat /\ d \div w < lines
                                       /\ d % w \in Nat /\ d % w < w
                                       /\ d = k <=> d \div w = line /\ d % w = b
<1> USE DEF AtGroup
<1>1. k \in Nat /\ k \div w = line /\ k % w = b
  BY BlockDivMod
<1>2. k < lines * w /\ lines * w \in Nat
  BY Block, NatProduct
<1> DEFINE rows == lines * w
<1>3. rows \in Nat /\ k < rows
  BY <1>2
<1>4. ASSUME NEW d \in Upto(rows)
      PROVE  /\ d \div w \in Nat /\ d \div w < lines
             /\ d % w \in Nat /\ d % w < w
             /\ d = k <=> d \div w = line /\ d % w = b
  <2>1. d \in Nat /\ d < rows
    BY <1>3 DEF Upto
  <2>2. 0 < w /\ d \div w \in Nat /\ d \div w < lines
    BY <2>1, QuotientBound
  <2>3. d % w \in 0 .. w - 1 /\ d = (d \div w) * w + (d % w)
    BY <2>1, <2>2, DivMod
  <2>4. d \div w = line /\ d % w = b => d = k
    BY <2>3
  <2>5. d = k => d \div w = line /\ d % w = b
    BY <1>1
  <2>6. d % w \in Nat /\ d % w < w
    BY <2>3
  <2> HIDE DEF rows
  <2> QED
    BY <2>2, <2>4, <2>5, <2>6
<1> HIDE DEF rows
<1>5. k \in Upto(rows)
  BY <1>1, <1>3 DEF Upto
<1> QED
  BY <1>1, <1>4, <1>5 DEF rows

\* The walk of a bias adds row c of it to a group of a line, row k of the matrix.
Adding(n, lines, c, line, half, k, rows, w, old, more) ==
  /\ n \in Nat /\ lines \in Nat /\ c \in Nat /\ c < 2 * n /\ line \in Nat /\ line < lines
  /\ half \in {0, 1} /\ w = 4 * n
  /\ rows = lines * w /\ k = line * w + (2 * c + half)
  /\ old = BiasSet(rows, w, TRUE, c, line, half)
  /\ more = IF half = 0 THEN BiasSet(rows, w, TRUE, c, line, 1)
            ELSE IF line + 1 < lines THEN BiasSet(rows, w, TRUE, c, line + 1, 0)
            ELSE IF c + 1 < 2 * n THEN BiasSet(rows, w, FALSE, c + 1, line, half)
            ELSE Upto(rows)

\* What that makes of the rows it has written.
LEMMA AccSets ==
  ASSUME NEW n \in Nat, NEW lines \in Nat, NEW c \in Nat, NEW line \in Nat, NEW half \in {0, 1},
         NEW k, NEW rows, NEW w, NEW old, NEW more,
         Adding(n, lines, c, line, half, k, rows, w, old, more)
  PROVE  /\ k \in Upto(rows) /\ k % w = 2 * c + half /\ k \notin old
         /\ \A d \in Int : d \in more <=> d \in old \/ d = k
<1>1. /\ c < 2 * n /\ line < lines /\ half \in {0, 1} /\ w = 4 * n
  BY DEF Adding
<1>2. /\ k \in Upto(rows) /\ k \div w = line /\ k % w = 2 * c + half
      /\ \A d \in Upto(rows) : /\ d \div w \in Nat /\ d \div w < lines
                               /\ d % w \in Nat /\ d % w < w
                               /\ d = k <=> d \div w = line /\ d % w = 2 * c + half
  <2>1. PICK b \in Nat : b = 2 * c + half
    OBVIOUS
  <2>2. AtGroup(w, lines, b, line, k) /\ rows = lines * w
    BY <1>1, <2>1 DEF AtGroup, Adding
  <2>3. /\ k \in Upto(lines * w) /\ k \div w = line /\ k % w = b
        /\ \A d \in Upto(lines * w) : /\ d \div w \in Nat /\ d \div w < lines
                                      /\ d % w \in Nat /\ d % w < w
                                      /\ d = k <=> d \div w = line /\ d % w = b
    BY ONLY <2>2, BiasPlace
  <2> QED
    BY ONLY <2>1, <2>2, <2>3
<1>3. k \notin BiasSet(rows, w, TRUE, c, line, half)
  BY <1>2 DEF BiasSet, Reached
<1>4. ASSUME NEW d \in Int
      PROVE  LET past == d \in BiasSet(rows, w, TRUE, c, line, half) \/ d = k IN
             /\ half = 0 => (d \in BiasSet(rows, w, TRUE, c, line, 1) <=> past)
             /\ half = 1 => (d \in BiasSet(rows, w, TRUE, c, line + 1, 0) <=> past)
             /\ half = 1 /\ line + 1 = lines =>
                  (d \in BiasSet(rows, w, FALSE, c + 1, line, half) <=> past)
             /\ half = 1 /\ line + 1 = lines /\ c + 1 = 2 * n =>
                  (d \in Upto(rows) <=> past)
  <2>1. CASE d \notin Upto(rows)
    BY <1>2, <2>1 DEF BiasSet
  <2>2. CASE d \in Upto(rows)
    <3>1. PICK l \in Nat, g \in Nat : l = d \div w /\ g = d % w
      BY <1>2, <2>2
    <3>2. /\ l < lines /\ g < 4 * n
          /\ d = k <=> l = line /\ g = 2 * c + half
      BY <1>1, <1>2, <2>2, <3>1
    <3>3. \A adding, x, y, z :
            d \in BiasSet(rows, w, adding, x, y, z) <=> Reached(adding, x, y, z, l, g)
      BY <2>2, <3>1 DEF BiasSet
    <3>4. LET past == Reached(TRUE, c, line, half, l, g) \/ (l = line /\ g = 2 * c + half) IN
          /\ half = 0 => (Reached(TRUE, c, line, 1, l, g) <=> past)
          /\ half = 1 => (Reached(TRUE, c, line + 1, 0, l, g) <=> past)
          /\ half = 1 /\ l <= line => (Reached(FALSE, c + 1, line, half, l, g) <=> past)
          /\ half = 1 /\ l <= line /\ g < 2 * c + 2 => past
      BY ONLY <1>1 DEF Reached
    <3>5. /\ line + 1 = lines => l <= line
          /\ c + 1 = 2 * n => g < 2 * c + 2
      BY ONLY <1>1, <3>2
    <3> QED
      BY ONLY <2>2, <3>2, <3>3, <3>4, <3>5
  <2> QED
    BY <2>1, <2>2
<1>5. ASSUME NEW d \in Int PROVE d \in more <=> d \in old \/ d = k
  <2>1. /\ half = 0 \/ half = 1
        /\ ~(line + 1 < lines) => line + 1 = lines
        /\ ~(c + 1 < 2 * n) => c + 1 = 2 * n
        /\ more = IF half = 0 THEN BiasSet(rows, w, TRUE, c, line, 1)
                  ELSE IF line + 1 < lines THEN BiasSet(rows, w, TRUE, c, line + 1, 0)
                  ELSE IF c + 1 < 2 * n THEN BiasSet(rows, w, FALSE, c + 1, line, half)
                  ELSE Upto(rows)
        /\ old = BiasSet(rows, w, TRUE, c, line, half)
    BY <1>1 DEF Adding
  <2> QED
    BY ONLY <1>4, <2>1
<1> QED
  BY <1>3, <1>2, <1>5 DEF Adding

\* Where the walk of a bias stands, in the rows of the matrix.
LEMMA BiasHere ==
  ASSUME HelperInv, hState \in Bias \union Accum
  PROVE  LET rows == MatrixRows(hJob.dst, hJob)
             at(adding) == BiasSet(rows, 4 * hJob.n, adding, hAt.chunk, hAt.row, hAt.half)
         IN  /\ hJob \in HelperJobs /\ HelperAccepted(hJob)
             /\ hJob.op = "VADD" /\ Helper!IsVaddBias(hJob)
             /\ hJob.src1.buf = "ACCUM" /\ hJob.src2.buf = "WBUF" /\ hJob.dst.buf = "ACCUM"
             /\ hJob.src1.off \in Nat /\ hJob.src2.off \in Nat /\ hJob.dst.off \in Nat
             /\ hJob.n \in Nat /\ hJob.m * Dim \in Nat
             /\ rows \in Nat /\ rows = (hJob.m * Dim) * (4 * hJob.n)
             /\ Helper!Src1Rows(hJob) = rows /\ Helper!DstRows(hJob) = rows
             /\ Helper!Src2Rows(hJob) = 2 * hJob.n
             /\ hAt \in HelperCounters /\ hAt.chunk \in Nat /\ hAt.chunk < 2 * hJob.n
             /\ hAt.row \in Nat /\ hAt.half \in Nat
             /\ hState \in Accum => hAt.row < hJob.m * Dim /\ hAt.half \in {0, 1}
             /\ hState \in Accum => BiasDone = at(TRUE)
             /\ hState \in Bias => BiasDone = at(FALSE)
<1>1. /\ HelperAccepted(hJob) /\ hJob.op = "VADD" /\ Helper!IsVaddBias(hJob)
      /\ hAt.chunk < 2 * hJob.n /\ hAt \in HelperCounters
      /\ hAt.chunk \in Nat /\ hAt.row \in Nat /\ hAt.half \in Nat
      /\ hState \in Accum => hAt.row < hJob.m * Dim /\ hAt.half \in {0, 1}
  BY DEF HelperInv, HelperWalk, Helper!Busy, Bias, Accum, HelperCounters
<1>2. /\ hJob \in HelperJobs
      /\ hJob.src1.buf = "ACCUM" /\ hJob.src2.buf = "WBUF" /\ hJob.dst.buf = "ACCUM"
  BY <1>1 DEF HelperAccepted, Helper!IsVaddBias
<1>3. /\ hJob.src1.off \in Nat /\ hJob.src2.off \in Nat /\ hJob.dst.off \in Nat
      /\ hJob.n \in Nat /\ hJob.m * Dim \in Nat
  BY <1>2, HelperJobTypes, MatrixSize
<1> DEFINE rows == (hJob.m * Dim) * (4 * hJob.n)
<1>4. /\ MatrixRows(hJob.src1, hJob) = rows /\ MatrixRows(hJob.dst, hJob) = rows
      /\ rows \in Nat
  BY <1>2, RowsOfMatrix
<1>5. /\ Helper!Src1Rows(hJob) = rows /\ Helper!Src2Rows(hJob) = 2 * hJob.n
      /\ Helper!DstRows(hJob) = rows
  BY <1>1, <1>2, <1>4, RowsOfMatrix
     DEF Helper!Src1Rows, Helper!Src2Rows, Helper!DstRows, Helper!LineRows
<1> HIDE DEF rows
<1>6. /\ hState \in Accum =>
           BiasDone = BiasSet(rows, 4 * hJob.n, TRUE, hAt.chunk, hAt.row, hAt.half)
      /\ hState \in Bias =>
           BiasDone = BiasSet(rows, 4 * hJob.n, FALSE, hAt.chunk, hAt.row, hAt.half)
  BY <1>4 DEF BiasDone, BiasSet, Reached, Bias, Accum
<1> QED
  BY <1>1, <1>2, <1>3, <1>4, <1>5, <1>6 DEF rows

\* Adding a row of the bias begins with nothing more written.
LEMMA BiasBegins ==
  ASSUME NEW rows \in Nat, NEW w \in Nat, 0 < w, NEW c \in Nat, NEW line, NEW half
  PROVE  \A d \in Int :
           d \in BiasSet(rows, w, FALSE, c, line, half) <=> d \in BiasSet(rows, w, TRUE, c, 0, 0)
<1> TAKE d \in Int
<1>1. CASE d \notin Upto(rows)
  BY <1>1 DEF BiasSet
<1>2. CASE d \in Upto(rows)
  <2>1. d \in Nat
    BY <1>2 DEF Upto
  <2>2. d \div w \in Nat /\ d % w \in 0 .. w - 1
    BY <2>1, DivMod
  <2>3. PICK l \in Nat, g \in Nat : l = d \div w /\ g = d % w
    BY <2>2
  <2>4. Reached(FALSE, c, line, half, l, g) <=> Reached(TRUE, c, 0, 0, l, g)
    BY DEF Reached
  <2> QED
    BY <1>2, <2>3, <2>4 DEF BiasSet
<1> QED
  BY <1>1, <1>2

\* The words and the places of the walk of a bias stay what they are.
LEMMA SameBias ==
  ASSUME hJob' = hJob, before' = before
  PROVE  /\ BiasWords(hJob, before)' = BiasWords(hJob, before)
         /\ MatrixRows(hJob.dst, hJob)' = MatrixRows(hJob.dst, hJob)
         /\ hAt'.chunk = hAt.chunk => Helper!BiasRow' = Helper!BiasRow
         /\ hAt' = hAt => Helper!AccRow(hJob.src1)' = Helper!AccRow(hJob.src1)
BY DEF BiasWords, MatrixRows, LineRows, Group, Sum, Helper!BiasRow, Helper!AccRow,
   Helper!LineRows

\* VADD of a bias: the row of the bias.
LEMMA BiasGoes ==
  ASSUME HelperInv, IsMemory(before), BiasInv,
         hLatch = [scratch |-> hLatch.scratch, bias |-> hLatch.bias,
                   row0 |-> hLatch.row0, row1 |-> hLatch.row1],
         Helper!BiasRequest \/ Helper!BiasLatch, before' = before
  PROVE  hState' \in Bias \union Accum /\ BiasInv'
<1> DEFINE words == BiasWords(hJob, before)
           buf   == hJob.src2.buf
           r     == Helper!BiasRow
           rows  == MatrixRows(hJob.dst, hJob)
           c     == hAt.chunk
           w     == 4 * hJob.n
<1>1. hState \in Bias
  BY DEF Helper!BiasRequest, Helper!BiasLatch, Bias
<1>2. /\ hJob.dst.buf = "ACCUM" /\ buf = "WBUF" /\ hJob.dst.off \in Nat
      /\ hAt \in HelperCounters /\ c \in Nat /\ hJob.n \in Nat /\ c < 2 * hJob.n
      /\ BiasDone = BiasSet(rows, w, FALSE, c, hAt.row, hAt.half) /\ rows \in Nat
  BY <1>1, BiasHere
<1>3. mem = Image(before, hJob.dst, words, BiasDone)
  BY DEF BiasInv
<1>4. r \in 0 .. BufRows[buf] - 1
  BY <1>1, BiasInside DEF Inside
<1> HIDE DEF words, buf, r, rows
<1>5. CASE Helper!BiasRequest
  <2>1. /\ hState' = "VB_LATCH" /\ hJob' = hJob /\ hAt' = hAt /\ mem' = mem
        /\ rdataB' = mem[buf][r]
    BY <1>5 DEF Helper!BiasRequest, Helper!QuietA, Helper!ReadB, Helper!Goto, r, buf
  <2>2. Held(mem, buf, r) = Held(before, buf, r)
    <3>1. buf \in Buffers /\ buf # hJob.dst.buf
      BY <1>2 DEF Buffers
    <3> QED
      BY <1>3, <1>4, <3>1, HeldRow
  <2>3. rdataB' = before[buf][r]
    BY <2>1, <2>2 DEF Held
  <2>4. BiasWords(hJob, before)' = words /\ Helper!BiasRow' = r /\ rows' = rows
    BY <2>1, SameBias DEF words, r, rows
  <2>5. BiasDone' = BiasDone
    BY <1>1, <2>1, <2>4 DEF BiasDone, rows, Accum, Bias
  <2> QED
    BY <1>3, <2>1, <2>3, <2>4, <2>5 DEF BiasInv, Bias, Accum, buf
<1>6. CASE Helper!BiasLatch
  <2>1. /\ hState = "VB_LATCH" /\ hState' = "VACC_READ" /\ hJob' = hJob /\ mem' = mem
        /\ hAt' = [hAt EXCEPT !.row = 0, !.half = 0]
        /\ hLatch' = [hLatch EXCEPT !.bias = rdataB]
    BY <1>6 DEF Helper!BiasLatch, Helper!QuietA, Helper!Goto
  <2>2. hAt'.row = 0 /\ hAt'.half = 0 /\ hAt'.chunk = c
    BY <1>2, <2>1 DEF HelperCounters
  <2>3. hLatch'.bias = rdataB
    BY <2>1
  <2>4. rdataB = before[buf][r]
    BY <2>1 DEF BiasInv, buf, r
  <2>5. BiasWords(hJob, before)' = words /\ Helper!BiasRow' = r /\ rows' = rows
    BY <2>1, <2>2, SameBias DEF words, r, rows
  <2>6. BiasDone' = BiasSet(rows, w, TRUE, c, 0, 0)
    BY <2>1, <2>2, <2>5 DEF BiasDone, BiasSet, Reached, rows, Accum
  <2>7. \A d \in Int : d \in BiasDone <=> d \in BiasDone'
    <3>1. w \in Nat /\ 0 < w
      BY <1>2
    <3> HIDE DEF w, c
    <3> QED
      BY <1>2, <2>6, <3>1, BiasBegins DEF c
  <2>8. mem' = Image(before, hJob.dst, words, BiasDone')
    BY <1>2, <1>3, <2>1, <2>7, ImageSame
  <2> QED
    BY <2>1, <2>3, <2>4, <2>5, <2>8 DEF BiasInv, Bias, Accum, buf
<1> QED
  BY <1>5, <1>6

\* VADD of a bias: the rows it is added to.
LEMMA AccGoes ==
  ASSUME HelperInv, IsMemory(before), BiasInv, Helper!Defined(hJob),
         Helper!AccRead \/ Helper!AccWrite, before' = before
  PROVE  \/ hState' \in Bias \union Accum /\ BiasInv'
         \/ hState' = "IDLE" /\ mem' = Helper!Result(hJob, before)
<1> DEFINE words == BiasWords(hJob, before)
           r     == Helper!AccRow(hJob.src1)
           r2    == Helper!AccRow(hJob.dst)
<1>0. hState \in Accum
  BY DEF Helper!AccRead, Helper!AccWrite, Accum
<1>1. PICK n \in Nat, lines \in Nat, c \in Nat, line \in Nat, half \in {0, 1}, rows \in Nat :
        /\ n = hJob.n /\ lines = hJob.m * Dim /\ rows = MatrixRows(hJob.dst, hJob)
        /\ c = hAt.chunk /\ line = hAt.row /\ half = hAt.half
  BY <1>0, BiasHere
<1> DEFINE w    == 4 * n
           k    == line * w + (2 * c + half)
           more == IF half = 0 THEN BiasSet(rows, w, TRUE, c, line, 1)
                   ELSE IF line + 1 < lines THEN BiasSet(rows, w, TRUE, c, line + 1, 0)
                   ELSE IF c + 1 < 2 * n THEN BiasSet(rows, w, FALSE, c + 1, line, half)
                   ELSE Upto(rows)
<1>2. /\ hJob \in HelperJobs /\ HelperAccepted(hJob)
      /\ hJob.op = "VADD" /\ Helper!IsVaddBias(hJob)
      /\ hJob.src1.buf = "ACCUM" /\ hJob.src2.buf = "WBUF" /\ hJob.dst.buf = "ACCUM"
      /\ hJob.src1.off \in Nat /\ hJob.src2.off \in Nat /\ hJob.dst.off \in Nat
      /\ rows = lines * w
      /\ Helper!Src1Rows(hJob) = rows /\ Helper!DstRows(hJob) = rows
      /\ hAt \in HelperCounters /\ c < 2 * n /\ line < lines
      /\ BiasDone = BiasSet(rows, w, TRUE, c, line, half)
  BY <1>1, <1>0, BiasHere
<1>3. mem = Image(before, hJob.dst, words, BiasDone)
  BY DEF BiasInv
<1>4. /\ r \in 0 .. BufRows[hJob.src1.buf] - 1 /\ r2 \in 0 .. BufRows[hJob.dst.buf] - 1
  BY <1>0, BiasInside DEF Inside
<1>5. /\ k \in Upto(rows) /\ k % w = 2 * c + half /\ k \notin BiasDone
      /\ \A d \in Int : d \in more <=> d \in BiasDone \/ d = k
  <2>1. Adding(n, lines, c, line, half, k, rows, w, BiasDone, more)
    BY <1>2 DEF Adding
  <2> HIDE DEF k, w, more
  <2> QED
    BY ONLY <2>1, AccSets
<1>6. k \in Nat /\ r = hJob.src1.off + k /\ r2 = hJob.dst.off + k
  <2>1. /\ r = hJob.src1.off + line * w + 2 * c + half
        /\ r2 = hJob.dst.off + line * w + 2 * c + half
    BY <1>1 DEF Helper!AccRow, Helper!LineRows
  <2>2. PICK p \in Nat : p = line * w
    BY NatProduct
  <2>3. /\ r = hJob.src1.off + p + 2 * c + half /\ r2 = hJob.dst.off + p + 2 * c + half
        /\ k = p + (2 * c + half) /\ hJob.src1.off \in Nat /\ hJob.dst.off \in Nat
    BY <1>2, <2>1, <2>2
  <2> HIDE DEF k, r, r2
  <2> QED
    BY ONLY <2>3
<1> HIDE DEF words, k, r, r2, w, more
<1>8. CASE Helper!AccRead
  <2>1. /\ hState' = "VACC_WRITE" /\ hJob' = hJob /\ hAt' = hAt /\ mem' = mem
        /\ rdataA' = mem[hJob.src1.buf][r] /\ hLatch' = hLatch
    BY <1>8 DEF Helper!AccRead, Helper!ReadA, Helper!Goto, r
  <2>2. r - hJob.dst.off \notin BiasDone
    <3>1. CASE hJob.src1.off = hJob.dst.off
      <4>1. r - hJob.dst.off = k
        BY <1>2, <1>6, <3>1
      <4> QED
        BY <1>5, <4>1
    <3>2. CASE hJob.src1.off # hJob.dst.off
      <4>1. RowsOf(hJob.src1, rows) \intersect RowsOf(hJob.dst, rows) = {}
        BY <1>2, <3>2 DEF Helper!Defined, RowsOf, Helper!RowsOf
      <4>2. r \in RowsOf(hJob.src1, rows)
        BY <1>2, <1>5, <1>6 DEF RowsOf, Upto
      <4>3. BiasDone \subseteq Upto(rows)
        BY <1>2 DEF BiasSet
      <4>4. r - hJob.dst.off \in Upto(rows) => r \in RowsOf(hJob.dst, rows)
        BY <1>2, <1>6 DEF RowsOf, Upto
      <4> QED
        BY <4>1, <4>2, <4>3, <4>4
    <3> QED
      BY <3>1, <3>2
  <2>3. hJob.src1.buf \in Buffers
    BY <1>2 DEF Buffers
  <2>4. Held(mem, hJob.src1.buf, r) = Held(before, hJob.src1.buf, r)
    BY <1>3, <1>4, <2>2, <2>3, HeldRow
  <2>5. rdataA' = before[hJob.src1.buf][r]
    BY <2>1, <2>4 DEF Held
  <2>6. /\ BiasWords(hJob, before)' = words /\ Helper!BiasRow' = Helper!BiasRow
        /\ Helper!AccRow(hJob.src1)' = r /\ MatrixRows(hJob.dst, hJob)' = rows
    BY <1>1, <2>1, SameBias DEF words, r
  <2>7. BiasDone' = BiasDone
    BY <1>0, <2>1 DEF BiasDone, MatrixRows, LineRows, Accum
  <2>8. hLatch.bias = before[hJob.src2.buf][Helper!BiasRow]
    BY <1>0 DEF BiasInv
  <2> QED
    BY <1>3, <2>1, <2>5, <2>6, <2>7, <2>8 DEF BiasInv, Bias, Accum
<1>9. CASE Helper!AccWrite
  <2> DEFINE word == [x \in 0 .. Group - 1 |-> Sum(rdataA[x], hLatch.bias[half * Group + x])]
  <2>1. /\ hState = "VACC_WRITE" /\ hLatch' = hLatch
        /\ mem' = [mem EXCEPT ![hJob.dst.buf][r2] = word]
    BY <1>1, <1>9 DEF Helper!AccWrite, Helper!WriteA, Helper!Group, Group, Helper!Sum, Sum, r2
  <2>2. /\ rdataA = before[hJob.src1.buf][r]
        /\ hLatch.bias = before[hJob.src2.buf][Helper!BiasRow]
    BY <1>0, <2>1 DEF BiasInv, r
  <2>3. Helper!BiasRow = hJob.src2.off + c
    BY <1>1 DEF Helper!BiasRow
  <2>4. word = words[k]
    <3>1. (k % w) \div 2 = c /\ (k % w) % 2 = half
      <4>1. (2 * c + half) \div 2 = c /\ (2 * c + half) % 2 = half
        BY ONLY half \in {0, 1}
      <4> QED
        BY <1>5, <4>1
    <3>2. k \in 0 .. rows - 1
      BY <1>5 DEF Upto
    <3>3. words[k] = [x \in 0 .. Group - 1 |->
             Sum(before[hJob.src1.buf][hJob.src1.off + k][x],
                 before[hJob.src2.buf][hJob.src2.off + (k % w) \div 2]
                       [((k % w) % 2) * Group + x])]
      BY <1>1, <3>2 DEF words, BiasWords, w
    <3> QED
      BY <1>6, <2>2, <2>3, <3>1, <3>3
  <2> HIDE DEF word
  <2>5. Extends(hJob.dst, BiasDone, k, r2, more)
    BY <1>2, <1>4, <1>5, <1>6 DEF Extends, Buffers
  <2>7. mem' = Image(before, hJob.dst, words, more)
    <3>1. mem' = Put(mem, hJob.dst.buf, r2, word)
      BY <2>1 DEF Put
    <3> QED
      BY <1>3, <2>4, <2>5, <3>1, PutRow
  <2>8. ASSUME hJob' = hJob
        PROVE  BiasWords(hJob, before)' = words /\ MatrixRows(hJob.dst, hJob)' = rows
               /\ (hAt'.chunk = c => Helper!BiasRow' = Helper!BiasRow)
    BY <1>1, <2>8, SameBias DEF words
  <2>9. CASE half = 0
    <3>1. hState' = "VACC_READ" /\ hJob' = hJob /\ hAt' = [hAt EXCEPT !.half = 1]
      BY <1>1, <1>9, <2>9 DEF Helper!AccWrite, Helper!Goto
    <3>2. hAt'.half = 1 /\ hAt'.row = line /\ hAt'.chunk = c
      BY <1>1, <1>2, <3>1 DEF HelperCounters
    <3>3. BiasDone' = more
      BY <1>1, <2>8, <2>9, <3>1, <3>2 DEF BiasDone, BiasSet, Reached, Accum, more, w
    <3> QED
      BY <2>1, <2>2, <2>7, <2>8, <3>1, <3>2, <3>3 DEF BiasInv, Bias, Accum
  <2>10. CASE half = 1 /\ line + 1 < lines
    <3>1. ~(half = 0) /\ ~(line + 1 >= lines)
      BY <1>2, <2>10
    <3>2. hState' = "VACC_READ" /\ hJob' = hJob /\ hAt' = [hAt EXCEPT !.half = 0, !.row = @ + 1]
      BY <1>1, <1>9, <2>10, <3>1 DEF Helper!AccWrite, Helper!Goto
    <3>3. hAt'.half = 0 /\ hAt'.row = line + 1 /\ hAt'.chunk = c
      BY <1>1, <1>2, <3>2 DEF HelperCounters
    <3>4. BiasDone' = more
      BY <1>1, <2>8, <2>10, <3>1, <3>2, <3>3 DEF BiasDone, BiasSet, Reached, Accum, more, w
    <3> QED
      BY <2>1, <2>2, <2>7, <2>8, <3>2, <3>3, <3>4 DEF BiasInv, Bias, Accum
  <2>11. CASE half = 1 /\ ~(line + 1 < lines) /\ c + 1 < 2 * n
    <3>1. ~(half = 0) /\ line + 1 >= lines
      BY <1>2, <2>11
    <3>2. hState' = "VB_REQ" /\ hJob' = hJob /\ hAt' = [hAt EXCEPT !.chunk = @ + 1]
      BY <1>1, <1>9, <2>11, <3>1 DEF Helper!AccWrite, Helper!Goto
    <3>3. hAt'.half = half /\ hAt'.row = line /\ hAt'.chunk = c + 1
      BY <1>1, <1>2, <3>2 DEF HelperCounters
    <3>4. BiasDone' = more
      BY <1>1, <2>8, <2>11, <3>1, <3>2, <3>3 DEF BiasDone, BiasSet, Reached, Accum, more, w
    <3> QED
      BY <2>7, <2>8, <3>2, <3>4 DEF BiasInv, Bias, Accum
  <2>12. CASE half = 1 /\ ~(line + 1 < lines) /\ ~(c + 1 < 2 * n)
    <3>1. line + 1 >= lines
      BY <1>2, <2>12
    <3>2. hState' = "IDLE" /\ hJob' = hJob
      BY <1>1, <1>9, <2>12, <3>1 DEF Helper!AccWrite, Helper!Goto
    <3>3. more = Upto(rows)
      BY <2>12 DEF more
    <3>4. Helper!Result(hJob, before) = Image(before, hJob.dst, words, Upto(rows))
      BY <1>1, <1>2, BiasResult DEF words
    <3> QED
      BY <2>7, <3>2, <3>3, <3>4
  <2> QED
    BY <1>2, <2>9, <2>10, <2>11, <2>12
<1> QED
  BY <1>8, <1>9

\* The rows the transpose has written when it is at a column of a block row:
\* as the walk counts, in lines of bytes, and in blocks.
TransRaw(rows, down, base, column) ==
  {k \in Upto(rows) : \/ (k % down) * Half < base
                      \/ (k % down) * Half = base /\ k \div down < column}
TransSet(rows, down, block, column) ==
  {k \in Upto(rows) : k % down < block \/ (k % down = block /\ k \div down < column)}

\* Multiples in order.
LEMMA Multiples ==
  ASSUME NEW p \in Nat, NEW a \in Nat, NEW h \in Nat, 0 < h
  PROVE  /\ p * h < a * h <=> p < a
         /\ p * h = a * h <=> p = a
<1>1. p * h \in Nat /\ a * h \in Nat
  BY NatProduct
<1>2. p < a => p * h < a * h
  <2>1. p < a => p * h + 0 < a * h
    BY Block
  <2> QED
    BY <1>1, <2>1
<1>3. a < p => a * h < p * h
  <2>1. a < p => a * h + 0 < p * h
    BY Block
  <2> QED
    BY <1>1, <2>1
<1>4. PICK x \in Nat, y \in Nat : x = p * h /\ y = a * h
  BY <1>1
<1>5. (p < a => x < y) /\ (a < p => y < x) /\ (p = a => x = y)
  BY <1>2, <1>3, <1>4
<1>6. /\ x < y <=> p < a
      /\ x = y <=> p = a
  BY ONLY <1>5
<1> QED
  BY <1>4, <1>6

\* Both are the same.
LEMMA TransRows ==
  ASSUME NEW rows \in Nat, NEW down \in Nat, 0 < down, NEW a \in Nat, NEW base, base = a * Half,
         NEW column
  PROVE  TransRaw(rows, down, base, column) = TransSet(rows, down, a, column)
<1>1. Half \in Nat /\ 0 < Half
  BY DimFacts
<1>2. ASSUME NEW k \in Upto(rows)
      PROVE  /\ (k % down) * Half < base <=> k % down < a
             /\ (k % down) * Half = base <=> k % down = a
  <2>1. k \in Nat
    BY <1>2 DEF Upto
  <2>2. k % down \in 0 .. down - 1
    BY <2>1, DivMod
  <2>3. PICK p \in Nat : p = k % down
    BY <2>2
  <2>4. PICK h \in Nat : h = Half /\ 0 < h
    BY <1>1
  <2>5. /\ p * h < a * h <=> p < a
        /\ p * h = a * h <=> p = a
    BY <2>4, Multiples
  <2> QED
    BY <2>3, <2>4, <2>5
<1> QED
  BY <1>2 DEF TransRaw, TransSet

\* The transpose writes a column of a block row, row k of the destination.
Transposing(down, columns, block, column, k, rows) ==
  /\ AtGroup(down, columns, block, column, k)
  /\ rows = columns * down

\* What that makes of the rows it has written.
LEMMA TransSets ==
  ASSUME NEW down \in Nat, NEW columns \in Nat, NEW block \in Nat, NEW column \in Nat,
         NEW k, NEW rows, Transposing(down, columns, block, column, k, rows)
  PROVE  /\ k \in Upto(rows) /\ k % down = block /\ k \div down = column
         /\ \A d \in Int :
              LET now == d \in TransSet(rows, down, block, column + 1) IN
              /\ now <=> d \in TransSet(rows, down, block, column) \/ d = k
              /\ column + 1 >= columns =>
                   (d \in TransSet(rows, down, block + 1, 0) <=> now)
              /\ column + 1 >= columns /\ block + 1 >= down => (d \in Upto(rows) <=> now)
<1>1. block < down /\ column < columns
  BY DEF Transposing, AtGroup
<1>2. /\ k \in Upto(rows) /\ k \div down = column /\ k % down = block
      /\ \A d \in Upto(rows) : /\ d \div down \in Nat /\ d \div down < columns
                               /\ d % down \in Nat /\ d % down < down
                               /\ d = k <=> d \div down = column /\ d % down = block
  <2>1. AtGroup(down, columns, block, column, k) /\ rows = columns * down
    BY DEF Transposing
  <2>2. /\ k \in Upto(columns * down) /\ k \div down = column /\ k % down = block
        /\ \A d \in Upto(columns * down) :
             /\ d \div down \in Nat /\ d \div down < columns
             /\ d % down \in Nat /\ d % down < down
             /\ d = k <=> d \div down = column /\ d % down = block
    BY ONLY <2>1, BiasPlace
  <2> QED
    BY ONLY <2>1, <2>2
<1>3. ASSUME NEW d \in Int
      PROVE  LET now == d \in TransSet(rows, down, block, column + 1) IN
             /\ now <=> d \in TransSet(rows, down, block, column) \/ d = k
             /\ column + 1 >= columns =>
                  (d \in TransSet(rows, down, block + 1, 0) <=> now)
             /\ column + 1 >= columns /\ block + 1 >= down => (d \in Upto(rows) <=> now)
  <2>1. CASE d \notin Upto(rows)
    BY <1>2, <2>1 DEF TransSet
  <2>2. CASE d \in Upto(rows)
    <3>1. PICK q \in Nat, p \in Nat : q = d \div down /\ p = d % down
      BY <1>2, <2>2
    <3>2. /\ q < columns /\ p < down
          /\ d = k <=> q = column /\ p = block
      BY <1>2, <2>2, <3>1
    <3>3. /\ d \in TransSet(rows, down, block, column) <=> p < block \/ (p = block /\ q < column)
          /\ d \in TransSet(rows, down, block, column + 1)
               <=> p < block \/ (p = block /\ q < column + 1)
          /\ d \in TransSet(rows, down, block + 1, 0)
               <=> p < block + 1 \/ (p = block + 1 /\ q < 0)
      BY <2>2, <3>1 DEF TransSet
    <3> QED
      BY ONLY <1>1, <2>2, <3>2, <3>3
  <2> QED
    BY <2>1, <2>2
<1> QED
  BY <1>2, <1>3

\* Where the transpose stands.
LEMMA TransHere ==
  ASSUME HelperInv, hState \in Transp
  PROVE  /\ hJob \in HelperJobs /\ HelperAccepted(hJob)
         /\ hJob.op = "BUF_COPY" /\ hJob.transpose /\ hJob.length # 0
         /\ hJob.src1.buf \in Buffers /\ hJob.dst.buf \in Buffers /\ hJob.src1.buf # hJob.dst.buf
         /\ hJob.src1.off \in Nat /\ hJob.dst.off \in Nat /\ hAt \in HelperCounters
         /\ \E a, b, down, across, columns, rows, src, dst \in Nat :
              /\ hAt.rbase = a * Half /\ a < down /\ hAt.cbase = b * Half /\ b < across
              /\ down = Down(hJob) /\ across = Across(hJob) /\ rows = hJob.length
              /\ columns = Helper!Columns(hJob) /\ columns = across * Half
              /\ Helper!Lines(hJob) = down * Half /\ rows = columns * down
              /\ src = hAt.src /\ src < Half /\ dst = hAt.dst
              /\ hState = "TDST_WRITE" => dst < Half
<1>1. /\ HelperAccepted(hJob) /\ hJob.op = "BUF_COPY" /\ hJob.transpose /\ hJob.length # 0
      /\ hAt \in HelperCounters /\ hAt.src < Half
      /\ hState = "TDST_WRITE" => hAt.dst < Half
  BY DEF HelperInv, HelperWalk, Helper!Busy, Transp
<1>2. hAt.src \in Nat /\ hAt.dst \in Nat
  BY <1>1 DEF HelperCounters
<1>3. PICK a, b \in Nat : /\ a < Down(hJob) /\ hAt.rbase = a * Half
                          /\ b < Across(hJob) /\ hAt.cbase = b * Half
  <2>1. AtBlock(hAt.rbase, hAt.cbase, Down(hJob), Across(hJob))
    BY DEF HelperInv, HelperWalk, Helper!Busy, Transp
  <2>2. Across(hJob) \in Nat /\ Down(hJob) \in Nat
    BY <1>1, TransposeShape, HelperJobTypes DEF HelperAccepted
  <2> QED
    BY <2>1, <2>2, Blocks
<1>4. /\ hJob \in HelperJobs /\ hJob \in Helper!Job /\ ~Helper!Unsupported(hJob)
      /\ hJob.length \in Nat /\ hJob.src1.buf \in Buffers /\ hJob.dst.buf \in Buffers
      /\ hJob.src1.off \in Nat /\ hJob.dst.off \in Nat
  BY <1>1, HelperJobTypes DEF HelperAccepted
<1>5. hJob.src1.buf # hJob.dst.buf
  BY <1>1, <1>4 DEF Helper!Unsupported
<1>6. /\ Across(hJob) \in Nat /\ Down(hJob) \in Nat
      /\ Helper!Columns(hJob) = Across(hJob) * Half /\ Helper!Lines(hJob) = Down(hJob) * Half
      /\ hJob.length = Helper!Columns(hJob) * Down(hJob)
  BY <1>1, <1>4, TransposeShape
<1>7. Helper!Columns(hJob) \in Nat
  BY <1>6, DimFacts, NatProduct
<1>8. \E x, y, down, across, columns, rows, src, dst \in Nat :
              /\ hAt.rbase = x * Half /\ x < down /\ hAt.cbase = y * Half /\ y < across
              /\ down = Down(hJob) /\ across = Across(hJob) /\ rows = hJob.length
              /\ columns = Helper!Columns(hJob) /\ columns = across * Half
              /\ Helper!Lines(hJob) = down * Half /\ rows = columns * down
              /\ src = hAt.src /\ src < Half /\ dst = hAt.dst
              /\ hState = "TDST_WRITE" => dst < Half
  <2> USE <1>2, <1>4, <1>6, <1>7
  <2> WITNESS a \in Nat, b \in Nat, Down(hJob) \in Nat, Across(hJob) \in Nat,
              Helper!Columns(hJob) \in Nat, hJob.length \in Nat, hAt.src \in Nat, hAt.dst \in Nat
  <2> QED
    BY ONLY <1>1, <1>3, <1>6
<1> QED
  BY <1>1, <1>4, <1>5, <1>8

\* The words, the places and the rows written stay what they are.
LEMMA SameTrans ==
  ASSUME hJob' = hJob, before' = before
  PROVE  /\ TransWords(hJob, before)' = TransWords(hJob, before)
         /\ Across(hJob)' = Across(hJob) /\ Down(hJob)' = Down(hJob)
         /\ hAt' = hAt => Helper!TransSrcRow' = Helper!TransSrcRow
BY DEF TransWords, Across, Down, Half, Helper!Columns, Helper!LineBytes, Helper!Lines,
   Helper!Half, Helper!TransSrcRow

\* The rows it has written, in blocks.
LEMMA TransNow ==
  ASSUME NEW rows \in Nat, NEW down \in Nat, 0 < down, NEW a \in Nat, NEW base, base = a * Half,
         NEW column,
         rows = hJob.length, down = Down(hJob), base = hAt.rbase,
         column = hAt.cbase + (IF hState = "TDST_WRITE" THEN hAt.dst ELSE 0)
  PROVE  TransDone = TransSet(rows, down, a, column)
<1>1. TransDone = TransRaw(rows, down, base, column)
  BY DEF TransDone, TransRaw
<1> QED
  BY <1>1, TransRows

\* Line dst of a block of the destination, row k of it, and what belongs there:
\* element dst of the lines of the block in the source.
InBlock(j, a, b, dst, k) ==
  /\ dst < Half /\ k \in Upto(j.length)
  /\ k % Down(j) = a /\ k \div Down(j) = b * Half + dst
BlockWord(j, memory, a, b, dst) ==
  [x \in 0 .. Half - 1 |->
     memory[j.src1.buf][j.src1.off + (a * Half + x) * Across(j) + b][dst]]

\* It does.
LEMMA TransWord ==
  ASSUME NEW j, NEW memory, NEW a \in Nat, NEW b \in Nat, NEW dst \in Nat, NEW k,
         InBlock(j, a, b, dst, k)
  PROVE  TransWords(j, memory)[k] = BlockWord(j, memory, a, b, dst)
<1> USE DEF InBlock
<1>1. (b * Half + dst) \div Half = b /\ (b * Half + dst) % Half = dst
  BY BlockDivMod, DimFacts
<1>2. k \in 0 .. j.length - 1
  BY DEF Upto
<1>3. TransWords(j, memory)[k] =
        [x \in 0 .. Half - 1 |->
           memory[j.src1.buf][j.src1.off + ((k % Down(j)) * Half + x) * Across(j)
                                         + (k \div Down(j)) \div Half][(k \div Down(j)) % Half]]
  BY <1>2 DEF TransWords
<1> QED
  BY <1>1, <1>3 DEF BlockWord

\* BUF_COPY with transposition: a block of the source goes into the registers.
LEMMA TransReads ==
  ASSUME HelperInv, IsMemory(before), TransInv,
         hLatch = [scratch |-> [i \in 0 .. Half - 1 |-> hLatch.scratch[i]], bias |-> hLatch.bias,
                   row0 |-> hLatch.row0, row1 |-> hLatch.row1],
         Helper!TransRequest \/ Helper!TransLatch, before' = before
  PROVE  hState' \in Transp /\ TransInv'
<1> DEFINE words == TransWords(hJob, before)
           buf   == hJob.src1.buf
           r     == Helper!TransSrcRow
           src   == hAt.src
<1>1. hState \in {"TSRC_REQ", "TSRC_LATCH"} /\ hState \in Transp
  BY DEF Helper!TransRequest, Helper!TransLatch, Transp
<1>2. /\ buf \in Buffers /\ buf # hJob.dst.buf /\ hAt \in HelperCounters
      /\ src \in Nat /\ src < Half
  BY <1>1, TransHere
<1>3. r \in 0 .. BufRows[buf] - 1
  BY <1>1, TransposeInside DEF Inside
<1>4. /\ mem = Image(before, hJob.dst, words, TransDone)
      /\ hState = "TSRC_LATCH" => rdataA = before[buf][r]
      /\ \A i \in 0 .. Half - 1 : i < src =>
           hLatch.scratch[i] = before[buf]
              [hJob.src1.off + (hAt.rbase + i) * Across(hJob) + hAt.cbase \div Half]
  BY <1>1 DEF TransInv
<1>5. r = hJob.src1.off + (hAt.rbase + src) * Across(hJob) + hAt.cbase \div Half
  BY DEF Helper!TransSrcRow, Across, Helper!Half, Half
<1> HIDE DEF words, buf, r, src
<1>6. CASE Helper!TransRequest
  <2>1. /\ hState = "TSRC_REQ" /\ hState' = "TSRC_LATCH" /\ hJob' = hJob /\ hAt' = hAt
        /\ mem' = mem /\ rdataA' = mem[buf][r] /\ hLatch' = hLatch
    BY <1>6 DEF Helper!TransRequest, Helper!ReadA, Helper!Goto, r, buf
  <2>2. Held(mem, buf, r) = Held(before, buf, r)
    BY <1>2, <1>3, <1>4, HeldRow
  <2>3. rdataA' = before[buf][r]
    BY <2>1, <2>2 DEF Held
  <2>4. /\ TransWords(hJob, before)' = words /\ Across(hJob)' = Across(hJob)
        /\ Down(hJob)' = Down(hJob) /\ Helper!TransSrcRow' = r
    BY <2>1, SameTrans DEF words, r
  <2>5. TransDone' = TransDone
    BY <2>1, <2>4 DEF TransDone, Half
  <2>6. Half' = Half
    BY DEF Half
  <2> QED
    BY <1>4, <2>1, <2>3, <2>4, <2>5, <2>6 DEF TransInv, Transp, buf, src
<1>7. CASE Helper!TransLatch
  <2>1. /\ hState = "TSRC_LATCH" /\ hState' \in Transp /\ hJob' = hJob /\ mem' = mem
        /\ hLatch' = [hLatch EXCEPT !.scratch[src] = rdataA]
        /\ \/ src + 1 >= Half /\ hState' = "TDST_WRITE" /\ hAt' = [hAt EXCEPT !.dst = 0]
           \/ src + 1 < Half /\ hState' = "TSRC_REQ" /\ hAt' = [hAt EXCEPT !.src = @ + 1]
    <3>1. Helper!Half = Half /\ Half \in Nat
      BY DimFacts DEF Helper!Half, Half
    <3> QED
      BY <1>2, <1>7, <3>1 DEF Helper!TransLatch, Helper!QuietA, Helper!Goto, Transp, src
  <2>2. /\ hAt'.rbase = hAt.rbase /\ hAt'.cbase = hAt.cbase
        /\ hState' = "TDST_WRITE" => hAt'.dst = 0 /\ src + 1 >= Half
        /\ hState' # "TDST_WRITE" => hAt'.src = src + 1
    <3>1. CASE src + 1 >= Half /\ hState' = "TDST_WRITE" /\ hAt' = [hAt EXCEPT !.dst = 0]
      BY <1>2, <3>1 DEF HelperCounters
    <3>2. CASE src + 1 < Half /\ hState' = "TSRC_REQ" /\ hAt' = [hAt EXCEPT !.src = @ + 1]
      BY <1>2, <3>2 DEF HelperCounters, src
    <3> QED
      BY <2>1, <3>1, <3>2
  <2>3. \A i \in 0 .. Half - 1 :
          hLatch'.scratch[i] = IF i = src THEN rdataA ELSE hLatch.scratch[i]
    <3>1. PICK scratch, bias, row0, row1 :
            hLatch = [scratch |-> [i \in 0 .. Half - 1 |-> scratch[i]], bias |-> bias,
                      row0 |-> row0, row1 |-> row1]
      OBVIOUS
    <3>2. hLatch'.scratch = [hLatch.scratch EXCEPT ![src] = rdataA]
      BY ONLY <2>1, <3>1
    <3>3. DOMAIN hLatch.scratch = 0 .. Half - 1
      BY ONLY <3>1
    <3> QED
      BY <3>2, <3>3
  <2>4. /\ TransWords(hJob, before)' = words /\ Across(hJob)' = Across(hJob)
        /\ Down(hJob)' = Down(hJob) /\ Half' = Half
    BY <2>1, SameTrans DEF words, Half
  <2>5. TransDone' = TransDone
    <3>1. hAt.cbase + 0 = hAt.cbase
      BY <1>2 DEF HelperCounters
    <3> QED
      BY <2>1, <2>2, <2>4, <3>1 DEF TransDone
  <2>6. rdataA = before[buf][r]
    BY <1>4, <2>1
  <2>7. ASSUME NEW i \in 0 .. Half - 1, i < hAt'.src \/ hState' = "TDST_WRITE"
        PROVE  hLatch'.scratch[i] = before[buf]
                 [hJob.src1.off + (hAt.rbase + i) * Across(hJob) + hAt.cbase \div Half]
    <3>1. i < src \/ i = src
      <4>1. Half \in Nat /\ i < Half
        BY DimFacts
      <4> QED
        BY <1>2, <2>2, <2>7, <4>1
    <3> QED
      BY <1>4, <1>5, <2>3, <2>6, <3>1
  <2>8. hState' # "TSRC_LATCH"
    BY <2>1
  <2> QED
    BY <1>4, <2>1, <2>2, <2>4, <2>5, <2>7, <2>8 DEF TransInv, buf
<1> QED
  BY <1>6, <1>7

\* The registers go into a line of the destination.
LEMMA TransGoes ==
  ASSUME HelperInv, IsMemory(before), TransInv, CopiesKeepWidth, Helper!TransWrite,
         before' = before
  PROVE  \/ hState' \in Transp /\ TransInv'
         \/ hState' = "IDLE" /\ mem' = Helper!Result(hJob, before)
<1> DEFINE words == TransWords(hJob, before)
           r     == Helper!TransDstRow
<1>1. hState = "TDST_WRITE" /\ hState \in Transp
  BY DEF Helper!TransWrite, Transp
<1>2. PICK a, b, down, across, columns, rows, src, dst \in Nat :
        /\ hAt.rbase = a * Half /\ a < down /\ hAt.cbase = b * Half /\ b < across
        /\ down = Down(hJob) /\ across = Across(hJob) /\ rows = hJob.length
        /\ columns = Helper!Columns(hJob) /\ columns = across * Half
        /\ Helper!Lines(hJob) = down * Half /\ rows = columns * down
        /\ src = hAt.src /\ src < Half /\ dst = hAt.dst /\ dst < Half
  <2>1. PICK a, b, down, across, columns, rows, src, dst \in Nat :
          /\ hAt.rbase = a * Half /\ a < down /\ hAt.cbase = b * Half /\ b < across
          /\ down = Down(hJob) /\ across = Across(hJob) /\ rows = hJob.length
          /\ columns = Helper!Columns(hJob) /\ columns = across * Half
          /\ Helper!Lines(hJob) = down * Half /\ rows = columns * down
          /\ src = hAt.src /\ src < Half /\ dst = hAt.dst
          /\ hState = "TDST_WRITE" => dst < Half
    BY <1>1, TransHere
  <2> QED
    BY <1>1, <2>1
<1>3. /\ hJob \in HelperJobs /\ HelperAccepted(hJob)
      /\ hJob.op = "BUF_COPY" /\ hJob.transpose /\ hJob.length # 0
      /\ hJob.dst.buf \in Buffers /\ hJob.dst.off \in Nat /\ hAt \in HelperCounters
  BY <1>1, TransHere
<1>4. Half \in Nat /\ 0 < Half /\ Helper!Half = Half
  BY DimFacts DEF Helper!Half, Half
<1>5. PICK column \in Nat : column = b * Half + dst
  BY <1>2, <1>4, NatProduct
<1>6. column < columns
  BY <1>2, <1>4, <1>5, Block
<1>7. PICK k \in Nat : k = column * down + a
  BY NatProduct
<1>8. r = hJob.dst.off + k
  <2>1. (a * Half) \div Half = a
    BY <1>4, Quotient
  <2>2. r = hJob.dst.off + column * down + a
    BY <1>2, <1>4, <1>5, <2>1 DEF Helper!TransDstRow, Down
  <2>3. PICK p \in Nat : p = column * down
    BY NatProduct
  <2>4. r = hJob.dst.off + p + a /\ k = p + a /\ hJob.dst.off \in Nat
    BY <1>3, <1>7, <2>2, <2>3
  <2> HIDE DEF r
  <2> QED
    BY ONLY <2>4
<1>9. r \in 0 .. BufRows[hJob.dst.buf] - 1
  BY <1>1, TransposeInside DEF Inside
<1>10. Transposing(down, columns, a, column, k, rows)
  BY <1>2, <1>6, <1>7 DEF Transposing, AtGroup
<1> DEFINE past(d) == d \in TransSet(rows, down, a, column) \/ d = k
<1>11. /\ k \in Upto(rows) /\ k % down = a /\ k \div down = column
       /\ \A d \in Int :
            /\ d \in TransSet(rows, down, a, column + 1) <=> past(d)
            /\ column + 1 >= columns => (d \in TransSet(rows, down, a + 1, 0) <=> past(d))
            /\ column + 1 >= columns /\ a + 1 >= down => (d \in Upto(rows) <=> past(d))
  BY ONLY <1>10, TransSets
<1>12. TransDone = TransSet(rows, down, a, column)
  BY <1>1, <1>2, <1>5, TransNow
<1>13. mem = Image(before, hJob.dst, words, TransDone)
  BY DEF TransInv
<1> HIDE DEF words, r
<1> DEFINE word == [i \in 0 .. Half - 1 |-> hLatch.scratch[i][dst]]
<1>14. /\ mem' = [mem EXCEPT ![hJob.dst.buf][r] = word] /\ hLatch' = hLatch
  BY <1>2, <1>4 DEF Helper!TransWrite, Helper!WriteA, r
<1>15. word = words[k]
  <2>1. (b * Half) \div Half = b
    BY <1>4, Quotient
  <2>2. \A i \in 0 .. Half - 1 :
          hLatch.scratch[i] = before[hJob.src1.buf][hJob.src1.off + (a * Half + i) * across + b]
    BY <1>1, <1>2, <2>1 DEF TransInv
  <2>3. words[k] = [x \in 0 .. Half - 1 |->
           before[hJob.src1.buf][hJob.src1.off + (a * Half + x) * across + b][dst]]
    <3>1. InBlock(hJob, a, b, dst, k)
      BY <1>2, <1>5, <1>11 DEF InBlock
    <3>2. TransWords(hJob, before)[k] = BlockWord(hJob, before, a, b, dst)
      BY ONLY <3>1, TransWord
    <3> QED
      BY <1>2, <3>2 DEF words, BlockWord
  <2> QED
    BY <2>2, <2>3
<1> HIDE DEF word
<1>16. ASSUME NEW more, \A d \in Int : d \in more <=> past(d)
       PROVE  mem' = Image(before, hJob.dst, words, more)
  <2>1. Extends(hJob.dst, TransDone, k, r, more)
    BY <1>3, <1>8, <1>9, <1>12, <1>16 DEF Extends
  <2>2. mem' = Put(mem, hJob.dst.buf, r, word)
    BY <1>14 DEF Put
  <2> QED
    BY <1>13, <1>15, <2>1, <2>2, PutRow
<1> HIDE DEF past
<1>17. ASSUME hJob' = hJob
       PROVE  /\ TransWords(hJob, before)' = words /\ Across(hJob)' = across
              /\ Down(hJob)' = down
  BY <1>2, <1>17, SameTrans DEF words
<1>18. CASE dst + 1 < Half
  <2>1. hAt' = [hAt EXCEPT !.dst = dst + 1] /\ hState' = "TDST_WRITE" /\ hJob' = hJob
    BY <1>2, <1>4, <1>18 DEF Helper!TransWrite, Helper!Goto
  <2>2. hAt'.dst = dst + 1 /\ hAt'.rbase = hAt.rbase /\ hAt'.cbase = hAt.cbase
    BY <1>3, <2>1 DEF HelperCounters
  <2>3. TransDone' = TransSet(rows, down, a, column + 1)
    <3>1. column + 1 = hAt.cbase + (dst + 1)
      BY <1>2, <1>3, <1>5 DEF HelperCounters
    <3>2. TransDone' = TransRaw(rows, down, hAt.rbase, column + 1)
      BY <1>2, <1>17, <2>1, <2>2, <3>1 DEF TransDone, TransRaw, Half
    <3> QED
      BY <1>2, <3>2, TransRows
  <2>4. mem' = Image(before, hJob.dst, words, TransDone')
    BY <1>11, <1>16, <2>3
  <2> QED
    BY <1>1, <1>2, <1>14, <1>17, <2>1, <2>2, <2>4 DEF TransInv, Transp, Half
<1>19. CASE ~(dst + 1 < Half)
  <2>1. Helper!NextBlock
    BY <1>2, <1>4, <1>19 DEF Helper!TransWrite
  <2>2. column + 1 = hAt.cbase + Half
    BY <1>2, <1>3, <1>4, <1>5, <1>19 DEF HelperCounters
  <2>3. CASE hAt.cbase + Half < columns
    <3>1. /\ hAt' = [hAt EXCEPT !.cbase = @ + Half, !.src = 0] /\ hState' = "TSRC_REQ"
          /\ hJob' = hJob
      BY <1>2, <1>4, <2>1, <2>3 DEF Helper!NextBlock, Helper!Goto
    <3>2. hAt'.rbase = hAt.rbase /\ hAt'.cbase = column + 1 /\ hAt'.src = 0
      BY <1>3, <2>2, <3>1 DEF HelperCounters
    <3>3. TransDone' = TransSet(rows, down, a, column + 1)
      <4>1. column + 1 = hAt'.cbase + 0
        BY <3>2
      <4>2. TransDone' = TransRaw(rows, down, hAt.rbase, column + 1)
        BY <1>2, <1>17, <3>1, <3>2, <4>1 DEF TransDone, TransRaw, Half
      <4> QED
        BY <1>2, <4>2, TransRows
    <3>4. mem' = Image(before, hJob.dst, words, TransDone')
      BY <1>11, <1>16, <3>3
    <3> QED
      BY <1>4, <1>17, <3>1, <3>2, <3>4 DEF TransInv, Transp, Half
  <2>4. CASE ~(hAt.cbase + Half < columns) /\ hAt.rbase + Half < down * Half
    <3>1. /\ hAt' = [hAt EXCEPT !.rbase = @ + Half, !.cbase = 0, !.src = 0]
          /\ hState' = "TSRC_REQ" /\ hJob' = hJob
      BY <1>2, <1>4, <2>1, <2>4 DEF Helper!NextBlock, Helper!Goto
    <3>2. hAt'.rbase = hAt.rbase + Half /\ hAt'.cbase = 0 /\ hAt'.src = 0
      BY <1>3, <3>1 DEF HelperCounters
    <3>3. hAt'.rbase = (a + 1) * Half
      <4>1. a * Half + Half = (a + 1) * Half
        BY <1>4
      <4> QED
        BY <1>2, <3>2, <4>1
    <3>4. TransDone' = TransSet(rows, down, a + 1, 0)
      <4>1. 0 = hAt'.cbase + 0
        BY <3>2
      <4>2. TransDone' = TransRaw(rows, down, hAt'.rbase, 0)
        BY <1>2, <1>17, <3>1, <3>2, <4>1 DEF TransDone, TransRaw, Half
      <4> QED
        BY <1>2, <3>3, <4>2, TransRows
    <3>5. column + 1 >= columns
      BY <1>2, <2>2, <2>4
    <3>6. mem' = Image(before, hJob.dst, words, TransDone')
      BY <1>11, <1>16, <3>4, <3>5
    <3> QED
      BY <1>4, <1>17, <3>1, <3>2, <3>6 DEF TransInv, Transp, Half
  <2>5. CASE ~(hAt.cbase + Half < columns) /\ ~(hAt.rbase + Half < down * Half)
    <3>1. hState' = "IDLE" /\ hJob' = hJob
      BY <1>2, <1>4, <2>1, <2>5 DEF Helper!NextBlock, Helper!Goto
    <3>2. column + 1 >= columns
      BY <1>2, <2>2, <2>5
    <3>3. a + 1 >= down
      <4>1. CASE a + 1 < down
        <5>1. (a + 1) * Half + 0 < down * Half
          BY <1>4, <4>1, Block
        <5>2. a * Half + Half = (a + 1) * Half
          BY <1>4
        <5>3. PICK p \in Nat : p = (a + 1) * Half
          BY <1>4, NatProduct
        <5> QED
          BY <1>2, <2>5, <5>1, <5>2, <5>3
      <4> QED
        BY <4>1
    <3>4. mem' = Image(before, hJob.dst, words, Upto(rows))
      BY <1>11, <1>16, <3>2, <3>3
    <3>5. hJob.src1.buf = "ACCUM" <=> hJob.dst.buf = "ACCUM"
      BY <1>3 DEF CopiesKeepWidth
    <3>6. Helper!Result(hJob, before) = Image(before, hJob.dst, words, Upto(rows))
      BY <1>2, <1>3, <3>5, TransResult DEF words
    <3> QED
      BY <3>1, <3>4, <3>6
  <2> QED
    BY <2>3, <2>4, <2>5
<1> QED
  BY <1>18, <1>19

-----------------------------------------------------------------------------
(* What lies in memory and in the registers keeps its shape.               *)

\* A row of elements written inside a buffer.
Written(memory, buf, row, word) ==
  /\ IsMemory(memory) /\ buf \in Buffers /\ row \in 0 .. BufRows[buf] - 1
  /\ IsRow(buf, word)

\* It leaves a memory.
LEMMA WrittenShape ==
  ASSUME NEW memory, NEW buf, NEW row, NEW word, Written(memory, buf, row, word)
  PROVE  IsMemory(Put(memory, buf, row, word))
<1>1. IsMemory([memory EXCEPT ![buf][row] = word])
  BY WriteShape DEF Written
<1> QED
  BY <1>1 DEF Put

\* The word a walk of the helper engine writes, and where.
LEMMA HelperWrites ==
  ASSUME HelperInv, ShapeInv, CopiesKeepWidth,
         \/ Helper!FlatWrite \/ Helper!TransWrite \/ Helper!V16Write \/ Helper!AccWrite
         \/ Helper!ScaleWrite \/ Helper!NarrowWrite
  PROVE  IsMemory(mem')
<1>1. SUFFICES ASSUME NEW row, NEW word, Inside(<<hJob.dst.buf, row>>), IsRow(hJob.dst.buf, word),
                      hJob.dst.buf \in Buffers,
                      mem' = [mem EXCEPT ![hJob.dst.buf][row] = word]
               PROVE  IsMemory(mem')
  <2>1. Helper!Busy /\ HelperAccepted(hJob)
    BY DEF HelperInv, Helper!Busy, Helper!FlatWrite, Helper!TransWrite, Helper!V16Write,
       Helper!AccWrite, Helper!ScaleWrite, Helper!NarrowWrite
  <2>2. hJob \in HelperJobs /\ hJob.dst.buf \in Buffers
    BY <2>1, HelperJobTypes DEF HelperAccepted
  <2>3. /\ Helper!Half = Half /\ Helper!Group = Group
        /\ Lanes(hJob.dst.buf) = IF hJob.dst.buf = "ACCUM" THEN Group ELSE Half
    BY DEF Helper!Half, Half, Helper!Group, Group, Lanes
  <2>4. CASE Helper!FlatWrite
    <3>1. /\ hState \in Flat /\ hState = "FLAT_WRITE"
          /\ mem' = [mem EXCEPT ![hJob.dst.buf][Helper!FlatRow(hJob.dst)] = rdataA]
      BY <2>4 DEF Helper!FlatWrite, Helper!WriteA, Flat
    <3>2. IsRow(hJob.dst.buf, rdataA)
      BY <3>1 DEF ShapeInv
    <3>3. Inside(<<hJob.dst.buf, Helper!FlatRow(hJob.dst)>>)
      BY <3>1, FlatInside
    <3> QED
      BY <1>1, <2>2, <3>1, <3>2, <3>3
  <2>5. CASE Helper!TransWrite
    <3> DEFINE word == [i \in 0 .. Half - 1 |-> hLatch.scratch[i][hAt.dst]]
    <3>1. /\ hState \in Transp /\ hState = "TDST_WRITE"
          /\ mem' = [mem EXCEPT ![hJob.dst.buf][Helper!TransDstRow] = word]
      BY <2>3, <2>5 DEF Helper!TransWrite, Helper!WriteA, Transp
    <3>2. hJob.dst.buf # "ACCUM"
      BY <3>1, TransHere DEF CopiesKeepWidth
    <3>3. IsRow(hJob.dst.buf, word)
      BY <2>3, <3>2 DEF IsRow
    <3>4. Inside(<<hJob.dst.buf, Helper!TransDstRow>>)
      BY <3>1, TransposeInside
    <3> HIDE DEF word
    <3> QED
      BY <1>1, <2>2, <3>1, <3>3, <3>4
  <2>6. CASE Helper!V16Write
    <3> DEFINE word == [l \in 0 .. Half - 1 |-> Helper!Fp16(Helper!Sum(rdataB[l], rdataA[l]))]
    <3>1. /\ hState \in Vadd16
          /\ mem' = [mem EXCEPT ![hJob.dst.buf][Helper!StepRow(hJob.dst)] = word]
      BY <2>3, <2>6 DEF Helper!V16Write, Helper!WriteA, Vadd16
    <3>2. hJob.dst.buf = "ABUF"
      BY <2>1, <3>1 DEF HelperInv, HelperWalk, Helper!IsVaddFp16
    <3>3. IsRow(hJob.dst.buf, word)
      BY <2>3, <3>2 DEF IsRow
    <3>4. Inside(<<hJob.dst.buf, Helper!StepRow(hJob.dst)>>)
      BY <3>1, V16Inside
    <3> HIDE DEF word
    <3> QED
      BY <1>1, <2>2, <3>1, <3>3, <3>4
  <2>7. CASE Helper!AccWrite
    <3> DEFINE word == [l \in 0 .. Group - 1 |->
                         Helper!Sum(rdataA[l], hLatch.bias[hAt.half * Group + l])]
    <3>1. /\ hState \in Accum
          /\ mem' = [mem EXCEPT ![hJob.dst.buf][Helper!AccRow(hJob.dst)] = word]
      BY <2>3, <2>7 DEF Helper!AccWrite, Helper!WriteA, Accum
    <3>2. hJob.dst.buf = "ACCUM"
      BY <2>1, <3>1 DEF HelperInv, HelperWalk, Helper!IsVaddBias
    <3>3. IsRow(hJob.dst.buf, word)
      BY <2>3, <3>2 DEF IsRow
    <3>4. Inside(<<hJob.dst.buf, Helper!AccRow(hJob.dst)>>)
      BY <3>1, BiasInside
    <3> HIDE DEF word
    <3> QED
      BY <1>1, <2>2, <3>1, <3>3, <3>4
  <2>8. CASE Helper!ScaleWrite
    <3> DEFINE word == [l \in 0 .. Lanes(hJob.src1.buf) - 1 |->
                         Helper!ScaleOf(hJob.src1.buf, rdataB[l])]
    <3>1. /\ hState \in ScaleW
          /\ mem' = [mem EXCEPT ![hJob.dst.buf][Helper!StepRow(hJob.dst)] = word]
      BY <2>8 DEF Helper!ScaleWrite, Helper!WriteA, ScaleW, Helper!Lanes, Lanes, Helper!Half, Half,
         Helper!Group, Group
    <3>2. Lanes(hJob.src1.buf) = Lanes(hJob.dst.buf)
      <4>1. hJob.op = "SCALE_MUL" /\ ~Helper!Narrows(hJob) /\ ~Helper!Unsupported(hJob)
        BY <2>1, <3>1 DEF HelperInv, HelperWalk, HelperAccepted
      <4> QED
        BY <4>1 DEF Helper!Narrows, Helper!Unsupported, Lanes
    <3>3. IsRow(hJob.dst.buf, word)
      BY <3>2 DEF IsRow
    <3>4. Inside(<<hJob.dst.buf, Helper!StepRow(hJob.dst)>>)
      BY <3>1, ScaleInside
    <3> HIDE DEF word
    <3> QED
      BY <1>1, <2>2, <3>1, <3>3, <3>4
  <2>9. CASE Helper!NarrowWrite
    <3> DEFINE word == [l \in 0 .. Half - 1 |->
                         Helper!Fp16(Helper!Scaled(IF l < Group THEN hLatch.row0[l]
                                                   ELSE hLatch.row1[l - Group]))]
    <3>1. /\ hState \in NarrowW
          /\ mem' = [mem EXCEPT ![hJob.dst.buf][Helper!StepRow(hJob.dst)] = word]
      BY <2>3, <2>9 DEF Helper!NarrowWrite, Helper!WriteA, NarrowW
    <3>2. hJob.dst.buf # "ACCUM"
      BY <2>1, <3>1 DEF HelperInv, HelperWalk, Helper!Narrows
    <3>3. IsRow(hJob.dst.buf, word)
      BY <2>3, <3>2 DEF IsRow
    <3>4. Inside(<<hJob.dst.buf, Helper!StepRow(hJob.dst)>>)
      BY <3>1, NarrowInside
    <3> HIDE DEF word
    <3> QED
      BY <1>1, <2>2, <3>1, <3>3, <3>4
  <2> QED
    BY <2>4, <2>5, <2>6, <2>7, <2>8, <2>9
<1>2. Written(mem, hJob.dst.buf, row, word)
  BY <1>1 DEF Written, ShapeInv, Inside
<1>3. mem' = Put(mem, hJob.dst.buf, row, word)
  BY <1>1 DEF Put
<1> QED
  BY <1>2, <1>3, WrittenShape

\* So do the memory and the registers of the helper engine as it works.
LEMMA HelperShape ==
  ASSUME HelperInv, ShapeInv, CopiesKeepWidth, HelperWork, sState = "IDLE"
  PROVE  ShapeInv'
<1>1. before' = before /\ sLatch' = sLatch /\ sState' = "IDLE"
  BY DEF HelperWork, sfu, history
<1>2. IsMemory(mem')
  <2>1. CASE \/ Helper!FlatRead \/ Helper!TransRequest \/ Helper!TransLatch \/ Helper!V16Read
             \/ Helper!BiasRequest \/ Helper!BiasLatch \/ Helper!AccRead
             \/ Helper!ScaleRequest \/ Helper!NarrowRequest \/ Helper!NarrowLatch
    <3>1. mem' = mem
      BY <2>1 DEF Helper!FlatRead, Helper!TransRequest, Helper!TransLatch, Helper!V16Read,
         Helper!BiasRequest, Helper!BiasLatch, Helper!AccRead, Helper!ScaleRequest,
         Helper!NarrowRequest, Helper!NarrowLatch, Helper!ReadA, Helper!QuietA
    <3> QED
      BY <3>1 DEF ShapeInv
  <2>2. CASE \/ Helper!FlatWrite \/ Helper!TransWrite \/ Helper!V16Write \/ Helper!AccWrite
             \/ Helper!ScaleWrite \/ Helper!NarrowWrite
    BY <2>2, HelperWrites
  <2> QED
    BY <2>1, <2>2 DEF HelperWork, Helper!Work
<1>3. IsMemory(before') /\ IsMemory(mem)' /\ IsMemory(before)'
  BY <1>1, <1>2 DEF ShapeInv
<1>4. hLatch' = [scratch |-> [i \in 0 .. Half - 1 |-> hLatch'.scratch[i]],
                 bias |-> hLatch'.bias, row0 |-> hLatch'.row0, row1 |-> hLatch'.row1]
  <2>1. PICK scratch, bias, row0, row1 :
          hLatch = [scratch |-> [i \in 0 .. Half - 1 |-> scratch[i]], bias |-> bias,
                    row0 |-> row0, row1 |-> row1]
    BY DEF ShapeInv
  <2>2. \/ hLatch' = hLatch
        \/ hLatch' = [hLatch EXCEPT !.scratch[hAt.src] = rdataA]
        \/ hLatch' = [hLatch EXCEPT !.bias = rdataB]
        \/ hLatch' = [hLatch EXCEPT !.row0 = rdataB]
        \/ hLatch' = [hLatch EXCEPT !.row1 = rdataB]
    BY DEF HelperWork, Helper!Work, Helper!FlatRead, Helper!TransRequest, Helper!TransLatch,
       Helper!V16Read, Helper!BiasRequest, Helper!BiasLatch, Helper!AccRead, Helper!ScaleRequest,
       Helper!NarrowRequest, Helper!NarrowLatch, Helper!FlatWrite, Helper!TransWrite,
       Helper!V16Write, Helper!AccWrite, Helper!ScaleWrite, Helper!NarrowWrite
  <2>3. CASE hLatch' = hLatch
    BY ONLY <2>1, <2>3
  <2>4. CASE hLatch' = [hLatch EXCEPT !.scratch[hAt.src] = rdataA]
    BY ONLY <2>1, <2>4
  <2>5. CASE hLatch' = [hLatch EXCEPT !.bias = rdataB]
    BY ONLY <2>1, <2>5
  <2>6. CASE hLatch' = [hLatch EXCEPT !.row0 = rdataB]
    BY ONLY <2>1, <2>6
  <2>7. CASE hLatch' = [hLatch EXCEPT !.row1 = rdataB]
    BY ONLY <2>1, <2>7
  <2> QED
    BY <2>2, <2>3, <2>4, <2>5, <2>6, <2>7
<1>5. hState' = "FLAT_WRITE" => IsRow(hJob'.dst.buf, rdataA')
  <2> SUFFICES ASSUME hState' = "FLAT_WRITE" PROVE IsRow(hJob'.dst.buf, rdataA')
    OBVIOUS
  <2>1. Helper!FlatRead
    BY DEF HelperWork, Helper!Work, Helper!FlatRead, Helper!TransRequest, Helper!TransLatch,
       Helper!V16Read, Helper!BiasRequest, Helper!BiasLatch, Helper!AccRead, Helper!ScaleRequest,
       Helper!NarrowRequest, Helper!NarrowLatch, Helper!FlatWrite, Helper!TransWrite,
       Helper!V16Write, Helper!AccWrite, Helper!ScaleWrite, Helper!NarrowWrite, Helper!NextStep,
       Helper!NextBlock, Helper!Goto
  <2>2. /\ hState \in Flat /\ Helper!Busy /\ hJob' = hJob
        /\ rdataA' = mem[hJob.src1.buf][Helper!FlatRow(hJob.src1)]
    BY <2>1 DEF Helper!FlatRead, Helper!ReadA, Helper!Goto, Flat, Helper!Busy
  <2>3. hJob \in HelperJobs /\ hJob.op = "BUF_COPY"
    BY <2>2 DEF HelperInv, HelperWalk, HelperAccepted
  <2>4. hJob.src1.buf \in Buffers
    BY <2>3, HelperJobTypes
  <2>5. Lanes(hJob.src1.buf) = Lanes(hJob.dst.buf)
    BY <2>3 DEF CopiesKeepWidth, Lanes
  <2>6. IsRow(hJob.src1.buf, rdataA')
    BY <2>2, <2>4, FlatInside, MemoryShape DEF ShapeInv, Inside
  <2> QED
    BY <2>2, <2>5, <2>6 DEF IsRow
<1>6. Half' = Half
  BY DEF Half
<1> QED
  BY <1>1, <1>3, <1>4, <1>5, <1>6 DEF ShapeInv

-----------------------------------------------------------------------------
(* The helper engine as a whole.                                           *)

\* A step of a walk keeps its part of the invariant, or ends with the result.
LEMMA HelperGoes ==
  ASSUME HelperInv, ShapeInv, CopiesKeepWidth, HelperProgress, HelperWork
  PROVE  hJob' = hJob /\ HelperProgress' /\ (last = "helper" => HelperResult')
<1>1. before' = before /\ last' = last
  BY DEF HelperWork, history
<1>2. hJob' = hJob
  BY DEF HelperWork, Helper!Work, Helper!FlatRead, Helper!TransRequest, Helper!TransLatch,
     Helper!V16Read, Helper!BiasRequest, Helper!BiasLatch, Helper!AccRead, Helper!ScaleRequest,
     Helper!NarrowRequest, Helper!NarrowLatch, Helper!FlatWrite, Helper!TransWrite,
     Helper!V16Write, Helper!AccWrite, Helper!ScaleWrite, Helper!NarrowWrite, Helper!NextStep,
     Helper!NextBlock, Helper!Goto
<1>3. /\ Helper!Defined(hJob)' = Helper!Defined(hJob)
      /\ Helper!Result(hJob, before)' = Helper!Result(hJob, before)
  BY <1>1, <1>2
<1>4. SUFFICES ASSUME Helper!Defined(hJob)
               PROVE  \/ hState' \in Flat /\ FlatInv'
                      \/ hState' \in Transp /\ TransInv'
                      \/ hState' \in Vadd16 /\ V16Inv'
                      \/ hState' \in Bias \union Accum /\ BiasInv'
                      \/ hState' \in ScaleW /\ ScaleInv'
                      \/ hState' \in NarrowW /\ NarrowInv'
                      \/ hState' = "IDLE" /\ mem' = Helper!Result(hJob, before)
  BY <1>2, <1>3 DEF HelperProgress, HelperResult, Flat, Transp, Vadd16, Bias, Accum, ScaleW,
     NarrowW
<1>5. IsMemory(before)
  BY DEF ShapeInv
<1>6. /\ hLatch = [scratch |-> [i \in 0 .. Half - 1 |-> hLatch.scratch[i]],
                   bias |-> hLatch.bias, row0 |-> hLatch.row0, row1 |-> hLatch.row1]
      /\ hLatch = [scratch |-> hLatch.scratch, bias |-> hLatch.bias,
                   row0 |-> hLatch.row0, row1 |-> hLatch.row1]
  <2>1. PICK scratch, bias, row0, row1 :
          hLatch = [scratch |-> scratch, bias |-> bias, row0 |-> row0, row1 |-> row1]
    BY DEF ShapeInv
  <2>2. hLatch = [scratch |-> hLatch.scratch, bias |-> hLatch.bias,
                  row0 |-> hLatch.row0, row1 |-> hLatch.row1]
    BY ONLY <2>1
  <2> QED
    BY <2>2 DEF ShapeInv
<1>7. CASE Helper!FlatRead \/ Helper!FlatWrite
  <2>1. FlatInv
    BY <1>4, <1>7 DEF HelperProgress, Flat, Helper!FlatRead, Helper!FlatWrite
  <2> QED
    BY <1>1, <1>5, <1>7, <2>1, FlatGoes
<1>8. CASE Helper!TransRequest \/ Helper!TransLatch
  <2>1. TransInv
    BY <1>4, <1>8 DEF HelperProgress, Transp, Helper!TransRequest, Helper!TransLatch
  <2> QED
    BY <1>1, <1>5, <1>6, <1>8, <2>1, TransReads
<1>9. CASE Helper!TransWrite
  <2>1. TransInv
    BY <1>4, <1>9 DEF HelperProgress, Transp, Helper!TransWrite
  <2> QED
    BY <1>1, <1>5, <1>9, <2>1, TransGoes
<1>10. CASE Helper!V16Read \/ Helper!V16Write
  <2>1. V16Inv
    BY <1>4, <1>10 DEF HelperProgress, Vadd16, Helper!V16Read, Helper!V16Write
  <2> QED
    BY <1>1, <1>4, <1>5, <1>10, <2>1, V16Goes
<1>11. CASE Helper!BiasRequest \/ Helper!BiasLatch
  <2>1. BiasInv
    BY <1>4, <1>11 DEF HelperProgress, Bias, Helper!BiasRequest, Helper!BiasLatch
  <2> QED
    BY <1>1, <1>5, <1>6, <1>11, <2>1, BiasGoes
<1>12. CASE Helper!AccRead \/ Helper!AccWrite
  <2>1. BiasInv
    BY <1>4, <1>12 DEF HelperProgress, Accum, Helper!AccRead, Helper!AccWrite
  <2> QED
    BY <1>1, <1>4, <1>5, <1>12, <2>1, AccGoes
<1>13. CASE Helper!ScaleRequest \/ Helper!ScaleWrite
  <2>1. ScaleInv
    BY <1>4, <1>13 DEF HelperProgress, ScaleW, Helper!ScaleRequest, Helper!ScaleWrite
  <2> QED
    BY <1>1, <1>4, <1>5, <1>13, <2>1, ScaleGoes
<1>14. CASE Helper!NarrowRequest \/ Helper!NarrowLatch \/ Helper!NarrowWrite
  <2>1. NarrowInv
    BY <1>4, <1>14 DEF HelperProgress, NarrowW, Helper!NarrowRequest, Helper!NarrowLatch,
       Helper!NarrowWrite
  <2> QED
    BY <1>1, <1>4, <1>5, <1>6, <1>14, <2>1, NarrowGoes
<1> QED
  BY <1>7, <1>8, <1>9, <1>10, <1>11, <1>12, <1>13, <1>14 DEF HelperWork, Helper!Work

\* A walk begins with nothing written, and an empty copy is done at once.
LEMMA HelperBegins ==
  ASSUME HelperInv, ShapeInv, CopiesKeepWidth, IssueHelper
  PROVE  ShapeInv' /\ HelperProgress' /\ HelperResult'
<1>1. PICK j \in HelperJobs : /\ hJob' = j /\ hState' = Helper!FirstState(j)
                              /\ hAt' = Helper!FirstAt(j)
  BY DEF IssueHelper, Helper!Dispatch
<1>2. /\ mem' = mem /\ before' = mem /\ hLatch' = hLatch /\ sState' = "IDLE" /\ sLatch' = sLatch
  BY DEF IssueHelper, Issue, BothIdle, Helper!Dispatch, Helper!QuietA, sfu
<1>3. IsMemory(mem) /\ hAt \in HelperCounters
  BY DEF ShapeInv, HelperInv
<1>4. hState' \in {"IDLE", "FAULT", "FLAT_READ", "TSRC_REQ", "V16_READ", "VB_REQ", "SM1_REQ",
                   "SM2_REQ"}
  BY <1>1, FirstStates
<1>5. ShapeInv'
  <2>1. IsMemory(mem)' /\ IsMemory(before)' /\ Half' = Half
    BY <1>2, <1>3 DEF Half
  <2>2. hState' # "FLAT_WRITE"
    BY <1>4
  <2> QED
    BY <1>2, <2>1, <2>2 DEF ShapeInv
<1>6. \A words, done : done = {} => mem' = Image(mem, j.dst, words, done)
  BY <1>2, <1>3, ImageStart
<1>7. Upto(0) = {}
  BY DEF Upto
<1>8. hState' \notin {"IDLE", "FAULT"} => HelperAccepted(j)
  BY <1>1, FirstStates
<1>9. CASE hState' = "IDLE"
  <2>1. /\ j.op = "BUF_COPY" /\ j.length = 0 /\ ~Helper!OutOfBounds(j)
    <3>1. ~Helper!Unsupported(j) /\ ~Helper!OutOfBounds(j)
      BY <1>1, <1>9 DEF Helper!FirstState
    <3>2. j.op \in {"BUF_COPY", "VADD", "SCALE_MUL"} /\ j.transpose \in BOOLEAN
      BY HelperJobTypes
    <3> QED
      BY <1>1, <1>9, <3>1, <3>2 DEF Helper!FirstState
  <2>2. j.src1.off + j.length <= BufRows[j.src1.buf]
    BY <2>1 DEF Helper!OutOfBounds, Helper!Fits, Helper!Src1Rows
  <2>3. j.src1.buf = "ACCUM" <=> j.dst.buf = "ACCUM"
    BY <2>1 DEF CopiesKeepWidth
  <2>4. Helper!Result(j, mem) = Image(mem, j.dst, FlatWords(j, mem), Upto(0))
    BY <1>3, <2>1, <2>2, <2>3, FlatResult
  <2>5. mem' = Helper!Result(j, mem)
    BY <1>6, <1>7, <2>4
  <2>6. Helper!Result(hJob, before)' = Helper!Result(j, mem)
    BY <1>1, <1>2
  <2> QED
    BY <1>5, <1>9, <2>5, <2>6 DEF HelperResult, HelperProgress, Flat, Transp, Vadd16, Bias, Accum,
       ScaleW, NarrowW
<1>10. CASE hState' = "FAULT"
  BY <1>5, <1>10 DEF HelperResult, HelperProgress, Flat, Transp, Vadd16, Bias, Accum, ScaleW,
     NarrowW
<1>11. CASE hState' = "FLAT_READ"
  <2>1. hAt' = [hAt EXCEPT !.step = 0, !.backward = Helper!GoesBackward(j)]
    BY <1>1, <1>11 DEF Helper!FirstAt
  <2>2. hAt'.step = 0 /\ hAt'.backward = Helper!GoesBackward(j)
    BY <1>3, <2>1 DEF HelperCounters
  <2>3. ~(j.transpose /\ j.length # 0)
    <3>1. ~Helper!Unsupported(j) /\ ~Helper!OutOfBounds(j) /\ j.op = "BUF_COPY" /\ j.length # 0
      BY <1>1, <1>8, <1>11, FirstStates DEF HelperAccepted
    <3> QED
      BY <1>1, <1>11, <3>1 DEF Helper!FirstState
  <2>4. FlatDone' = {}
    <3>1. j.length \in Nat
      BY HelperJobTypes
    <3> QED
      BY <1>1, <2>2, <3>1 DEF FlatDone, Upto
  <2>5. mem' = Image(before, hJob.dst, FlatWords(hJob, before), FlatDone)'
    BY <1>1, <1>2, <1>6, <2>4
  <2>6. Helper!GoesBackward(hJob)' = Helper!GoesBackward(j)
    BY <1>1
  <2>7. FlatInv'
    BY <1>1, <1>11, <2>2, <2>3, <2>5, <2>6 DEF FlatInv
  <2> QED
    BY <1>5, <1>11, <2>7 DEF HelperResult, HelperProgress, Flat, Transp, Vadd16, Bias, Accum,
       ScaleW, NarrowW
<1>12. CASE hState' = "TSRC_REQ"
  <2>1. hAt'.rbase = 0 /\ hAt'.cbase = 0 /\ hAt'.src = 0
    BY <1>1, <1>3, <1>12, FirstCounters
  <2>2. /\ j.length \in Nat /\ Down(j) \in Nat /\ 0 < Down(j)
    BY <1>1, <1>8, <1>12, FirstStates, HelperJobTypes, TransposeShape DEF HelperAccepted
  <2>3. TransDone' = {}
    <3>1. ASSUME NEW k \in Upto(j.length)
          PROVE  /\ ~((k % Down(j)) * Half < 0)
                 /\ ~(k \div Down(j) < 0 + 0)
      <4>1. k \in Nat
        BY <3>1 DEF Upto
      <4>2. k \div Down(j) \in Nat /\ k % Down(j) \in Nat
        BY <2>2, <4>1, DivMod
      <4>3. (k % Down(j)) * Half \in Nat
        BY <4>2, DimFacts, NatProduct
      <4> QED
        BY <4>2, <4>3
    <3>2. TransDone' = {k \in Upto(j.length) :
             \/ (k % Down(j)) * Half < 0
             \/ (k % Down(j)) * Half = 0 /\ k \div Down(j) < 0 + 0}
      BY <1>1, <1>12, <2>1 DEF TransDone, Half, Down, Helper!Lines, Helper!Half
    <3> QED
      BY <3>1, <3>2
  <2>4. mem' = Image(before, hJob.dst, TransWords(hJob, before), TransDone)'
    BY <1>1, <1>2, <1>6, <2>3
  <2>5. \A i \in (0 .. Half - 1)' : ~(i < hAt'.src)
    BY <2>1, DimFacts DEF Half
  <2>6. TransInv'
    BY <1>12, <2>4, <2>5 DEF TransInv
  <2> QED
    BY <1>5, <1>12, <2>6 DEF HelperResult, HelperProgress, Flat, Transp, Vadd16, Bias, Accum,
       ScaleW, NarrowW
<1>13. CASE hState' = "V16_READ"
  <2>1. hAt'.step = 0
    BY <1>1, <1>3, <1>13, FirstCounters
  <2>2. mem' = Image(before, hJob.dst, V16Words(hJob, before), Upto(hAt.step))'
    BY <1>1, <1>2, <1>6, <1>7, <2>1
  <2>3. V16Inv'
    BY <1>13, <2>2 DEF V16Inv
  <2> QED
    BY <1>5, <1>13, <2>3 DEF HelperResult, HelperProgress, Flat, Transp, Vadd16, Bias, Accum,
       ScaleW, NarrowW
<1>14. CASE hState' = "VB_REQ"
  <2>1. hAt'.chunk = 0
    BY <1>1, <1>3, <1>14, FirstCounters
  <2>2. BiasDone' = {}
    <3>1. j.n \in Nat /\ 0 < j.n
      BY HelperJobTypes
    <3>2. ASSUME NEW k \in Nat PROVE ~(k % (4 * j.n) < 2 * 0)
      <4>1. PICK w \in Nat : w = 4 * j.n /\ 0 < w
        BY <3>1
      <4>2. k % w \in Nat
        BY <4>1, DivMod
      <4> QED
        BY <4>1, <4>2
    <3>3. BiasDone' = {k \in Upto(MatrixRows(j.dst, j)) : k % (4 * j.n) < 2 * 0}
      BY <1>1, <1>14, <2>1 DEF BiasDone, Accum, MatrixRows, LineRows
    <3>4. Upto(MatrixRows(j.dst, j)) \subseteq Nat
      BY DEF Upto
    <3> QED
      BY <3>2, <3>3, <3>4
  <2>3. mem' = Image(before, hJob.dst, BiasWords(hJob, before), BiasDone)'
    BY <1>1, <1>2, <1>6, <2>2
  <2>4. BiasInv'
    BY <1>14, <2>3 DEF BiasInv, Accum
  <2> QED
    BY <1>5, <1>14, <2>4 DEF HelperResult, HelperProgress, Flat, Transp, Vadd16, Bias, Accum,
       ScaleW, NarrowW
<1>15. CASE hState' = "SM1_REQ"
  <2>1. hAt'.step = 0
    BY <1>1, <1>3, <1>15, FirstCounters
  <2>2. mem' = Image(before, hJob.dst, ScaleWords(hJob, before), Upto(hAt.step))'
    BY <1>1, <1>2, <1>6, <1>7, <2>1
  <2>3. ScaleInv'
    BY <1>15, <2>2 DEF ScaleInv
  <2> QED
    BY <1>5, <1>15, <2>3 DEF HelperResult, HelperProgress, Flat, Transp, Vadd16, Bias, Accum,
       ScaleW, NarrowW
<1>16. CASE hState' = "SM2_REQ"
  <2>1. hAt'.step = 0 /\ hAt'.part = 0
    BY <1>1, <1>3, <1>16, FirstCounters
  <2>2. mem' = Image(before, hJob.dst, NarrowWords(hJob, before), Upto(hAt.step))'
    BY <1>1, <1>2, <1>6, <1>7, <2>1
  <2>3. NarrowInv'
    BY <1>16, <2>1, <2>2 DEF NarrowInv
  <2> QED
    BY <1>5, <1>16, <2>3 DEF HelperResult, HelperProgress, Flat, Transp, Vadd16, Bias, Accum,
       ScaleW, NarrowW
<1> QED
  BY <1>4, <1>9, <1>10, <1>11, <1>12, <1>13, <1>14, <1>15, <1>16

-----------------------------------------------------------------------------
(* How the SFU gets there.                                                 *)

\* Where it stands, in numbers.
LEMMA SfuHere ==
  ASSUME SfuInv, Sfu!Busy
  PROVE  /\ sJob \in SfuJobs /\ SfuAccepted(sJob) /\ SfuWalk(sJob, sAt, sState)
         /\ sAt \in SfuCounters
         /\ sJob.op \in {"SOFTMAX", "LAYERNORM", "GELU"}
         /\ sJob.src1.buf \in Buffers /\ sJob.dst.buf \in Buffers /\ sJob.dst.buf # "ACCUM"
         /\ sJob.src1.off \in Nat /\ sJob.dst.off \in Nat
         /\ Sfu!Half = Half /\ Sfu!Group = Group
         /\ \E n, lines, w, row, read, chunk, part, elems, rows \in Nat :
              /\ n = sJob.n /\ w = 2 * n /\ 0 < w /\ lines = sJob.m * Dim
              /\ row = sAt.row /\ read = sAt.read /\ chunk = sAt.chunk /\ part = sAt.part
              /\ elems = Sfu!Elems(sJob) /\ elems = w * Half /\ row < lines
              /\ rows = MatrixRows(sJob.dst, sJob) /\ rows = lines * w
<1>1. /\ SfuAccepted(sJob) /\ SfuWalk(sJob, sAt, sState) /\ sAt \in SfuCounters
  BY DEF SfuInv
<1>2. /\ sAt.row \in Nat /\ sAt.read \in Nat /\ sAt.chunk \in Nat /\ sAt.part \in Nat
      /\ sAt.row < sJob.m * Dim
  BY <1>1 DEF SfuCounters, SfuWalk
<1>3. /\ sJob \in SfuJobs /\ sJob.dst.buf # "ACCUM"
  BY <1>1 DEF SfuAccepted, Sfu!Unsupported
<1>4. /\ sJob.op \in {"SOFTMAX", "LAYERNORM", "GELU"}
      /\ sJob.m \in Nat /\ sJob.n \in Nat /\ 0 < sJob.m /\ 0 < sJob.n
      /\ sJob.src1.buf \in Buffers /\ sJob.dst.buf \in Buffers
      /\ sJob.src1.off \in Nat /\ sJob.dst.off \in Nat
  BY <1>3, SfuJobTypes
<1>5. /\ 2 * sJob.n \in Nat /\ 0 < 2 * sJob.n /\ sJob.m * Dim \in Nat
      /\ (sJob.m * Dim) * (2 * sJob.n) \in Nat
  BY <1>4, MatrixSize
<1>6. /\ MatrixRows(sJob.dst, sJob) = (sJob.m * Dim) * (2 * sJob.n)
  BY <1>3 DEF MatrixRows, LineRows
<1>7. Sfu!Elems(sJob) = (2 * sJob.n) * Half /\ (2 * sJob.n) * Half \in Nat
  BY <1>4, <1>5, DimFacts, NatProduct DEF Sfu!Elems
<1>8. Sfu!Half = Half /\ Sfu!Group = Group
  BY DEF Sfu!Half, Half, Sfu!Group, Group
<1>9. \E n, lines, w, row, read, chunk, part, elems, rows \in Nat :
              /\ n = sJob.n /\ w = 2 * n /\ 0 < w /\ lines = sJob.m * Dim
              /\ row = sAt.row /\ read = sAt.read /\ chunk = sAt.chunk /\ part = sAt.part
              /\ elems = Sfu!Elems(sJob) /\ elems = w * Half /\ row < lines
              /\ rows = MatrixRows(sJob.dst, sJob) /\ rows = lines * w
  <2> USE <1>2, <1>4, <1>5, <1>6, <1>7
  <2> WITNESS sJob.n \in Nat, sJob.m * Dim \in Nat, 2 * sJob.n \in Nat, sAt.row \in Nat,
              sAt.read \in Nat, sAt.chunk \in Nat, sAt.part \in Nat,
              Sfu!Elems(sJob) \in Nat, MatrixRows(sJob.dst, sJob) \in Nat
  <2> QED
    BY ONLY <1>2, <1>5, <1>6, <1>7
<1> QED
  BY <1>1, <1>3, <1>4, <1>8, <1>9

\* The words, the places and the values stay what they are.
LEMMA SameSfu ==
  ASSUME sJob' = sJob, before' = before
  PROVE  /\ SfuWords(sJob, before)' = SfuWords(sJob, before)
         /\ Sfu!Elems(sJob)' = Sfu!Elems(sJob)
         /\ Sfu!Result(sJob, before)' = Sfu!Result(sJob, before)
         /\ Sfu!Defined(sJob)' = Sfu!Defined(sJob)
         /\ \A i : SfuParam(sJob, before, i)' = SfuParam(sJob, before, i)
         /\ \A line, i : SfuSource(sJob, before, line, i)' = SfuSource(sJob, before, line, i)
         /\ \A line, i : SfuValue(sJob, before, line, i)' = SfuValue(sJob, before, line, i)
OBVIOUS

\* A row of the line it is at, as long as no more than the lines before and
\* the words that it has passed are written.
LEMMA SfuReads ==
  ASSUME SfuInv, Sfu!Busy, Sfu!Defined(sJob), NEW w \in Nat, w = LineRows(sJob.src1.buf, sJob.n),
         NEW x \in Nat, x < w, NEW words, NEW done \in Nat,
         done <= sAt.row * w + x, mem = Image(before, sJob.dst, words, Upto(done))
  PROVE  Held(mem, sJob.src1.buf, Sfu!LineStart(sJob.src1) + x)
           = Held(before, sJob.src1.buf, Sfu!LineStart(sJob.src1) + x)
<1> DEFINE r == Sfu!LineStart(sJob.src1) + x
<1>1. /\ sJob.src1.buf \in Buffers /\ sJob.dst.buf \in Buffers /\ sJob.dst.buf # "ACCUM"
      /\ sJob.src1.off \in Nat /\ sJob.dst.off \in Nat /\ SfuAccepted(sJob)
      /\ sAt.row \in Nat /\ sAt.row < sJob.m * Dim /\ sJob.m * Dim \in Nat
  BY SfuHere
<1>2. r \in 0 .. BufRows[sJob.src1.buf] - 1
  BY LineInside DEF Inside
<1>3. CASE sJob.src1.buf = "ACCUM"
  <2>1. sJob.src1.buf # sJob.dst.buf
    BY <1>1, <1>3
  <2> HIDE DEF r
  <2>2. Held(mem, sJob.src1.buf, r) = Held(before, sJob.src1.buf, r)
    BY <1>1, <1>2, <2>1, HeldRow
  <2> QED
    BY <2>2 DEF r
<1>4. CASE sJob.src1.buf # "ACCUM"
  <2>1. PICK row \in Nat, lines \in Nat : row = sAt.row /\ lines = sJob.m * Dim /\ row < lines
    BY <1>1
  <2>2. PICK rows \in Nat, k \in Nat : rows = lines * w /\ k = row * w + x /\ k < rows
    BY <2>1, Block, NatProduct
  <2>3. /\ MatrixRows(sJob.src1, sJob) = rows /\ MatrixRows(sJob.dst, sJob) = rows
    BY <1>1, <1>4, <2>1, <2>2 DEF MatrixRows, LineRows
  <2>4. NeverAhead(sJob.src1, sJob.dst, rows, rows)
    <3>1. /\ Sfu!MatrixRows(sJob.src1, sJob) = rows /\ Sfu!MatrixRows(sJob.dst, sJob) = rows
      BY <2>3 DEF Sfu!MatrixRows, Sfu!LineRows, MatrixRows, LineRows
    <3> QED
      BY <3>1 DEF Sfu!Defined, NeverAhead, RowsOf, Sfu!NeverAhead, Sfu!RowsOf
  <2>5. sJob.src1.off + rows <= BufRows[sJob.src1.buf]
    BY <1>1, <2>3, SfuFits
  <2>6. r = sJob.src1.off + k
    <3>1. Sfu!LineStart(sJob.src1) = sJob.src1.off + row * w
      BY <2>1 DEF Sfu!LineStart, Sfu!LineRows, LineRows
    <3>2. PICK p \in Nat : p = row * w
      BY NatProduct
    <3>3. r = sJob.src1.off + p + x /\ k = p + x /\ sJob.src1.off \in Nat
      BY <1>1, <2>2, <3>1, <3>2
    <3> HIDE DEF r
    <3> QED
      BY ONLY <3>3
  <2>7. done <= k
    BY <2>1, <2>2
  <2> HIDE DEF r
  <2>8. Behind(sJob.src1, sJob.dst, rows, rows, done, r)
    <3>1. r \in RowsOf(sJob.src1, rows)
      BY <1>1, <2>2, <2>6 DEF RowsOf
    <3> QED
      BY <1>1, <2>2, <2>4, <2>5, <2>6, <2>7, <3>1 DEF Behind
  <2>9. Held(mem, sJob.src1.buf, r) = Held(before, sJob.src1.buf, r)
    BY <2>8, Unwritten
  <2> QED
    BY <2>9 DEF r
<1> QED
  BY <1>3, <1>4

\* A word of the result is written.
LEMMA SfuWrite ==
  ASSUME SfuInv, Sfu!Busy, sAt.chunk < 2 * sJob.n,
         NEW done, done = sAt.row * (2 * sJob.n) + sAt.chunk,
         mem = Image(before, sJob.dst, SfuWords(sJob, before), Upto(done)),
         NEW word, word = [x \in 0 .. Half - 1 |->
                             SfuValue(sJob, before, sAt.row, sAt.chunk * Half + x)],
         mem' = [mem EXCEPT ![sJob.dst.buf][Sfu!DstRow] = word]
  PROVE  /\ done \in Nat
         /\ mem' = Image(before, sJob.dst, SfuWords(sJob, before), Upto(done + 1))
<1> DEFINE words == SfuWords(sJob, before)
           r     == Sfu!DstRow
<1>1. PICK lines, w, row, chunk, rows \in Nat :
        /\ w = 2 * sJob.n /\ 0 < w /\ lines = sJob.m * Dim
        /\ row = sAt.row /\ chunk = sAt.chunk /\ row < lines
        /\ rows = MatrixRows(sJob.dst, sJob) /\ rows = lines * w
  BY SfuHere
<1>2. /\ sJob.dst.buf \in Buffers /\ sJob.dst.buf # "ACCUM" /\ sJob.dst.off \in Nat
  BY SfuHere
<1>3. done = row * w + chunk /\ chunk < w
  BY <1>1
<1>4. done \in Nat /\ done < rows
  BY <1>1, <1>3, Block
<1>5. done \div w = row /\ done % w = chunk
  <2>1. AtGroup(w, lines, chunk, row, done)
    BY <1>1, <1>3 DEF AtGroup
  <2> QED
    BY ONLY <2>1, BiasPlace
<1>6. r = sJob.dst.off + done
  <2>1. r = sJob.dst.off + row * w + chunk
    BY <1>1, <1>2 DEF Sfu!DstRow, Sfu!LineStart, Sfu!LineRows
  <2>2. PICK p \in Nat : p = row * w
    BY NatProduct
  <2>3. r = sJob.dst.off + p + chunk /\ done = p + chunk /\ sJob.dst.off \in Nat
    BY <1>2, <1>3, <2>1, <2>2
  <2> HIDE DEF r
  <2> QED
    BY ONLY <2>3
<1>7. r \in 0 .. BufRows[sJob.dst.buf] - 1
  <2>1. LineRows(sJob.dst.buf, sJob.n) = w
    BY <1>1, <1>2 DEF LineRows
  <2>2. Inside(<<sJob.dst.buf, Sfu!LineStart(sJob.dst) + chunk>>)
    BY <1>1, <1>3, <2>1, LineInside
  <2> QED
    BY <1>1, <2>2 DEF Inside, Sfu!DstRow
<1>8. word = words[done]
  <2>1. done \in 0 .. rows - 1
    BY <1>4
  <2>2. words[done] = [x \in 0 .. Half - 1 |->
                         SfuValue(sJob, before, done \div w, (done % w) * Half + x)]
    BY <1>1, <2>1 DEF SfuWords
  <2> QED
    BY <1>1, <1>5, <2>2
<1> HIDE DEF words, r
<1>9. Extends(sJob.dst, Upto(done), done, r, Upto(done + 1))
  BY <1>2, <1>4, <1>6, <1>7, OneMore DEF Extends
<1>10. mem' = Put(mem, sJob.dst.buf, r, word)
  BY DEF Put, r
<1>11. mem = Image(before, sJob.dst, words, Upto(done))
  BY DEF words
<1>12. mem' = Image(before, sJob.dst, words, Upto(done + 1))
  BY ONLY <1>8, <1>9, <1>10, <1>11, PutRow
<1> QED
  BY <1>4, <1>12 DEF words

\* Then comes the next word, the next line or the end.
LEMMA SfuMoves ==
  ASSUME SfuInv, Sfu!Busy, ShapeInv, sJob' = sJob, before' = before,
         sAt.chunk < 2 * sJob.n,
         NEW done \in Nat, done = sAt.row * (2 * sJob.n) + sAt.chunk,
         mem' = Image(before, sJob.dst, SfuWords(sJob, before), Upto(done + 1)),
         \/ /\ sAt.chunk + 1 < 2 * sJob.n /\ sAt'.chunk = sAt.chunk + 1 /\ sAt'.row = sAt.row
            /\ sState' \in LineOut \union Gelu16W \union Gelu32W
         \/ /\ ~(sAt.chunk + 1 < 2 * sJob.n) /\ sAt'.chunk = 0 /\ sAt'.row = sAt.row + 1
            /\ sState' # "IDLE"
         \/ /\ ~(sAt.chunk + 1 < 2 * sJob.n) /\ ~(sAt.row + 1 < sJob.m * Dim)
            /\ sState' = "IDLE"
  PROVE  IF sState' = "IDLE" THEN mem' = Sfu!Result(sJob, before)
         ELSE mem' = Image(before, sJob.dst, SfuWords(sJob, before), Upto(SfuDone))'
<1> DEFINE words == SfuWords(sJob, before)
<1>1. PICK lines, w, row, chunk, rows \in Nat :
        /\ w = 2 * sJob.n /\ 0 < w /\ lines = sJob.m * Dim
        /\ row = sAt.row /\ chunk = sAt.chunk /\ row < lines
        /\ rows = MatrixRows(sJob.dst, sJob) /\ rows = lines * w
  BY SfuHere
<1>2. PICK p \in Nat : p = row * w
  BY NatProduct
<1>3. done = p + chunk /\ chunk < w
  BY <1>1, <1>2
<1>4. (row + 1) * w = p + w
  BY <1>2
<1>5. words' = words
  BY SameSfu
<1> HIDE DEF words
<1>6. ASSUME SfuDone' = done + 1
      PROVE  mem' = Image(before, sJob.dst, SfuWords(sJob, before), Upto(SfuDone))'
  <2>1. mem' = Image(before, sJob.dst, words, Upto(done + 1))
    BY DEF words
  <2>2. Upto(SfuDone)' = Upto(done + 1)
    BY <1>6
  <2> QED
    BY <1>5, <2>1, <2>2 DEF words
<1>7. CASE /\ sAt.chunk + 1 < 2 * sJob.n /\ sAt'.chunk = sAt.chunk + 1 /\ sAt'.row = sAt.row
           /\ sState' \in LineOut \union Gelu16W \union Gelu32W
  <2>1. SfuDone' = row * w + (chunk + 1)
    BY <1>1, <1>7 DEF SfuDone, LineOut, Gelu16W, Gelu32W
  <2>2. SfuDone' = done + 1
    BY <1>2, <1>3, <2>1
  <2>3. sState' # "IDLE"
    BY <1>7 DEF LineOut, Gelu16W, Gelu32W
  <2> QED
    BY <1>6, <2>2, <2>3
<1>8. CASE /\ ~(sAt.chunk + 1 < 2 * sJob.n) /\ sAt'.chunk = 0 /\ sAt'.row = sAt.row + 1
           /\ sState' # "IDLE"
  <2>1. SfuDone' = (row + 1) * w + 0
    BY <1>1, <1>8 DEF SfuDone, LineOut, Gelu16W, Gelu32W
  <2>2. SfuDone' = done + 1
    <3>1. ~(chunk + 1 < w) /\ w \in Nat /\ chunk \in Nat /\ p \in Nat
      BY <1>1, <1>8
    <3> QED
      BY ONLY <1>3, <1>4, <2>1, <3>1
  <2> QED
    BY <1>6, <1>8, <2>2
<1>9. CASE /\ ~(sAt.chunk + 1 < 2 * sJob.n) /\ ~(sAt.row + 1 < sJob.m * Dim)
           /\ sState' = "IDLE"
  <2>1. lines = row + 1 /\ chunk + 1 = w
    BY <1>1, <1>3, <1>9
  <2>2. rows = done + 1
    BY <1>1, <1>2, <1>3, <1>4, <2>1
  <2>3. Sfu!Result(sJob, before) = Image(before, sJob.dst, words, Upto(rows))
    BY <1>1, SfuHere, SfuResultRows DEF words, ShapeInv
  <2> QED
    BY <1>9, <2>2, <2>3 DEF words
<1> QED
  BY <1>7, <1>8, <1>9

\* A row of the registers is loaded.
LEMMA LoadedRow ==
  ASSUME NEW line, NEW k, NEW lanes, NEW i \in Upto(Sfu!Elems(sJob)), Sfu!Elems(sJob) \in Nat,
         Sfu!Elems(sJob) <= MaxRow
  PROVE  Sfu!Loaded(line, k, lanes)[i] = IF i \div lanes = k THEN rdataB[i % lanes] ELSE line[i]
<1>1. i \in 0 .. MaxRow - 1 /\ i < Sfu!Elems(sJob)
  BY JobAssumption DEF Upto
<1> HIDE DEF Sfu!Elems
<1> QED
  BY <1>1 DEF Sfu!Loaded

\* An element of a row of the parameters.
ParamAt(j, memory, row, x) == memory[j.src2.buf][j.src2.off + row][x]

\* The betas come after the gammas.
LEMMA SecondParam ==
  ASSUME NEW j, NEW memory, NEW w \in Nat, NEW elems, elems = w * Half, NEW i \in Nat
  PROVE  SfuParam(j, memory, elems + i) = ParamAt(j, memory, w + i \div Half, i % Half)
<1>1. PICK h \in Nat : h = Half /\ 0 < h
  BY DimFacts
<1>2. PICK q \in Nat, r \in Nat : q = i \div h /\ r = i % h /\ r < h /\ i = q * h + r
  BY <1>1, DivMod
<1>3. PICK a \in Nat : a = w + q
  OBVIOUS
<1>4. elems + i = a * h + r
  <2>1. a * h = w * h + q * h /\ w * h \in Nat /\ q * h \in Nat
    BY <1>3
  <2> QED
    BY <1>1, <1>2, <2>1
<1>5. (elems + i) \div h = a /\ (elems + i) % h = r
  <2>1. PICK z : z = elems + i
    OBVIOUS
  <2>2. z = a * h + r /\ a < a + 1 /\ a + 1 \in Nat
    BY <1>4, <2>1
  <2>3. AtGroup(h, a + 1, r, a, z)
    BY <1>1, <1>2, <2>2 DEF AtGroup
  <2>4. z \div h = a /\ z % h = r
    BY ONLY <2>3, BiasPlace
  <2> QED
    BY <2>1, <2>4
<1> QED
  BY <1>1, <1>2, <1>3, <1>5 DEF SfuParam, ParamAt

\* The parameters of a layer norm are read before anything is written.
LEMMA ParamGoes ==
  ASSUME SfuInv, ShapeInv, SfuStands, Sfu!ParamRequest \/ Sfu!ParamLatch, before' = before
  PROVE  sState' # "IDLE" /\ SfuStands'
<1> DEFINE buf  == sJob.src2.buf
           off  == sJob.src2.off
           P(i) == SfuParam(sJob, before, i)
<1>1. sState \in Params /\ Sfu!Busy
  BY DEF Sfu!ParamRequest, Sfu!ParamLatch, Sfu!Request, Params, Sfu!Busy
<1>2. PICK w, read, elems \in Nat :
        /\ w = 2 * sJob.n /\ 0 < w /\ read = sAt.read
        /\ elems = Sfu!Elems(sJob) /\ elems = w * Half
  BY <1>1, SfuHere
<1>3. /\ sJob.op = "LAYERNORM" /\ sAt \in SfuCounters /\ elems <= MaxRow
      /\ Sfu!Half = Half /\ Sfu!Gammas(sJob) = w /\ read < 2 * w
  <2>1. SfuAccepted(sJob) /\ SfuWalk(sJob, sAt, sState) /\ sAt \in SfuCounters /\ Sfu!Half = Half
    BY <1>1, SfuHere
  <2>2. sJob.op = "LAYERNORM" /\ sAt.read < 4 * sJob.n
    BY <1>1, <2>1 DEF SfuWalk
  <2>3. ~(Sfu!Elems(sJob) > MaxRow)
    BY <2>1, <2>2 DEF SfuAccepted, Sfu!Unsupported
  <2>4. sJob.n \in Nat /\ Sfu!Gammas(sJob) = w
    BY <1>2, <2>1, SfuSizes DEF SfuAccepted
  <2> QED
    BY <1>2, <2>1, <2>2, <2>3, <2>4, JobAssumption
<1>4. /\ sAt.row = 0
      /\ sState = "PARAM_LATCH" => rdataB = before[buf][Sfu!ParamRow]
      /\ \A i \in Upto(elems) : /\ i \div Half < read => sLatch.gamma[i] = P(i)
                                /\ i \div Half + w < read => sLatch.beta[i] = P(elems + i)
  BY <1>1, <1>2 DEF SfuStands, ParamInv
<1>5. Sfu!ParamRow = off + read
  BY <1>2 DEF Sfu!ParamRow
<1>6. mem = before /\ mem' = mem
  <2>1. SfuDone = 0
    <3>1. 0 * w = 0
      OBVIOUS
    <3> QED
      BY <1>1, <1>2, <1>4, <3>1 DEF SfuDone, Params, LineOut, Gelu16W, Gelu32W
  <2>2. Upto(SfuDone) = {}
    BY <2>1 DEF Upto
  <2>3. mem = before
    BY <2>2, ImageStart DEF SfuStands, ShapeInv
  <2>4. mem' = mem
    BY DEF Sfu!ParamRequest, Sfu!ParamLatch, Sfu!Request, Sfu!QuietA
  <2> QED
    BY <2>3, <2>4
<1>7. ASSUME sJob' = sJob, sAt'.row = 0, sState' \in {"PARAM_REQ", "PARAM_LATCH", "FP16_REQ"}
      PROVE  mem' = Image(before, sJob.dst, SfuWords(sJob, before), Upto(SfuDone))'
  <2>1. SfuDone' = 0
    <3>1. 0 * w = 0
      OBVIOUS
    <3> QED
      BY <1>2, <1>7, <3>1 DEF SfuDone, LineOut, Gelu16W, Gelu32W
  <2>2. Upto(SfuDone)' = {}
    BY <2>1 DEF Upto
  <2>3. IsMemory(before')
    BY DEF ShapeInv
  <2>4. Image(before', sJob'.dst, SfuWords(sJob, before)', Upto(SfuDone)') = before'
    BY <2>2, <2>3, ImageStart
  <2> QED
    BY <1>6, <2>4
<1> HIDE DEF P, buf, off
<1>8. CASE Sfu!ParamRequest
  <2>1. /\ sState' = "PARAM_LATCH" /\ sJob' = sJob /\ sAt' = sAt /\ sLatch' = sLatch
        /\ rdataB' = mem[buf][Sfu!ParamRow]
    BY <1>8 DEF Sfu!ParamRequest, Sfu!Request, Sfu!ReadB, Sfu!Goto, buf
  <2>2. Sfu!ParamRow' = Sfu!ParamRow /\ Sfu!Elems(sJob)' = elems
    BY <1>2, <2>1, SameSfu DEF Sfu!ParamRow
  <2>3. ParamInv'
    BY <1>2, <1>4, <1>6, <2>1, <2>2, SameSfu DEF ParamInv, P, buf, Half
  <2> QED
    BY <1>4, <1>7, <2>1, <2>3 DEF SfuStands, Params, Line16, Line32, LineOut, Gelu16W, Gelu32W
<1>9. CASE Sfu!ParamLatch
  <2>1. /\ sState = "PARAM_LATCH" /\ sJob' = sJob
        /\ sLatch' = IF read < w THEN [sLatch EXCEPT !.gamma = Sfu!Loaded(@, read, Half)]
                     ELSE [sLatch EXCEPT !.beta = Sfu!Loaded(@, read - w, Half)]
        /\ \/ /\ read + 1 < 2 * w /\ sState' = "PARAM_REQ"
              /\ sAt' = [sAt EXCEPT !.read = @ + 1]
           \/ /\ ~(read + 1 < 2 * w) /\ sState' = "FP16_REQ"
              /\ sAt' = [sAt EXCEPT !.read = 0]
    BY <1>2, <1>3, <1>9 DEF Sfu!ParamLatch, Sfu!Goto
  <2>2. /\ read < w => /\ sLatch'.gamma = Sfu!Loaded(sLatch.gamma, read, Half)
                       /\ sLatch'.beta = sLatch.beta
        /\ ~(read < w) => /\ sLatch'.beta = Sfu!Loaded(sLatch.beta, read - w, Half)
                          /\ sLatch'.gamma = sLatch.gamma
    <3>1. PICK line, gamma, beta, out, word, gelu, gelu0, gelu1 :
            sLatch = [line |-> line, gamma |-> gamma, beta |-> beta, out |-> out, word |-> word,
                      gelu |-> gelu, gelu0 |-> gelu0, gelu1 |-> gelu1]
      BY DEF ShapeInv
    <3> QED
      BY ONLY <2>1, <3>1
  <2>3. ASSUME NEW i \in Upto(elems)
        PROVE  /\ i \div Half < read + 1 => sLatch'.gamma[i] = P(i)
               /\ i \div Half + w < read + 1 => sLatch'.beta[i] = P(elems + i)
    <3>1. i \in Nat
      BY DEF Upto
    <3>2. PICK q \in Nat : q = i \div Half
      BY <3>1, DimFacts, DivMod
    <3>3. rdataB[i % Half] = ParamAt(sJob, before, read, i % Half)
      BY <1>4, <1>5, <2>1 DEF ParamAt, buf, off
    <3>4. P(i) = ParamAt(sJob, before, q, i % Half)
      BY <3>2 DEF P, SfuParam, ParamAt
    <3>5. P(elems + i) = ParamAt(sJob, before, w + q, i % Half)
      BY <1>2, <3>1, <3>2, SecondParam DEF P
    <3>6. CASE read < w
      <4>1. sLatch'.gamma[i] = IF q = read THEN rdataB[i % Half] ELSE sLatch.gamma[i]
        BY <1>2, <1>3, <2>2, <3>2, <3>6, LoadedRow
      <4>2. q < read + 1 => q = read \/ q < read
        BY <1>2
      <4>3. ~(q + w < read + 1)
        BY <1>2, <3>6
      <4> QED
        BY <1>4, <3>2, <3>3, <3>4, <4>1, <4>2, <4>3
    <3>7. CASE ~(read < w)
      <4>1. sLatch'.beta[i] = IF q = read - w THEN rdataB[i % Half] ELSE sLatch.beta[i]
        BY <1>2, <1>3, <2>2, <3>2, <3>7, LoadedRow
      <4>2. q + w < read + 1 => q + w = read \/ q + w < read
        BY <1>2
      <4>3. q + w = read => q = read - w /\ w + q = read
        BY <1>2
      <4>4. q + w < read => q # read - w
        BY <1>2
      <4>5. q < read
        <5>1. i < w * Half /\ i \in Nat
          BY <1>2, <3>1 DEF Upto
        <5>2. q < w
          BY <3>2, <5>1, DimFacts, QuotientBound
        <5> QED
          BY <3>7, <5>2
      <4> QED
        BY <1>4, <2>2, <3>2, <3>3, <3>5, <3>7, <4>1, <4>2, <4>3, <4>4, <4>5
    <3> QED
      BY <3>6, <3>7
  <2>4. CASE read + 1 < 2 * w /\ sState' = "PARAM_REQ" /\ sAt' = [sAt EXCEPT !.read = @ + 1]
    <3>1. sAt'.read = read + 1 /\ sAt'.row = 0
      BY <1>2, <1>3, <1>4, <2>4 DEF SfuCounters
    <3>2. Sfu!Elems(sJob)' = elems
      BY <1>2, <2>1, SameSfu
    <3>3. ParamInv'
      BY <1>2, <2>1, <2>3, <2>4, <3>1, <3>2, SameSfu DEF ParamInv, P, Half
    <3> QED
      BY <1>7, <2>1, <2>4, <3>1, <3>3 DEF SfuStands, Params, Line16, Line32, LineOut, Gelu16W,
         Gelu32W
  <2>5. CASE ~(read + 1 < 2 * w) /\ sState' = "FP16_REQ" /\ sAt' = [sAt EXCEPT !.read = 0]
    <3>1. sAt'.read = 0 /\ sAt'.row = 0
      BY <1>3, <1>4, <2>5 DEF SfuCounters
    <3>2. Sfu!Elems(sJob)' = elems
      BY <1>2, <2>1, SameSfu
    <3>3. NormInv'
      <4>1. ASSUME NEW i \in Upto(elems)
            PROVE  sLatch'.gamma[i] = P(i) /\ sLatch'.beta[i] = P(elems + i)
        <5>1. i \in Nat /\ i < w * Half
          BY <1>2 DEF Upto
        <5>2. PICK q \in Nat : q = i \div Half /\ q < w
          BY <1>2, <5>1, DimFacts, QuotientBound
        <5>3. q < read + 1 /\ q + w < read + 1
          BY <1>2, <2>5, <5>2
        <5> QED
          BY <2>3, <5>2, <5>3
      <4> QED
        BY <1>2, <2>1, <3>2, <4>1, SameSfu DEF NormInv, P
    <3>4. LineInv'
      <4>1. ASSUME NEW i \in Upto(elems) PROVE ~(i \div Lanes(sJob'.src1.buf) < 0)
        <5>1. i \in Nat
          BY DEF Upto
        <5>2. i \div Lanes(sJob'.src1.buf) \in Nat
          BY <5>1, LaneFacts, DivMod
        <5> QED
          BY <5>2
      <4> QED
        BY <2>5, <3>1, <3>2, <4>1 DEF LineInv, LineOut, Lanes, Half, Group
    <3> QED
      BY <1>7, <2>1, <2>5, <3>1, <3>3, <3>4 DEF SfuStands, Params, Gelu16W, Gelu32W
  <2> QED
    BY <2>1, <2>4, <2>5
<1> QED
  BY <1>8, <1>9

\* An element of a row of a line.
SourceAt(j, memory, line, k, x) ==
  memory[j.src1.buf][j.src1.off + line * LineRows(j.src1.buf, j.n) + k][x]

\* Asking for a row of the line: no row of it has been written over.
LEMMA LineRequestGoes ==
  ASSUME SfuInv, ShapeInv, SfuStands, Sfu!Defined(sJob),
         Sfu!Fp16Request \/ Sfu!Fp32Request, before' = before
  PROVE  sState' # "IDLE" /\ SfuStands'
<1>1. sState \in {"FP16_REQ", "FP32_REQ"} /\ Sfu!Busy
  BY DEF Sfu!Fp16Request, Sfu!Fp32Request, Sfu!Request, Sfu!Busy
<1>2. PICK w, row, read \in Nat : w = 2 * sJob.n /\ row = sAt.row /\ read = sAt.read
  BY <1>1, SfuHere
<1>3. SfuWalk(sJob, sAt, sState) /\ sJob.src1.buf \in Buffers
  BY <1>1, SfuHere
<1>4. PICK v \in Nat : v = LineRows(sJob.src1.buf, sJob.n) /\ read < v /\ (v = w \/ v = w + w)
  <2>1. sJob.n \in Nat
    BY <1>1, SfuHere, SfuJobTypes
  <2>2. CASE sState = "FP16_REQ"
    BY <1>2, <1>3, <2>1, <2>2 DEF SfuWalk, Line16, LineRows
  <2>3. CASE sState = "FP32_REQ"
    BY <1>2, <1>3, <2>1, <2>3 DEF SfuWalk, Line32, LineRows
  <2> QED
    BY <1>1, <2>2, <2>3
<1>5. SfuDone = row * w /\ row * w \in Nat
  <2>1. SfuDone = row * w + 0
    BY <1>1, <1>2 DEF SfuDone, LineOut, Gelu16W, Gelu32W
  <2> QED
    BY <1>2, <2>1, NatProduct
<1>6. row * w <= row * v + read
  <2>1. row * v = row * w \/ row * v = row * w + row * w
    BY <1>2, <1>4
  <2>2. PICK p \in Nat : p = row * w
    BY <1>5
  <2> QED
    BY <1>2, <1>4, <2>1, <2>2
<1>7. Sfu!ReadRow = Sfu!LineStart(sJob.src1) + read
  BY <1>2 DEF Sfu!ReadRow
<1>8. mem = Image(before, sJob.dst, SfuWords(sJob, before), Upto(row * w))
  BY <1>5 DEF SfuStands
<1>9. Held(mem, sJob.src1.buf, Sfu!ReadRow) = Held(before, sJob.src1.buf, Sfu!ReadRow)
  <2>1. Held(mem, sJob.src1.buf, Sfu!LineStart(sJob.src1) + read)
          = Held(before, sJob.src1.buf, Sfu!LineStart(sJob.src1) + read)
    BY <1>1, <1>2, <1>4, <1>5, <1>6, <1>8, SfuReads
  <2> QED
    BY <1>7, <2>1
<1>10. /\ sState' = IF sState = "FP16_REQ" THEN "FP16_LATCH" ELSE "FP32_LATCH"
       /\ sJob' = sJob /\ sAt' = sAt /\ sLatch' = sLatch /\ mem' = mem
       /\ rdataB' = Held(mem, sJob.src1.buf, Sfu!ReadRow)
  BY DEF Sfu!Fp16Request, Sfu!Fp32Request, Sfu!Request, Sfu!ReadB, Sfu!QuietA, Sfu!Goto, Held
<1>11. mem' = Image(before, sJob.dst, SfuWords(sJob, before), Upto(SfuDone))'
  <2>1. SfuDone' = row * w + 0
    BY <1>1, <1>2, <1>10 DEF SfuDone, LineOut, Gelu16W, Gelu32W
  <2>2. SfuDone' = row * w
    BY <1>5, <2>1
  <2>3. SfuWords(sJob, before)' = SfuWords(sJob, before)
    BY <1>10, SameSfu
  <2>4. Upto(SfuDone)' = Upto(row * w)
    BY <2>2
  <2> QED
    BY <1>8, <1>10, <2>3, <2>4
<1>12. LineInv /\ (sJob.op = "LAYERNORM" => NormInv)
  BY <1>1 DEF SfuStands, Line16, Line32
<1>13. LineInv'
  <2>1. rdataB' = before'[sJob'.src1.buf][Sfu!ReadRow']
    <3>1. Sfu!ReadRow' = Sfu!ReadRow
      BY <1>10 DEF Sfu!ReadRow, Sfu!LineStart
    <3> QED
      BY <1>9, <1>10, <3>1 DEF Held
  <2>2. \A i \in Upto(Sfu!Elems(sJob)) :
          i \div Lanes(sJob.src1.buf) < sAt.read =>
            sLatch.line[i] = SfuSource(sJob, before, sAt.row, i)
    BY <1>12 DEF LineInv
  <2>3. \A i \in Upto(Sfu!Elems(sJob))' :
          i \div Lanes(sJob'.src1.buf) < sAt'.read =>
            sLatch'.line[i] = SfuSource(sJob, before, sAt.row, i)'
    BY <1>10, <2>2
  <2> QED
    BY <1>10, <2>1, <2>3 DEF LineInv, LineOut
<1>14. sJob'.op = "LAYERNORM" => NormInv'
  BY <1>10, <1>12 DEF NormInv
<1> QED
  BY <1>10, <1>11, <1>13, <1>14 DEF SfuStands, Params, Gelu16W, Gelu32W

\* A row of the line goes to its registers.
LEMMA LineLatchGoes ==
  ASSUME SfuInv, ShapeInv, SfuStands, Sfu!Fp16Latch \/ Sfu!Fp32Latch, before' = before
  PROVE  sState' # "IDLE" /\ SfuStands'
<1>1. sState \in {"FP16_LATCH", "FP32_LATCH"} /\ Sfu!Busy
  BY DEF Sfu!Fp16Latch, Sfu!Fp32Latch, Sfu!LineLatch, Sfu!Busy
<1>2. PICK w, row, read, elems \in Nat :
        /\ w = 2 * sJob.n /\ row = sAt.row /\ read = sAt.read
        /\ elems = Sfu!Elems(sJob) /\ elems = w * Half
  BY <1>1, SfuHere
<1>3. /\ SfuWalk(sJob, sAt, sState) /\ sJob.src1.buf \in Buffers /\ sJob.n \in Nat
      /\ sAt \in SfuCounters /\ Sfu!Half = Half /\ Sfu!Group = Group /\ sJob \in SfuJobs
      /\ SfuAccepted(sJob)
  BY <1>1, SfuHere, SfuJobTypes
<1>4. elems <= MaxRow
  <2>1. sJob.op # "GELU"
    BY <1>1, <1>3 DEF SfuWalk, Line16, Line32
  <2> QED
    BY <1>2, <1>3, <2>1, JobAssumption DEF SfuAccepted, Sfu!Unsupported
<1> DEFINE lanes == Lanes(sJob.src1.buf)
           again == IF sState = "FP16_LATCH" THEN "FP16_REQ" ELSE "FP32_REQ"
<1>5. PICK v \in Nat : /\ v = LineRows(sJob.src1.buf, sJob.n) /\ read < v
                       /\ elems = v * lanes
                       /\ sState = "FP16_LATCH" => v = Sfu!Words(sJob) /\ lanes = Half
                       /\ sState = "FP32_LATCH" =>
                            v = Sfu!LineRows("ACCUM", sJob.n) /\ lanes = Group
  <2>1. CASE sState = "FP16_LATCH"
    <3>1. read < w /\ sJob.src1.buf # "ACCUM"
      BY <1>2, <1>3, <2>1 DEF SfuWalk, Line16
    <3>2. lanes = Half /\ w = LineRows(sJob.src1.buf, sJob.n) /\ w = Sfu!Words(sJob)
      BY <1>2, <1>3, <3>1, SfuSizes, LaneFacts DEF LineRows
    <3> QED
      BY <1>2, <2>1, <3>1, <3>2
  <2>2. CASE sState = "FP32_LATCH"
    <3>1. read < 4 * sJob.n /\ sJob.src1.buf = "ACCUM"
      BY <1>2, <1>3, <2>2 DEF SfuWalk, Line32
    <3>2. lanes = Group /\ 4 * sJob.n = LineRows(sJob.src1.buf, sJob.n)
          /\ 4 * sJob.n = Sfu!LineRows("ACCUM", sJob.n)
      BY <1>2, <1>3, <3>1, SfuSizes, LaneFacts DEF LineRows
    <3>3. PICK v \in Nat : v = 4 * sJob.n
      BY <1>3
    <3>4. elems = v * lanes
      <4>1. PICK g \in Nat, h \in Nat : g = Group /\ h = Half /\ h = 2 * g
        BY LaneFacts
      <4>2. v = w + w
        BY <1>2, <1>3, <3>3
      <4>3. w * h = (w + w) * g
        BY <4>1
      <4> QED
        BY <1>2, <3>2, <4>1, <4>2, <4>3
    <3> QED
      BY <1>2, <2>2, <3>1, <3>2, <3>3, <3>4
  <2> QED
    BY <1>1, <2>1, <2>2
<1>6. lanes \in Nat /\ 0 < lanes
  BY LaneFacts
<1>7. /\ LineInv /\ (sJob.op = "LAYERNORM" => NormInv)
      /\ mem = Image(before, sJob.dst, SfuWords(sJob, before), Upto(SfuDone))
  BY <1>1 DEF SfuStands, Line16, Line32
<1>8. /\ \A i \in Upto(elems) : i \div lanes < read =>
           sLatch.line[i] = SfuSource(sJob, before, row, i)
      /\ \A x : rdataB[x] = SourceAt(sJob, before, row, read, x)
  <2>1. \A i \in Upto(elems) : i \div lanes < read =>
           sLatch.line[i] = SfuSource(sJob, before, row, i)
    BY <1>2, <1>7 DEF LineInv
  <2>2. rdataB = before[sJob.src1.buf][Sfu!ReadRow]
    BY <1>1, <1>7 DEF LineInv
  <2>3. Sfu!ReadRow = sJob.src1.off + row * LineRows(sJob.src1.buf, sJob.n) + read
    BY <1>2 DEF Sfu!ReadRow, Sfu!LineStart, Sfu!LineRows, LineRows
  <2> QED
    BY <2>1, <2>2, <2>3 DEF SourceAt
<1> HIDE DEF lanes
<1>9. /\ sJob' = sJob /\ mem' = mem
      /\ sLatch' = [sLatch EXCEPT !.line = Sfu!Loaded(@, read, lanes)]
      /\ \/ read + 1 < v /\ sAt' = [sAt EXCEPT !.read = @ + 1] /\ sState' = again
         \/ ~(read + 1 < v) /\ sAt' = [sAt EXCEPT !.chunk = 0] /\ sState' = "COMPUTE"
  <2>1. CASE Sfu!Fp16Latch
    BY <1>2, <1>3, <1>5, <2>1 DEF Sfu!Fp16Latch, Sfu!LineLatch, Sfu!Goto, Sfu!QuietA
  <2>2. CASE Sfu!Fp32Latch
    BY <1>2, <1>3, <1>5, <2>2 DEF Sfu!Fp32Latch, Sfu!LineLatch, Sfu!Goto, Sfu!QuietA
  <2> QED
    BY <2>1, <2>2
<1> HIDE DEF again
<1>10. /\ sLatch'.line = Sfu!Loaded(sLatch.line, read, lanes)
       /\ sLatch'.gamma = sLatch.gamma /\ sLatch'.beta = sLatch.beta
  <2>1. PICK line, gamma, beta, out, word, gelu, gelu0, gelu1 :
          sLatch = [line |-> line, gamma |-> gamma, beta |-> beta, out |-> out, word |-> word,
                    gelu |-> gelu, gelu0 |-> gelu0, gelu1 |-> gelu1]
    BY DEF ShapeInv
  <2> QED
    BY ONLY <1>9, <2>1
<1>11. ASSUME NEW i \in Upto(elems), i \div lanes < read + 1
       PROVE  sLatch'.line[i] = SfuSource(sJob, before, row, i)
  <2>1. i \in Nat
    BY DEF Upto
  <2>2. PICK q \in Nat : q = i \div lanes
    BY <1>6, <2>1, DivMod
  <2>3. SfuSource(sJob, before, row, i) = SourceAt(sJob, before, row, q, i % lanes)
    BY <2>2 DEF SfuSource, SourceAt, lanes
  <2>4. sLatch'.line[i] = IF q = read THEN rdataB[i % lanes] ELSE sLatch.line[i]
    BY <1>2, <1>4, <1>10, <2>2, LoadedRow
  <2>5. q = read \/ q < read
    BY <1>11, <2>2
  <2> QED
    BY <1>8, <2>2, <2>3, <2>4, <2>5
<1>12. sJob'.op = "LAYERNORM" => NormInv'
  <2>1. \A i \in Upto(Sfu!Elems(sJob)) :
          sJob.op = "LAYERNORM" =>
            /\ sLatch.gamma[i] = SfuParam(sJob, before, i)
            /\ sLatch.beta[i] = SfuParam(sJob, before, Sfu!Elems(sJob) + i)
    BY <1>7 DEF NormInv
  <2>2. \A i \in Upto(Sfu!Elems(sJob)) :
          sJob.op = "LAYERNORM" =>
            /\ sLatch'.gamma[i] = SfuParam(sJob, before, i)
            /\ sLatch'.beta[i] = SfuParam(sJob, before, Sfu!Elems(sJob) + i)
    BY <1>10, <2>1
  <2> QED
    BY <1>9, <2>2 DEF NormInv
<1>13. ASSUME sAt'.row = row, sState' \in LineOut => sAt'.chunk = 0
       PROVE  mem' = Image(before, sJob.dst, SfuWords(sJob, before), Upto(SfuDone))'
  <2>1. SfuDone = row * w + 0
    BY <1>1, <1>2 DEF SfuDone, LineOut, Gelu16W, Gelu32W
  <2>2. sState' \in {"FP16_REQ", "FP32_REQ", "COMPUTE"}
    BY <1>9 DEF again
  <2>3. SfuDone' = row * w + 0
    BY <1>2, <1>9, <1>13, <2>2 DEF SfuDone, LineOut, Gelu16W, Gelu32W
  <2>4. SfuWords(sJob, before)' = SfuWords(sJob, before)
    BY <1>9, SameSfu
  <2>5. Upto(SfuDone)' = Upto(SfuDone)
    BY <2>1, <2>3
  <2> QED
    BY <1>7, <1>9, <2>4, <2>5
<1>14. CASE read + 1 < v /\ sAt' = [sAt EXCEPT !.read = @ + 1] /\ sState' = again
  <2>1. sAt'.row = row /\ sAt'.read = read + 1
    BY <1>2, <1>3, <1>14 DEF SfuCounters
  <2>2. sState' \in {"FP16_REQ", "FP32_REQ"}
    BY <1>14 DEF again
  <2>3. \A i \in Upto(Sfu!Elems(sJob))' :
          i \div Lanes(sJob'.src1.buf) < sAt'.read =>
            sLatch'.line[i] = SfuSource(sJob, before, sAt.row, i)'
    BY <1>2, <1>9, <1>11, <2>1, SameSfu DEF lanes
  <2>4. LineInv'
    BY <2>2, <2>3 DEF LineInv, LineOut
  <2> QED
    BY <1>12, <1>13, <2>1, <2>2, <2>4
    DEF SfuStands, Params, Gelu16W, Gelu32W, LineOut
<1>15. CASE ~(read + 1 < v) /\ sAt' = [sAt EXCEPT !.chunk = 0] /\ sState' = "COMPUTE"
  <2>1. sAt'.row = row /\ sAt'.chunk = 0
    BY <1>2, <1>3, <1>15 DEF SfuCounters
  <2>2. ASSUME NEW i \in Upto(elems) PROVE i \div lanes < read + 1
    <3>1. i \in Nat /\ i < v * lanes
      BY <1>2, <1>5 DEF Upto, lanes
    <3>2. PICK q \in Nat : q = i \div lanes /\ q < v
      BY <1>6, <3>1, QuotientBound
    <3> QED
      BY <1>2, <1>15, <3>2
  <2>3. \A i \in Upto(Sfu!Elems(sJob))' :
          sLatch'.line[i] = SfuSource(sJob, before, sAt.row, i)'
    BY <1>2, <1>9, <1>11, <2>1, <2>2, SameSfu
  <2>4. LineInv'
    BY <1>15, <2>3 DEF LineInv
  <2> QED
    BY <1>12, <1>13, <1>15, <2>1, <2>4
    DEF SfuStands, Params, Gelu16W, Gelu32W, LineOut
<1> QED
  BY <1>9, <1>14, <1>15

\* A line is computed from its registers.
LEMMA ComputeGoes ==
  ASSUME SfuInv, ShapeInv, SfuStands, Sfu!Compute, before' = before
  PROVE  sState' # "IDLE" /\ SfuStands'
<1>1. sState = "COMPUTE" /\ Sfu!Busy
  BY DEF Sfu!Compute, Sfu!Busy
<1>2. PICK w, row, elems \in Nat :
        /\ w = 2 * sJob.n /\ row = sAt.row
        /\ elems = Sfu!Elems(sJob) /\ elems = w * Half
  BY <1>1, SfuHere
<1>3. sJob.op \in {"SOFTMAX", "LAYERNORM"} /\ elems <= MaxRow
  <2>1. /\ SfuAccepted(sJob) /\ SfuWalk(sJob, sAt, sState)
        /\ sJob.op \in {"SOFTMAX", "LAYERNORM", "GELU"}
    BY <1>1, SfuHere
  <2>2. sJob.op # "GELU"
    BY <1>1, <2>1 DEF SfuWalk, LineOut
  <2>3. ~(Sfu!Elems(sJob) > MaxRow)
    BY <2>1, <2>2 DEF SfuAccepted, Sfu!Unsupported
  <2> QED
    BY <1>2, <2>1, <2>2, <2>3, JobAssumption
<1>4. /\ LineInv /\ (sJob.op = "LAYERNORM" => NormInv)
      /\ mem = Image(before, sJob.dst, SfuWords(sJob, before), Upto(SfuDone))
  BY <1>1 DEF SfuStands, LineOut
<1>5. \A i \in Upto(elems) : sLatch.line[i] = SfuSource(sJob, before, row, i)
  BY <1>1, <1>2, <1>4 DEF LineInv, LineOut
<1>6. sJob.op = "LAYERNORM" => \A i \in Upto(elems) :
        /\ sLatch.gamma[i] = SfuParam(sJob, before, i)
        /\ sLatch.beta[i] = SfuParam(sJob, before, elems + i)
  BY <1>2, <1>4 DEF NormInv
<1>7. /\ sState' = "PACK" /\ sJob' = sJob /\ sAt' = sAt /\ mem' = mem
      /\ sLatch' = [sLatch EXCEPT !.out = [i \in 0 .. MaxRow - 1 |->
                                            IF i < Sfu!Elems(sJob) THEN Sfu!Output(i) ELSE @[i]]]
  BY DEF Sfu!Compute, Sfu!Goto, Sfu!QuietA
<1>8. /\ sLatch'.out = [i \in 0 .. MaxRow - 1 |->
                         IF i < elems THEN Sfu!Output(i) ELSE sLatch.out[i]]
      /\ sLatch'.line = sLatch.line
      /\ sLatch'.gamma = sLatch.gamma /\ sLatch'.beta = sLatch.beta
  <2>1. PICK line, gamma, beta, out, word, gelu, gelu0, gelu1 :
          sLatch = [line |-> line, gamma |-> gamma, beta |-> beta, out |-> out, word |-> word,
                    gelu |-> gelu, gelu0 |-> gelu0, gelu1 |-> gelu1]
    BY DEF ShapeInv
  <2> HIDE DEF Sfu!Output
  <2> QED
    BY ONLY <1>2, <1>7, <2>1
<1>9. Sfu!InOrder(sLatch.line) = SfuLine(sJob, before, row)
  <2>1. ASSUME NEW i \in 1 .. elems
        PROVE  sLatch.line[i - 1] = SfuSource(sJob, before, row, i - 1)
    <3>1. i - 1 \in Upto(elems)
      BY <1>2 DEF Upto
    <3> QED
      BY <1>5, <3>1
  <2> HIDE DEF Sfu!Elems
  <2> QED
    BY <1>2, <2>1 DEF Sfu!InOrder, SfuLine
<1>10. ASSUME NEW i \in Upto(elems)
       PROVE  sLatch'.out[i] = SfuValue(sJob, before, row, i)
  <2>1. i \in 0 .. MaxRow - 1 /\ i < elems
    BY <1>2, <1>3, JobAssumption DEF Upto
  <2>2. sLatch'.out[i] = Sfu!Output(i)
    BY <1>8, <2>1
  <2>3. sLatch.line[i] = SfuSource(sJob, before, row, i)
    BY <1>5
  <2>4. CASE sJob.op = "SOFTMAX"
    BY <1>9, <2>2, <2>3, <2>4
    DEF Sfu!Output, Sfu!Fp16, Fp16, Sfu!Softmax, Softmax, SfuValue
  <2>5. CASE sJob.op = "LAYERNORM"
    <3>1. /\ sLatch.gamma[i] = SfuParam(sJob, before, i)
          /\ sLatch.beta[i] = SfuParam(sJob, before, Sfu!Elems(sJob) + i)
      BY <1>2, <1>6, <2>5
    <3> HIDE DEF Sfu!Elems
    <3> QED
      BY <1>9, <2>2, <2>3, <2>5, <3>1
      DEF Sfu!Output, Sfu!Fp16, Fp16, Sfu!Norm, Norm, SfuValue
  <2> QED
    BY <1>3, <2>4, <2>5
<1>11. LineInv'
  BY <1>2, <1>5, <1>7, <1>8, <1>10, SameSfu DEF LineInv
<1>12. sJob'.op = "LAYERNORM" => NormInv'
  BY <1>2, <1>6, <1>7, <1>8, SameSfu DEF NormInv
<1>13. mem' = Image(before, sJob.dst, SfuWords(sJob, before), Upto(SfuDone))'
  <2>1. SfuDone' = SfuDone
    BY <1>1, <1>7 DEF SfuDone, LineOut
  <2>2. SfuWords(sJob, before)' = SfuWords(sJob, before)
    BY <1>7, SameSfu
  <2> QED
    BY <1>4, <1>7, <2>1, <2>2
<1> QED
  BY <1>7, <1>11, <1>12, <1>13 DEF SfuStands, Params, Line16, Line32, Gelu16W, Gelu32W

\* A word of it is taken.
LEMMA PackGoes ==
  ASSUME SfuInv, ShapeInv, SfuStands, Sfu!Pack, before' = before
  PROVE  sState' # "IDLE" /\ SfuStands'
<1>1. sState = "PACK" /\ Sfu!Busy
  BY DEF Sfu!Pack, Sfu!Busy
<1>2. PICK w, row, chunk, elems \in Nat :
        /\ w = 2 * sJob.n /\ row = sAt.row /\ chunk = sAt.chunk
        /\ elems = Sfu!Elems(sJob) /\ elems = w * Half
  BY <1>1, SfuHere
<1>3. chunk < w /\ Sfu!Half = Half
  BY <1>1, <1>2, SfuHere DEF SfuWalk, LineOut
<1>4. /\ LineInv /\ (sJob.op = "LAYERNORM" => NormInv)
      /\ mem = Image(before, sJob.dst, SfuWords(sJob, before), Upto(SfuDone))
  BY <1>1 DEF SfuStands, LineOut
<1>5. /\ \A i \in Upto(elems) : sLatch.line[i] = SfuSource(sJob, before, row, i)
      /\ \A i \in Upto(elems) : sLatch.out[i] = SfuValue(sJob, before, row, i)
  BY <1>1, <1>2, <1>4 DEF LineInv, LineOut
<1>6. sJob.op = "LAYERNORM" => \A i \in Upto(elems) :
        /\ sLatch.gamma[i] = SfuParam(sJob, before, i)
        /\ sLatch.beta[i] = SfuParam(sJob, before, elems + i)
  BY <1>2, <1>4 DEF NormInv
<1>7. /\ sState' = "WRITE" /\ sJob' = sJob /\ sAt' = sAt /\ mem' = mem
      /\ sLatch' = [sLatch EXCEPT !.word = [x \in 0 .. Half - 1 |-> sLatch.out[chunk * Half + x]]]
  BY <1>2, <1>3 DEF Sfu!Pack, Sfu!Goto, Sfu!QuietA
<1>8. /\ sLatch'.word = [x \in 0 .. Half - 1 |-> sLatch.out[chunk * Half + x]]
      /\ sLatch'.line = sLatch.line /\ sLatch'.out = sLatch.out
      /\ sLatch'.gamma = sLatch.gamma /\ sLatch'.beta = sLatch.beta
  <2>1. PICK line, gamma, beta, out, word, gelu, gelu0, gelu1 :
          sLatch = [line |-> line, gamma |-> gamma, beta |-> beta, out |-> out, word |-> word,
                    gelu |-> gelu, gelu0 |-> gelu0, gelu1 |-> gelu1]
    BY DEF ShapeInv
  <2> QED
    BY ONLY <1>7, <2>1
<1>9. sLatch'.word = [x \in 0 .. Half - 1 |-> SfuValue(sJob, before, row, chunk * Half + x)]
  <2>1. ASSUME NEW x \in 0 .. Half - 1
        PROVE  sLatch.out[chunk * Half + x] = SfuValue(sJob, before, row, chunk * Half + x)
    <3>1. x \in Nat /\ x < Half /\ Half \in Nat
      BY DimFacts
    <3>2. chunk * Half + x \in Nat /\ chunk * Half + x < w * Half
      BY <1>2, <1>3, <3>1, Block
    <3>3. chunk * Half + x \in Upto(elems)
      BY <1>2, <3>2 DEF Upto
    <3> QED
      BY <1>5, <3>3
  <2> QED
    BY <1>8, <2>1
<1>10. LineInv'
  <2>1. Half' = Half
    BY DEF Half
  <2> QED
    BY <1>2, <1>5, <1>7, <1>8, <1>9, <2>1, SameSfu DEF LineInv
<1>11. sJob'.op = "LAYERNORM" => NormInv'
  BY <1>2, <1>6, <1>7, <1>8, SameSfu DEF NormInv
<1>12. mem' = Image(before, sJob.dst, SfuWords(sJob, before), Upto(SfuDone))'
  <2>1. SfuDone' = SfuDone
    BY <1>1, <1>7 DEF SfuDone, LineOut
  <2>2. SfuWords(sJob, before)' = SfuWords(sJob, before)
    BY <1>7, SameSfu
  <2> QED
    BY <1>4, <1>7, <2>1, <2>2
<1> QED
  BY <1>7, <1>10, <1>11, <1>12 DEF SfuStands, Params, Line16, Line32, Gelu16W, Gelu32W

\* The word is written.
LEMMA WriteGoes ==
  ASSUME SfuInv, ShapeInv, SfuStands, Sfu!Write, before' = before
  PROVE  \/ sState' # "IDLE" /\ SfuStands'
         \/ sState' = "IDLE" /\ mem' = Sfu!Result(sJob, before)
<1>1. sState = "WRITE" /\ Sfu!Busy
  BY DEF Sfu!Write, Sfu!Busy
<1>2. PICK w, lines, row, chunk, elems \in Nat :
        /\ w = 2 * sJob.n /\ lines = sJob.m * Dim /\ row = sAt.row /\ chunk = sAt.chunk
        /\ elems = Sfu!Elems(sJob)
  <2>1. PICK n, lines, w, row, read, chunk, part, elems, rows \in Nat :
          /\ n = sJob.n /\ w = 2 * n /\ 0 < w /\ lines = sJob.m * Dim
          /\ row = sAt.row /\ read = sAt.read /\ chunk = sAt.chunk /\ part = sAt.part
          /\ elems = Sfu!Elems(sJob) /\ elems = w * Half /\ row < lines
          /\ rows = MatrixRows(sJob.dst, sJob) /\ rows = lines * w
    BY <1>1, SfuHere
  <2> QED
    BY <2>1
<1>3. /\ chunk < w /\ Sfu!Words(sJob) = w /\ sAt \in SfuCounters
      /\ sJob.src1.buf = "ACCUM" => sJob.op # "LAYERNORM"
  <2>1. /\ SfuWalk(sJob, sAt, sState) /\ sJob \in SfuJobs /\ sAt \in SfuCounters
        /\ SfuAccepted(sJob)
    BY <1>1, SfuHere
  <2>2. sJob.src1.buf = "ACCUM" => sJob.op # "LAYERNORM"
    BY <2>1 DEF SfuAccepted, Sfu!Unsupported
  <2> QED
    BY <1>1, <1>2, <2>1, <2>2, SfuSizes DEF SfuWalk, LineOut
<1>4. /\ LineInv /\ (sJob.op = "LAYERNORM" => NormInv)
      /\ mem = Image(before, sJob.dst, SfuWords(sJob, before), Upto(SfuDone))
  BY <1>1 DEF SfuStands, LineOut
<1>5. /\ \A i \in Upto(elems) : sLatch.line[i] = SfuSource(sJob, before, row, i)
      /\ \A i \in Upto(elems) : sLatch.out[i] = SfuValue(sJob, before, row, i)
      /\ sLatch.word = [x \in 0 .. Half - 1 |->
                         SfuValue(sJob, before, sAt.row, sAt.chunk * Half + x)]
  BY <1>1, <1>2, <1>4 DEF LineInv, LineOut
<1>6. sJob.op = "LAYERNORM" => \A i \in Upto(elems) :
        /\ sLatch.gamma[i] = SfuParam(sJob, before, i)
        /\ sLatch.beta[i] = SfuParam(sJob, before, elems + i)
  BY <1>2, <1>4 DEF NormInv
<1>7. /\ sJob' = sJob /\ sLatch' = sLatch
      /\ mem' = [mem EXCEPT ![sJob.dst.buf][Sfu!DstRow] = sLatch.word]
      /\ \/ chunk + 1 < w /\ sAt' = [sAt EXCEPT !.chunk = @ + 1] /\ sState' = "PACK"
         \/ /\ ~(chunk + 1 < w) /\ row + 1 < lines /\ sState' = Sfu!LineState(sJob)
            /\ sAt' = [sAt EXCEPT !.row = @ + 1, !.read = 0, !.chunk = 0]
         \/ ~(chunk + 1 < w) /\ ~(row + 1 < lines) /\ sState' = "IDLE"
  BY <1>2, <1>3 DEF Sfu!Write, Sfu!WriteA, Sfu!Goto, Sfu!NextLine
<1>8. PICK done : done = sAt.row * (2 * sJob.n) + sAt.chunk /\ SfuDone = done
  BY <1>1 DEF SfuDone, LineOut
<1>9. /\ done \in Nat
      /\ mem' = Image(before, sJob.dst, SfuWords(sJob, before), Upto(done + 1))
  BY <1>1, <1>2, <1>3, <1>4, <1>5, <1>7, <1>8, SfuWrite
<1>10. sJob'.op = "LAYERNORM" => NormInv'
  BY <1>2, <1>6, <1>7, SameSfu DEF NormInv
<1>11. CASE chunk + 1 < w /\ sAt' = [sAt EXCEPT !.chunk = @ + 1] /\ sState' = "PACK"
  <2>1. sAt'.chunk = sAt.chunk + 1 /\ sAt'.row = sAt.row
    BY <1>3, <1>11 DEF SfuCounters
  <2>2. mem' = Image(before, sJob.dst, SfuWords(sJob, before), Upto(SfuDone))'
    BY <1>1, <1>2, <1>3, <1>7, <1>8, <1>9, <1>11, <2>1, SfuMoves DEF LineOut
  <2>3. LineInv'
    BY <1>2, <1>5, <1>7, <1>11, <2>1, SameSfu DEF LineInv
  <2> QED
    BY <1>10, <1>11, <2>2, <2>3 DEF SfuStands, Params, Line16, Line32, Gelu16W, Gelu32W
<1>12. CASE /\ ~(chunk + 1 < w) /\ row + 1 < lines /\ sState' = Sfu!LineState(sJob)
            /\ sAt' = [sAt EXCEPT !.row = @ + 1, !.read = 0, !.chunk = 0]
  <2>1. sAt'.chunk = 0 /\ sAt'.row = sAt.row + 1 /\ sAt'.read = 0
    BY <1>3, <1>12 DEF SfuCounters
  <2>2. sState' \in {"FP16_REQ", "FP32_REQ"}
    BY <1>12 DEF Sfu!LineState
  <2>3. mem' = Image(before, sJob.dst, SfuWords(sJob, before), Upto(SfuDone))'
    BY <1>1, <1>2, <1>3, <1>7, <1>8, <1>9, <1>12, <2>1, <2>2, SfuMoves
  <2>4. LineInv'
    <3>1. ASSUME NEW i \in Upto(elems) PROVE ~(i \div Lanes(sJob'.src1.buf) < 0)
      <4>1. i \in Nat
        BY DEF Upto
      <4>2. i \div Lanes(sJob'.src1.buf) \in Nat
        BY <4>1, LaneFacts, DivMod
      <4> QED
        BY <4>2
    <3>2. Sfu!Elems(sJob)' = elems
      BY <1>2, <1>7, SameSfu
    <3> QED
      BY <2>1, <2>2, <3>1, <3>2 DEF LineInv, LineOut, Lanes, Half, Group
  <2> QED
    BY <1>10, <2>2, <2>3, <2>4 DEF SfuStands, Params, LineOut, Gelu16W, Gelu32W
<1>13. CASE ~(chunk + 1 < w) /\ ~(row + 1 < lines) /\ sState' = "IDLE"
  <2>1. mem' = Sfu!Result(sJob, before)
    BY <1>1, <1>2, <1>3, <1>7, <1>8, <1>9, <1>13, SfuMoves
  <2> QED
    BY <1>13, <2>1
<1> QED
  BY <1>7, <1>11, <1>12, <1>13

\* Asking for a row of a GELU: no row from there on has been written over.
LEMMA GeluRequestGoes ==
  ASSUME SfuInv, ShapeInv, SfuStands, Sfu!Defined(sJob),
         Sfu!Gelu16Request \/ Sfu!Gelu32Request, before' = before
  PROVE  sState' # "IDLE" /\ SfuStands'
<1> DEFINE x == IF sState = "GELU16_REQ" THEN sAt.chunk ELSE 2 * sAt.chunk + sAt.part
           place == Sfu!LineStart(sJob.src1) + x
<1>1. sState \in {"GELU16_REQ", "GELU32_REQ"} /\ Sfu!Busy
  BY DEF Sfu!Gelu16Request, Sfu!Gelu32Request, Sfu!Request, Sfu!Busy
<1>2. PICK w, row, chunk, part \in Nat :
        w = 2 * sJob.n /\ row = sAt.row /\ chunk = sAt.chunk /\ part = sAt.part
  BY <1>1, SfuHere
<1>3. SfuWalk(sJob, sAt, sState) /\ sJob.src1.buf \in Buffers /\ sJob.n \in Nat
  BY <1>1, SfuHere, SfuJobTypes
<1>4. PICK v \in Nat : /\ v = LineRows(sJob.src1.buf, sJob.n) /\ (v = w \/ v = w + w)
                       /\ x \in Nat /\ chunk <= x /\ x < v
  <2>1. CASE sState = "GELU16_REQ"
    <3>1. chunk < w /\ sJob.src1.buf # "ACCUM" /\ x = chunk
      BY <1>2, <1>3, <2>1 DEF SfuWalk, Gelu16W
    <3> HIDE DEF x
    <3> QED
      BY <1>2, <1>3, <3>1 DEF LineRows
  <2>2. CASE sState = "GELU32_REQ"
    <3>1. chunk < w /\ sJob.src1.buf = "ACCUM" /\ part \in {0, 1} /\ x = 2 * chunk + part
      BY <1>2, <1>3, <2>2 DEF SfuWalk, Gelu32W
    <3>2. LineRows(sJob.src1.buf, sJob.n) = w + w
      BY <1>2, <1>3, <3>1 DEF LineRows
    <3> HIDE DEF x
    <3> QED
      BY <1>2, <3>1, <3>2
  <2> QED
    BY <1>1, <2>1, <2>2
<1>5. PICK done \in Nat : done = row * w + chunk /\ SfuDone = done /\ done <= row * v + x
  <2>1. SfuDone = row * w + chunk
    BY <1>1, <1>2 DEF SfuDone, Gelu16W, Gelu32W
  <2>2. PICK p \in Nat : p = row * w
    BY NatProduct
  <2>3. row * v = p \/ row * v = p + p
    BY <1>2, <1>4, <2>2
  <2> HIDE DEF x
  <2> QED
    BY <1>4, <2>1, <2>2, <2>3
<1>6. mem = Image(before, sJob.dst, SfuWords(sJob, before), Upto(done))
  BY <1>5 DEF SfuStands
<1> HIDE DEF x
<1>7. Held(mem, sJob.src1.buf, place) = Held(before, sJob.src1.buf, place)
  BY <1>1, <1>2, <1>4, <1>5, <1>6, SfuReads
<1>8. /\ sState = "GELU16_REQ" => place = Sfu!Gelu16Row
      /\ sState = "GELU32_REQ" => place = Sfu!Gelu32Row
  <2>1. sState = "GELU16_REQ" => place = Sfu!Gelu16Row
    BY DEF x, Sfu!Gelu16Row
  <2>2. ASSUME sState = "GELU32_REQ" PROVE place = Sfu!Gelu32Row
    <3>1. sJob.src1.off \in Nat /\ LineRows(sJob.src1.buf, sJob.n) = v
      BY <1>1, <1>4, SfuHere
    <3>2. PICK p \in Nat : p = row * v
      BY NatProduct
    <3>3. PICK start \in Nat : start = Sfu!LineStart(sJob.src1)
      <4>1. Sfu!LineStart(sJob.src1) = sJob.src1.off + p
        BY <1>2, <3>1, <3>2 DEF Sfu!LineStart, Sfu!LineRows, LineRows
      <4> QED
        BY <3>1, <4>1
    <3>4. place = start + (2 * chunk + part) /\ Sfu!Gelu32Row = start + 2 * chunk + part
      BY <1>2, <2>2, <3>3 DEF x, Sfu!Gelu32Row
    <3> QED
      BY <3>4
  <2> QED
    BY <2>1, <2>2
<1>9. /\ sJob' = sJob /\ sAt' = sAt /\ sLatch' = sLatch /\ mem' = mem
      /\ \/ /\ sState = "GELU16_REQ" /\ sState' = "GELU16_LATCH"
            /\ rdataB' = Held(mem, sJob.src1.buf, Sfu!Gelu16Row)
         \/ /\ sState = "GELU32_REQ" /\ sState' = "GELU32_LATCH"
            /\ rdataB' = Held(mem, sJob.src1.buf, Sfu!Gelu32Row)
  BY DEF Sfu!Gelu16Request, Sfu!Gelu32Request, Sfu!Request, Sfu!ReadB, Sfu!QuietA, Sfu!Goto, Held
<1> HIDE DEF place
<1>10. /\ sState' = "GELU16_LATCH" => rdataB' = Held(before, sJob.src1.buf, Sfu!Gelu16Row)
       /\ sState' = "GELU32_LATCH" => rdataB' = Held(before, sJob.src1.buf, Sfu!Gelu32Row)
  BY <1>7, <1>8, <1>9
<1>11. GeluInv
  BY <1>1 DEF SfuStands, Gelu16W, Gelu32W
<1>12. GeluInv'
  <2>1. /\ Sfu!Gelu16Row' = Sfu!Gelu16Row /\ Sfu!Gelu32Row' = Sfu!Gelu32Row
        /\ Sfu!LineStart(sJob.src1)' = Sfu!LineStart(sJob.src1)
    BY <1>9 DEF Sfu!Gelu16Row, Sfu!Gelu32Row, Sfu!LineStart
  <2>2. sState \in Gelu32W /\ sAt.part = 1 =>
          sLatch.gelu0 = before[sJob.src1.buf][Sfu!LineStart(sJob.src1) + 2 * sAt.chunk]
    BY <1>11 DEF GeluInv
  <2> HIDE DEF Sfu!LineStart
  <2> QED
    BY <1>9, <1>10, <2>1, <2>2 DEF GeluInv, Gelu32W, Held
<1>13. mem' = Image(before, sJob.dst, SfuWords(sJob, before), Upto(SfuDone))'
  <2>1. SfuDone' = SfuDone
    BY <1>9 DEF SfuDone, LineOut, Gelu16W, Gelu32W
  <2>2. SfuWords(sJob, before)' = SfuWords(sJob, before)
    BY <1>9, SameSfu
  <2> QED
    BY <1>5, <1>6, <1>9, <2>1, <2>2
<1> QED
  BY <1>9, <1>12, <1>13 DEF SfuStands, Params, Line16, Line32, LineOut

\* The row goes to its register.
LEMMA GeluLatchGoes ==
  ASSUME SfuInv, ShapeInv, SfuStands, Sfu!Gelu16Latch \/ Sfu!Gelu32Latch, before' = before
  PROVE  sState' # "IDLE" /\ SfuStands'
<1>1. sState \in {"GELU16_LATCH", "GELU32_LATCH"} /\ Sfu!Busy
  BY DEF Sfu!Gelu16Latch, Sfu!Gelu32Latch, Sfu!Busy
<1>2. /\ GeluInv /\ sAt \in SfuCounters /\ SfuWalk(sJob, sAt, sState)
      /\ mem = Image(before, sJob.dst, SfuWords(sJob, before), Upto(SfuDone))
  BY <1>1, SfuHere DEF SfuStands, Gelu16W, Gelu32W
<1>3. PICK line, gamma, beta, out, word, gelu, gelu0, gelu1 :
        sLatch = [line |-> line, gamma |-> gamma, beta |-> beta, out |-> out, word |-> word,
                  gelu |-> gelu, gelu0 |-> gelu0, gelu1 |-> gelu1]
  BY DEF ShapeInv
<1>4. /\ sJob' = sJob /\ mem' = mem
      /\ \/ /\ sState = "GELU16_LATCH" /\ sState' = "GELU16_WRITE" /\ sAt' = sAt
            /\ sLatch' = [sLatch EXCEPT !.gelu = rdataB]
         \/ /\ sState = "GELU32_LATCH" /\ sAt.part = 0 /\ sState' = "GELU32_REQ"
            /\ sAt' = [sAt EXCEPT !.part = 1] /\ sLatch' = [sLatch EXCEPT !.gelu0 = rdataB]
         \/ /\ sState = "GELU32_LATCH" /\ sAt.part # 0 /\ sState' = "GELU32_WRITE" /\ sAt' = sAt
            /\ sLatch' = [sLatch EXCEPT !.gelu1 = rdataB]
  BY DEF Sfu!Gelu16Latch, Sfu!Gelu32Latch, Sfu!QuietA, Sfu!Goto
<1>5. ASSUME sAt'.row = sAt.row, sAt'.chunk = sAt.chunk
      PROVE  mem' = Image(before, sJob.dst, SfuWords(sJob, before), Upto(SfuDone))'
  <2>1. SfuDone' = SfuDone
    BY <1>1, <1>4, <1>5 DEF SfuDone, LineOut, Gelu16W, Gelu32W
  <2>2. SfuWords(sJob, before)' = SfuWords(sJob, before)
    BY <1>4, SameSfu
  <2> QED
    BY <1>2, <1>4, <2>1, <2>2
<1>6. CASE /\ sState = "GELU16_LATCH" /\ sState' = "GELU16_WRITE" /\ sAt' = sAt
           /\ sLatch' = [sLatch EXCEPT !.gelu = rdataB]
  <2>1. sLatch'.gelu = rdataB
    BY ONLY <1>3, <1>6
  <2>2. Sfu!Gelu16Row' = Sfu!Gelu16Row
    BY <1>4, <1>6 DEF Sfu!Gelu16Row, Sfu!LineStart
  <2>3. rdataB = before[sJob.src1.buf][Sfu!Gelu16Row]
    BY <1>2, <1>6 DEF GeluInv
  <2>4. GeluInv'
    BY <1>4, <1>6, <2>1, <2>2, <2>3 DEF GeluInv, Gelu32W
  <2> QED
    BY <1>5, <1>6, <2>4 DEF SfuStands, Params, Line16, Line32, LineOut
<1>7. ASSUME sState = "GELU32_LATCH"
      PROVE  \A k \in {0, 1} : sAt.part = k =>
               rdataB = Held(before, sJob.src1.buf,
                             Sfu!LineStart(sJob.src1) + 2 * sAt.chunk + k)
  <2>1. rdataB = before[sJob.src1.buf][Sfu!Gelu32Row]
    BY <1>2, <1>7 DEF GeluInv
  <2> QED
    BY <2>1 DEF Sfu!Gelu32Row, Held
<1>8. PICK start, chunk \in Nat : start = Sfu!LineStart(sJob.src1) /\ chunk = sAt.chunk
  <2>1. PICK row, more \in Nat : row = sAt.row /\ more = sAt.chunk
    BY <1>1, SfuHere
  <2>2. sJob.src1.off \in Nat /\ sJob.n \in Nat
    BY <1>1, SfuHere, SfuJobTypes
  <2>3. PICK v \in Nat : v = LineRows(sJob.src1.buf, sJob.n)
    BY <2>2 DEF LineRows
  <2>4. PICK p \in Nat : p = row * v
    BY NatProduct
  <2>5. Sfu!LineStart(sJob.src1) = sJob.src1.off + p
    BY <2>1, <2>3, <2>4 DEF Sfu!LineStart, Sfu!LineRows, LineRows
  <2> QED
    BY <2>1, <2>2, <2>5
<1>9. CASE /\ sState = "GELU32_LATCH" /\ sAt.part = 0 /\ sState' = "GELU32_REQ"
           /\ sAt' = [sAt EXCEPT !.part = 1] /\ sLatch' = [sLatch EXCEPT !.gelu0 = rdataB]
  <2>1. sLatch'.gelu0 = rdataB
    BY ONLY <1>3, <1>9
  <2>2. sAt'.row = sAt.row /\ sAt'.chunk = sAt.chunk
    BY <1>2, <1>9 DEF SfuCounters
  <2>3. Sfu!LineStart(sJob.src1)' = start
    BY <1>4, <1>8, <2>2 DEF Sfu!LineStart
  <2>4. rdataB = Held(before, sJob.src1.buf, start + 2 * chunk)
    <3>1. rdataB = Held(before, sJob.src1.buf, start + 2 * chunk + 0)
      BY <1>7, <1>8, <1>9
    <3>2. start + 2 * chunk + 0 = start + 2 * chunk
      OBVIOUS
    <3> QED
      BY <3>1, <3>2
  <2>5. GeluInv'
    BY <1>4, <1>8, <1>9, <2>1, <2>2, <2>3, <2>4 DEF GeluInv, Held
  <2> QED
    BY <1>5, <1>9, <2>2, <2>5 DEF SfuStands, Params, Line16, Line32, LineOut
<1>10. CASE /\ sState = "GELU32_LATCH" /\ sAt.part # 0 /\ sState' = "GELU32_WRITE" /\ sAt' = sAt
            /\ sLatch' = [sLatch EXCEPT !.gelu1 = rdataB]
  <2>1. sLatch'.gelu1 = rdataB /\ sLatch'.gelu0 = sLatch.gelu0
    BY ONLY <1>3, <1>10
  <2>2. sAt.part = 1
    BY <1>2, <1>10 DEF SfuWalk, Gelu32W
  <2>3. Sfu!LineStart(sJob.src1)' = start
    BY <1>4, <1>8, <1>10 DEF Sfu!LineStart
  <2>4. rdataB = Held(before, sJob.src1.buf, start + 2 * chunk + 1)
    BY <1>7, <1>8, <1>10, <2>2
  <2>5. sLatch.gelu0 = Held(before, sJob.src1.buf, start + 2 * chunk)
    BY <1>2, <1>8, <1>10, <2>2 DEF GeluInv, Gelu32W, Held
  <2>6. GeluInv'
    BY <1>4, <1>8, <1>10, <2>1, <2>2, <2>3, <2>4, <2>5 DEF GeluInv, Held
  <2> QED
    BY <1>5, <1>10, <2>6 DEF SfuStands, Params, Line16, Line32, LineOut
<1> QED
  BY <1>4, <1>6, <1>9, <1>10

\* The place of lane x of word c in a line.
GeluWord(c, x, h) == c * h + x

\* It is in the one row of the source that the word is, or in one of its two.
LEMMA GeluPlace ==
  ASSUME NEW j, NEW memory, NEW line, NEW c \in Nat, NEW x \in 0 .. Half - 1
  PROVE  /\ j.src1.buf # "ACCUM" =>
              SfuSource(j, memory, line, GeluWord(c, x, Half)) = SourceAt(j, memory, line, c, x)
         /\ j.src1.buf = "ACCUM" /\ x < Group =>
              SfuSource(j, memory, line, GeluWord(c, x, Half))
                = SourceAt(j, memory, line, 2 * c, x)
         /\ j.src1.buf = "ACCUM" /\ ~(x < Group) =>
              SfuSource(j, memory, line, GeluWord(c, x, Half))
                = SourceAt(j, memory, line, 2 * c + 1, x - Group)
<1>1. PICK g, h \in Nat : g = Group /\ h = Half /\ 0 < g /\ h = 2 * g
  BY LaneFacts
<1>2. x \in Nat /\ x < h
  BY <1>1
<1>3. PICK i : i = GeluWord(c, x, Half) /\ i = c * h + x
  BY <1>1 DEF GeluWord
<1>4. \A a \in Nat, b \in Nat, l \in Nat : b < l /\ i = a * l + b => i \div l = a /\ i % l = b
  <2> SUFFICES ASSUME NEW a \in Nat, NEW b \in Nat, NEW l \in Nat, b < l, i = a * l + b
               PROVE  i \div l = a /\ i % l = b
    OBVIOUS
  <2>1. AtGroup(l, a + 1, b, a, i)
    BY DEF AtGroup
  <2> QED
    BY ONLY <2>1, BiasPlace
<1>5. ASSUME NEW a, NEW b, i \div Lanes(j.src1.buf) = a, i % Lanes(j.src1.buf) = b
      PROVE  SfuSource(j, memory, line, i) = SourceAt(j, memory, line, a, b)
  BY <1>5 DEF SfuSource, SourceAt
<1>6. ASSUME j.src1.buf # "ACCUM"
      PROVE  SfuSource(j, memory, line, i) = SourceAt(j, memory, line, c, x)
  <2>1. Lanes(j.src1.buf) = h
    BY <1>1, <1>6, LaneFacts
  <2>2. i \div h = c /\ i % h = x
    BY <1>1, <1>2, <1>3, <1>4
  <2> QED
    BY <1>5, <2>1, <2>2
<1>7. ASSUME j.src1.buf = "ACCUM", x < Group
      PROVE  SfuSource(j, memory, line, i) = SourceAt(j, memory, line, 2 * c, x)
  <2>1. Lanes(j.src1.buf) = g
    BY <1>1, <1>7, LaneFacts
  <2>2. i = (2 * c) * g + x /\ 2 * c \in Nat /\ x < g
    BY <1>1, <1>3, <1>7
  <2>3. i \div g = 2 * c /\ i % g = x
    BY <1>1, <1>2, <1>4, <2>2
  <2> QED
    BY <1>5, <2>1, <2>3
<1>8. ASSUME j.src1.buf = "ACCUM", ~(x < Group)
      PROVE  SfuSource(j, memory, line, i) = SourceAt(j, memory, line, 2 * c + 1, x - Group)
  <2>1. Lanes(j.src1.buf) = g
    BY <1>1, <1>8, LaneFacts
  <2>2. PICK a, b \in Nat : a = 2 * c + 1 /\ b = x - g /\ b < g /\ x = g + b
    BY <1>1, <1>2, <1>8
  <2>3. i = a * g + b
    <3>1. a * g = c * h + g
      BY <1>1, <2>2
    <3>2. c * h \in Nat
      BY <1>1
    <3> QED
      BY <1>1, <1>3, <2>2, <3>1, <3>2
  <2>4. i \div g = a /\ i % g = b
    BY <1>1, <1>4, <2>2, <2>3
  <2> QED
    BY <1>1, <1>5, <2>1, <2>2, <2>4
<1> QED
  BY <1>3, <1>6, <1>7, <1>8

\* A word of a GELU is written.
LEMMA GeluWriteGoes ==
  ASSUME SfuInv, ShapeInv, SfuStands, Sfu!Gelu16Write \/ Sfu!Gelu32Write, before' = before
  PROVE  \/ sState' # "IDLE" /\ SfuStands'
         \/ sState' = "IDLE" /\ mem' = Sfu!Result(sJob, before)
<1>1. sState \in {"GELU16_WRITE", "GELU32_WRITE"} /\ Sfu!Busy
  BY DEF Sfu!Gelu16Write, Sfu!Gelu32Write, Sfu!Busy
<1>2. PICK w, lines, row, chunk \in Nat :
        /\ w = 2 * sJob.n /\ lines = sJob.m * Dim /\ row = sAt.row /\ chunk = sAt.chunk
  BY <1>1, SfuHere
<1>3. /\ chunk < w /\ Sfu!Words(sJob) = w /\ sAt \in SfuCounters /\ sJob.op = "GELU"
      /\ sState = "GELU16_WRITE" <=> sJob.src1.buf # "ACCUM"
      /\ Sfu!Half = Half /\ Sfu!Group = Group
  <2>1. /\ SfuWalk(sJob, sAt, sState) /\ sJob \in SfuJobs /\ sAt \in SfuCounters
        /\ Sfu!Half = Half /\ Sfu!Group = Group
    BY <1>1, SfuHere
  <2> QED
    BY <1>1, <1>2, <2>1, SfuSizes DEF SfuWalk, Gelu16W, Gelu32W
<1>4. /\ GeluInv
      /\ mem = Image(before, sJob.dst, SfuWords(sJob, before), Upto(SfuDone))
  BY <1>1 DEF SfuStands, Gelu16W, Gelu32W
<1> DEFINE word == IF sState = "GELU16_WRITE"
                   THEN [x \in 0 .. Half - 1 |-> Fp16(Gelu(sLatch.gelu[x]))]
                   ELSE [x \in 0 .. Half - 1 |->
                           Fp16(Gelu(IF x < Group THEN sLatch.gelu0[x]
                                     ELSE sLatch.gelu1[x - Group]))]
           again == IF sState = "GELU16_WRITE" THEN "GELU16_REQ" ELSE "GELU32_REQ"
           part == IF sState = "GELU16_WRITE" THEN sAt.part ELSE 0
<1>5. /\ sJob' = sJob
      /\ mem' = [mem EXCEPT ![sJob.dst.buf][Sfu!DstRow] = word]
      /\ \/ /\ chunk + 1 < w /\ sAt' = [sAt EXCEPT !.chunk = @ + 1, !.part = part]
            /\ sState' = again
         \/ /\ ~(chunk + 1 < w) /\ row + 1 < lines /\ sState' = again
            /\ sAt' = [sAt EXCEPT !.row = @ + 1, !.chunk = 0, !.part = part]
         \/ ~(chunk + 1 < w) /\ ~(row + 1 < lines) /\ sState' = "IDLE"
  <2>1. CASE Sfu!Gelu16Write
    <3>1. sState = "GELU16_WRITE"
      BY <2>1 DEF Sfu!Gelu16Write
    <3> QED
      BY <1>2, <1>3, <2>1, <3>1
      DEF Sfu!Gelu16Write, Sfu!WriteA, Sfu!Goto, Sfu!NextWord, Sfu!Fp16, Fp16, Sfu!Gelu, Gelu
  <2>2. CASE Sfu!Gelu32Write
    <3>1. sState = "GELU32_WRITE"
      BY <2>2 DEF Sfu!Gelu32Write
    <3> QED
      BY <1>2, <1>3, <2>2, <3>1
      DEF Sfu!Gelu32Write, Sfu!WriteA, Sfu!Goto, Sfu!NextWord, Sfu!Fp16, Fp16, Sfu!Gelu, Gelu
  <2> QED
    BY <2>1, <2>2
<1>6. word = [x \in 0 .. Half - 1 |-> SfuValue(sJob, before, sAt.row, sAt.chunk * Half + x)]
  <2>1. \A i : SfuValue(sJob, before, row, i) = Fp16(Gelu(SfuSource(sJob, before, row, i)))
    BY <1>3 DEF SfuValue
  <2>2. PICK start, v, p \in Nat :
          /\ start = Sfu!LineStart(sJob.src1) /\ v = LineRows(sJob.src1.buf, sJob.n)
          /\ p = row * v /\ start = sJob.src1.off + p /\ sJob.src1.off \in Nat
    <3>1. sJob.src1.off \in Nat /\ sJob.n \in Nat
      BY <1>1, SfuHere, SfuJobTypes
    <3>2. PICK v \in Nat : v = LineRows(sJob.src1.buf, sJob.n)
      BY <3>1 DEF LineRows
    <3>3. PICK p \in Nat : p = row * v
      BY <1>2, NatProduct
    <3>4. Sfu!LineStart(sJob.src1) = sJob.src1.off + p
      BY <1>2, <3>2, <3>3 DEF Sfu!LineStart, Sfu!LineRows, LineRows
    <3>5. PICK start \in Nat : start = sJob.src1.off + p
      BY <3>1
    <3> QED
      BY <3>1, <3>2, <3>3, <3>4, <3>5
  <2>3. \A k \in Nat : \A x : SourceAt(sJob, before, row, k, x)
                            = Held(before, sJob.src1.buf, start + k)[x]
    BY <2>2 DEF SourceAt, Held
  <2>4. CASE sState = "GELU16_WRITE"
    <3>1. sLatch.gelu = Held(before, sJob.src1.buf, start + chunk)
      BY <1>2, <1>4, <2>2, <2>4 DEF GeluInv, Sfu!Gelu16Row, Held
    <3>2. ASSUME NEW x \in 0 .. Half - 1
          PROVE  Fp16(Gelu(sLatch.gelu[x])) = SfuValue(sJob, before, row, chunk * Half + x)
      <4>1. SfuSource(sJob, before, row, chunk * Half + x) = SourceAt(sJob, before, row, chunk, x)
        BY <1>2, <1>3, <2>4, GeluPlace DEF GeluWord
      <4> QED
        BY <1>2, <2>1, <2>3, <3>1, <4>1
    <3> QED
      BY <1>2, <2>4, <3>2
  <2>5. CASE sState = "GELU32_WRITE"
    <3>1. /\ sLatch.gelu0 = Held(before, sJob.src1.buf, start + 2 * chunk)
          /\ sLatch.gelu1 = Held(before, sJob.src1.buf, start + 2 * chunk + 1)
      BY <1>2, <1>4, <2>2, <2>5 DEF GeluInv, Gelu32W, Held
    <3>2. start + (2 * chunk + 1) = start + 2 * chunk + 1 /\ 2 * chunk \in Nat
          /\ 2 * chunk + 1 \in Nat
      BY <1>2, <2>2
    <3>3. ASSUME NEW x \in 0 .. Half - 1
          PROVE  Fp16(Gelu(IF x < Group THEN sLatch.gelu0[x] ELSE sLatch.gelu1[x - Group]))
                   = SfuValue(sJob, before, row, chunk * Half + x)
      <4>1. CASE x < Group
        <5>1. SfuSource(sJob, before, row, chunk * Half + x)
                = SourceAt(sJob, before, row, 2 * chunk, x)
          BY <1>1, <1>2, <1>3, <2>5, <4>1, GeluPlace DEF GeluWord
        <5>2. sLatch.gelu0[x] = SourceAt(sJob, before, row, 2 * chunk, x)
          BY <2>3, <3>1, <3>2
        <5> QED
          BY <2>1, <4>1, <5>1, <5>2
      <4>2. CASE ~(x < Group)
        <5>1. SfuSource(sJob, before, row, chunk * Half + x)
                = SourceAt(sJob, before, row, 2 * chunk + 1, x - Group)
          BY <1>1, <1>2, <1>3, <2>5, <4>2, GeluPlace DEF GeluWord
        <5>2. sLatch.gelu1[x - Group] = SourceAt(sJob, before, row, 2 * chunk + 1, x - Group)
          BY <2>3, <3>1, <3>2
        <5> QED
          BY <2>1, <4>2, <5>1, <5>2
      <4> QED
        BY <4>1, <4>2
    <3> QED
      BY <1>2, <2>5, <3>3
  <2> QED
    BY <1>1, <2>4, <2>5
<1> HIDE DEF word, part
<1>7. PICK done : done = sAt.row * (2 * sJob.n) + sAt.chunk /\ SfuDone = done
  BY <1>1 DEF SfuDone, Gelu16W, Gelu32W
<1>8. /\ done \in Nat
      /\ mem' = Image(before, sJob.dst, SfuWords(sJob, before), Upto(done + 1))
  BY <1>1, <1>2, <1>3, <1>4, <1>5, <1>6, <1>7, SfuWrite
<1>9. sState' = again => GeluInv' \/ sAt'.part # part
  BY <1>1 DEF GeluInv, Gelu32W, part
<1>10. part \in Nat
  BY <1>3 DEF part, SfuCounters
<1>11. CASE chunk + 1 < w /\ sAt' = [sAt EXCEPT !.chunk = @ + 1, !.part = part] /\ sState' = again
  <2>1. sAt'.chunk = sAt.chunk + 1 /\ sAt'.row = sAt.row /\ sAt'.part = part
    BY <1>3, <1>11 DEF SfuCounters
  <2>2. mem' = Image(before, sJob.dst, SfuWords(sJob, before), Upto(SfuDone))'
    BY <1>1, <1>2, <1>3, <1>5, <1>7, <1>8, <1>11, <2>1, SfuMoves DEF Gelu16W, Gelu32W
  <2> QED
    BY <1>1, <1>9, <1>11, <2>1, <2>2 DEF SfuStands, Params, Line16, Line32, LineOut
<1>12. CASE /\ ~(chunk + 1 < w) /\ row + 1 < lines /\ sState' = again
            /\ sAt' = [sAt EXCEPT !.row = @ + 1, !.chunk = 0, !.part = part]
  <2>1. sAt'.chunk = 0 /\ sAt'.row = sAt.row + 1 /\ sAt'.part = part
    BY <1>3, <1>12 DEF SfuCounters
  <2>2. mem' = Image(before, sJob.dst, SfuWords(sJob, before), Upto(SfuDone))'
    BY <1>1, <1>2, <1>3, <1>5, <1>7, <1>8, <1>12, <2>1, SfuMoves
  <2> QED
    BY <1>1, <1>9, <1>12, <2>1, <2>2 DEF SfuStands, Params, Line16, Line32, LineOut
<1>13. CASE ~(chunk + 1 < w) /\ ~(row + 1 < lines) /\ sState' = "IDLE"
  <2>1. mem' = Sfu!Result(sJob, before)
    BY <1>1, <1>2, <1>3, <1>5, <1>7, <1>8, <1>13, SfuMoves
  <2> QED
    BY <1>13, <2>1
<1> QED
  BY <1>5, <1>11, <1>12, <1>13

-----------------------------------------------------------------------------
(* The SFU as a whole.                                                     *)

\* The word a walk of the SFU writes, and where.
LEMMA SfuWritesRow ==
  ASSUME SfuInv, ShapeInv, Sfu!Write \/ Sfu!Gelu16Write \/ Sfu!Gelu32Write
  PROVE  IsMemory(mem')
<1>1. Sfu!Busy /\ sState \in {"WRITE", "GELU16_WRITE", "GELU32_WRITE"}
  BY DEF Sfu!Write, Sfu!Gelu16Write, Sfu!Gelu32Write, Sfu!Busy
<1>2. /\ sJob.dst.buf \in Buffers /\ Lanes(sJob.dst.buf) = Half /\ Sfu!Half = Half
  BY <1>1, SfuHere, LaneFacts
<1>3. PICK row : row = Sfu!DstRow
  OBVIOUS
<1>4. row \in 0 .. BufRows[sJob.dst.buf] - 1
  <2>1. <<sJob.dst.buf, row>> \in Sfu!Accesses
    BY <1>1, <1>3 DEF Sfu!Accesses
  <2>2. Inside(<<sJob.dst.buf, row>>)
    BY <2>1, SfuInside
  <2> QED
    BY <2>2 DEF Inside
<1>5. PICK word : /\ mem' = [mem EXCEPT ![sJob.dst.buf][row] = word]
                  /\ word = [x \in 0 .. Half - 1 |-> word[x]]
  <2>1. CASE Sfu!Write
    <3>1. sLatch.word = [x \in 0 .. Half - 1 |-> sLatch.word[x]]
      <4>1. IsRow("ABUF", sLatch.word)
        BY <2>1 DEF ShapeInv, Sfu!Write
      <4> QED
        BY <4>1, LaneFacts DEF IsRow
    <3>2. mem' = [mem EXCEPT ![sJob.dst.buf][row] = sLatch.word]
      BY <1>3, <2>1 DEF Sfu!Write, Sfu!WriteA
    <3> QED
      BY <3>1, <3>2
  <2>2. CASE Sfu!Gelu16Write
    <3> DEFINE word == [x \in 0 .. Half - 1 |-> Sfu!Fp16(Sfu!Gelu(sLatch.gelu[x]))]
    <3>1. mem' = [mem EXCEPT ![sJob.dst.buf][row] = word]
      BY <1>2, <1>3, <2>2 DEF Sfu!Gelu16Write, Sfu!WriteA
    <3>2. word = [x \in 0 .. Half - 1 |-> word[x]]
      OBVIOUS
    <3> HIDE DEF word
    <3> QED
      BY <3>1, <3>2
  <2>3. CASE Sfu!Gelu32Write
    <3> DEFINE word == [x \in 0 .. Half - 1 |->
                          Sfu!Fp16(Sfu!Gelu(IF x < Sfu!Group THEN sLatch.gelu0[x]
                                            ELSE sLatch.gelu1[x - Sfu!Group]))]
    <3>1. mem' = [mem EXCEPT ![sJob.dst.buf][row] = word]
      BY <1>2, <1>3, <2>3 DEF Sfu!Gelu32Write, Sfu!WriteA
    <3>2. word = [x \in 0 .. Half - 1 |-> word[x]]
      OBVIOUS
    <3> HIDE DEF word
    <3> QED
      BY <3>1, <3>2
  <2> QED
    BY <2>1, <2>2, <2>3
<1>6. Written(mem, sJob.dst.buf, row, word)
  BY <1>2, <1>4, <1>5 DEF Written, IsRow, ShapeInv
<1>7. mem' = Put(mem, sJob.dst.buf, row, word)
  BY <1>5 DEF Put
<1> QED
  BY <1>6, <1>7, WrittenShape

\* The memory and the registers of the SFU keep their shape as it works.
LEMMA SfuShape ==
  ASSUME SfuInv, ShapeInv, SfuWork, hState = "IDLE"
  PROVE  ShapeInv'
<1>1. before' = before /\ hLatch' = hLatch /\ hState' = "IDLE"
  BY DEF SfuWork, helper, history
<1>2. IsMemory(mem')
  <2>1. CASE \/ Sfu!ParamRequest \/ Sfu!ParamLatch \/ Sfu!Fp16Request \/ Sfu!Fp16Latch
             \/ Sfu!Fp32Request \/ Sfu!Fp32Latch \/ Sfu!Compute \/ Sfu!Pack
             \/ Sfu!Gelu16Request \/ Sfu!Gelu16Latch \/ Sfu!Gelu32Request \/ Sfu!Gelu32Latch
    <3>1. mem' = mem
      BY <2>1 DEF Sfu!ParamRequest, Sfu!ParamLatch, Sfu!Fp16Request, Sfu!Fp16Latch,
         Sfu!Fp32Request, Sfu!Fp32Latch, Sfu!LineLatch, Sfu!Compute, Sfu!Pack, Sfu!Gelu16Request,
         Sfu!Gelu16Latch, Sfu!Gelu32Request, Sfu!Gelu32Latch, Sfu!Request, Sfu!QuietA
    <3> QED
      BY <3>1 DEF ShapeInv
  <2>2. CASE Sfu!Write \/ Sfu!Gelu16Write \/ Sfu!Gelu32Write
    BY <2>2, SfuWritesRow
  <2> QED
    BY <2>1, <2>2 DEF SfuWork, Sfu!Work
<1>3. IsMemory(mem)' /\ IsMemory(before)'
  BY <1>1, <1>2 DEF ShapeInv
<1>4. PICK line, gamma, beta, out, word, gelu, gelu0, gelu1 :
        sLatch = [line |-> line, gamma |-> gamma, beta |-> beta, out |-> out, word |-> word,
                  gelu |-> gelu, gelu0 |-> gelu0, gelu1 |-> gelu1]
  BY DEF ShapeInv
<1>5. PICK v :
        \/ sLatch' = sLatch
        \/ sLatch' = [sLatch EXCEPT !.line = v]
        \/ sLatch' = [sLatch EXCEPT !.gamma = v]
        \/ sLatch' = [sLatch EXCEPT !.beta = v]
        \/ sLatch' = [sLatch EXCEPT !.out = v]
        \/ sLatch' = [sLatch EXCEPT !.word = v]
        \/ sLatch' = [sLatch EXCEPT !.gelu = v]
        \/ sLatch' = [sLatch EXCEPT !.gelu0 = v]
        \/ sLatch' = [sLatch EXCEPT !.gelu1 = v]
  <2>1. CASE \/ Sfu!ParamRequest \/ Sfu!Fp16Request \/ Sfu!Fp32Request \/ Sfu!Gelu16Request
             \/ Sfu!Gelu32Request \/ Sfu!Write \/ Sfu!Gelu16Write \/ Sfu!Gelu32Write
    BY <2>1 DEF Sfu!ParamRequest, Sfu!Fp16Request, Sfu!Fp32Request, Sfu!Gelu16Request,
       Sfu!Gelu32Request, Sfu!Request, Sfu!Write, Sfu!Gelu16Write, Sfu!Gelu32Write
  <2>2. CASE Sfu!ParamLatch
    BY <2>2 DEF Sfu!ParamLatch
  <2>3. CASE Sfu!Fp16Latch \/ Sfu!Fp32Latch
    BY <2>3 DEF Sfu!Fp16Latch, Sfu!Fp32Latch, Sfu!LineLatch
  <2>4. CASE Sfu!Compute
    BY <2>4 DEF Sfu!Compute
  <2>5. CASE Sfu!Pack
    BY <2>5 DEF Sfu!Pack
  <2>6. CASE Sfu!Gelu16Latch \/ Sfu!Gelu32Latch
    BY <2>6 DEF Sfu!Gelu16Latch, Sfu!Gelu32Latch
  <2> QED
    BY <2>1, <2>2, <2>3, <2>4, <2>5, <2>6 DEF SfuWork, Sfu!Work
<1>6. sLatch' = [line |-> sLatch'.line, gamma |-> sLatch'.gamma, beta |-> sLatch'.beta,
                 out |-> sLatch'.out, word |-> sLatch'.word, gelu |-> sLatch'.gelu,
                 gelu0 |-> sLatch'.gelu0, gelu1 |-> sLatch'.gelu1]
  BY ONLY <1>4, <1>5
<1>7. sState' = "WRITE" => IsRow("ABUF", sLatch'.word)
  <2> SUFFICES ASSUME sState' = "WRITE" PROVE IsRow("ABUF", sLatch'.word)
    OBVIOUS
  <2>1. Sfu!Pack
    BY DEF SfuWork, Sfu!Work, Sfu!ParamRequest, Sfu!ParamLatch, Sfu!Fp16Request, Sfu!Fp16Latch,
       Sfu!Fp32Request, Sfu!Fp32Latch, Sfu!LineLatch, Sfu!Compute, Sfu!Write, Sfu!Gelu16Request,
       Sfu!Gelu16Latch, Sfu!Gelu16Write, Sfu!Gelu32Request, Sfu!Gelu32Latch, Sfu!Gelu32Write,
       Sfu!Request, Sfu!NextWord, Sfu!NextLine, Sfu!LineState, Sfu!Goto
  <2>2. sLatch' = [sLatch EXCEPT !.word =
                     [x \in 0 .. Sfu!Half - 1 |-> sLatch.out[sAt.chunk * Sfu!Half + x]]]
    BY <2>1 DEF Sfu!Pack
  <2>3. sLatch'.word = [x \in 0 .. Sfu!Half - 1 |-> sLatch.out[sAt.chunk * Sfu!Half + x]]
    BY ONLY <1>4, <2>2
  <2>4. Sfu!Half = Lanes("ABUF")
    BY LaneFacts DEF Sfu!Half, Half
  <2> QED
    BY <2>3, <2>4 DEF IsRow
<1>8. Half' = Half
  BY DEF Half
<1> QED
  BY <1>1, <1>3, <1>6, <1>7, <1>8 DEF ShapeInv

\* A step of a walk keeps its part of the invariant, or ends with the result.
LEMMA SfuGoes ==
  ASSUME SfuInv, ShapeInv, SfuProgress, SfuWork
  PROVE  SfuProgress' /\ (last = "sfu" => SfuResult')
<1>1. before' = before /\ last' = last
  BY DEF SfuWork, history
<1>2. sJob' = sJob /\ Sfu!Busy
  BY DEF SfuWork, Sfu!Work, Sfu!ParamRequest, Sfu!ParamLatch, Sfu!Fp16Request, Sfu!Fp16Latch,
     Sfu!Fp32Request, Sfu!Fp32Latch, Sfu!LineLatch, Sfu!Compute, Sfu!Pack, Sfu!Write,
     Sfu!Gelu16Request, Sfu!Gelu16Latch, Sfu!Gelu16Write, Sfu!Gelu32Request, Sfu!Gelu32Latch,
     Sfu!Gelu32Write, Sfu!Request, Sfu!NextWord, Sfu!NextLine, Sfu!Goto, Sfu!Busy
<1>3. /\ Sfu!Defined(sJob)' = Sfu!Defined(sJob)
      /\ Sfu!Result(sJob, before)' = Sfu!Result(sJob, before)
  BY <1>1, <1>2, SameSfu
<1>4. SUFFICES ASSUME Sfu!Defined(sJob)
               PROVE  \/ sState' # "IDLE" /\ SfuStands'
                      \/ sState' = "IDLE" /\ mem' = Sfu!Result(sJob, before)
  BY <1>3 DEF SfuProgress, SfuResult, Sfu!Busy
<1>5. SfuStands
  BY <1>2, <1>4 DEF SfuProgress
<1>6. CASE Sfu!ParamRequest \/ Sfu!ParamLatch
  BY <1>1, <1>5, <1>6, ParamGoes
<1>7. CASE Sfu!Fp16Request \/ Sfu!Fp32Request
  BY <1>1, <1>4, <1>5, <1>7, LineRequestGoes
<1>8. CASE Sfu!Fp16Latch \/ Sfu!Fp32Latch
  BY <1>1, <1>5, <1>8, LineLatchGoes
<1>9. CASE Sfu!Compute
  BY <1>1, <1>5, <1>9, ComputeGoes
<1>10. CASE Sfu!Pack
  BY <1>1, <1>5, <1>10, PackGoes
<1>11. CASE Sfu!Write
  BY <1>1, <1>5, <1>11, WriteGoes
<1>12. CASE Sfu!Gelu16Request \/ Sfu!Gelu32Request
  BY <1>1, <1>4, <1>5, <1>12, GeluRequestGoes
<1>13. CASE Sfu!Gelu16Latch \/ Sfu!Gelu32Latch
  BY <1>1, <1>5, <1>13, GeluLatchGoes
<1>14. CASE Sfu!Gelu16Write \/ Sfu!Gelu32Write
  BY <1>1, <1>5, <1>14, GeluWriteGoes
<1> QED
  BY <1>6, <1>7, <1>8, <1>9, <1>10, <1>11, <1>12, <1>13, <1>14 DEF SfuWork, Sfu!Work

\* A walk begins with nothing written and nothing read.
LEMMA SfuBegins ==
  ASSUME ShapeInv, IssueSfu
  PROVE  ShapeInv' /\ SfuProgress' /\ SfuResult'
<1>1. PICK j \in SfuJobs : sJob' = j /\ sState' = Sfu!FirstState(j)
  BY DEF IssueSfu, Sfu!Dispatch
<1>2. /\ mem' = mem /\ before' = mem /\ sLatch' = sLatch /\ hState' = "IDLE" /\ hLatch' = hLatch
      /\ sAt' = [row |-> 0, read |-> 0, chunk |-> 0, part |-> 0]
  BY DEF IssueSfu, Issue, BothIdle, Sfu!Dispatch, Sfu!QuietA, helper
<1>3. sState' \in {"FAULT", "PARAM_REQ", "FP16_REQ", "FP32_REQ", "GELU16_REQ", "GELU32_REQ"}
      /\ (sState' \in {"FP16_REQ", "FP32_REQ"} => j.op = "SOFTMAX")
  <2>1. j.op \in {"SOFTMAX", "LAYERNORM", "GELU"}
    BY SfuJobTypes
  <2>2. CASE Sfu!Unsupported(j) \/ Sfu!OutOfBounds(j)
    BY <1>1, <2>2 DEF Sfu!FirstState
  <2>3. CASE ~(Sfu!Unsupported(j) \/ Sfu!OutOfBounds(j))
    BY <1>1, <2>1, <2>3 DEF Sfu!FirstState, Sfu!LineState
  <2> QED
    BY <2>2, <2>3
<1>4. ShapeInv'
  <2>1. IsMemory(mem)' /\ IsMemory(before)' /\ Half' = Half
    BY <1>2 DEF ShapeInv, Half
  <2> QED
    BY <1>2, <1>3, <2>1 DEF ShapeInv
<1>5. SfuResult'
  BY <1>3 DEF SfuResult
<1>6. ASSUME sState' # "FAULT" PROVE SfuStands'
  <2>1. mem' = Image(before, sJob.dst, SfuWords(sJob, before), Upto(SfuDone))'
    <3>1. SfuDone' = 0
      <4>1. j.n \in Nat
        BY SfuJobTypes
      <4>2. 0 * (2 * j.n) = 0
        BY <4>1
      <4> QED
        BY <1>1, <1>2, <4>1, <4>2 DEF SfuDone
    <3>2. Upto(SfuDone)' = {}
      BY <3>1 DEF Upto
    <3>3. IsMemory(before')
      BY <1>4 DEF ShapeInv
    <3>4. Image(before', sJob'.dst, SfuWords(sJob, before)', Upto(SfuDone)') = before'
      BY <3>2, <3>3, ImageStart
    <3> QED
      BY <1>2, <3>4
  <2>2. \A i \in Nat : ~(i < 0)
    OBVIOUS
  <2>3. ASSUME NEW i \in Upto(Sfu!Elems(sJob))'
        PROVE  /\ i \div Half \in Nat /\ i \div Half + 2 * j.n \in Nat
               /\ i \div Lanes(j.src1.buf) \in Nat
    <3>1. i \in Nat /\ j.n \in Nat
      BY SfuJobTypes DEF Upto
    <3>2. i \div Half \in Nat /\ i \div Lanes(j.src1.buf) \in Nat
      BY <3>1, DimFacts, LaneFacts, DivMod
    <3> QED
      BY <3>1, <3>2
  <2>4. CASE sState' = "PARAM_REQ"
    <3>1. ParamInv'
      BY <1>1, <1>2, <2>2, <2>3, <2>4 DEF ParamInv, Half
    <3> QED
      BY <2>1, <2>4, <3>1 DEF SfuStands, Params, Line16, Line32, LineOut, Gelu16W, Gelu32W
  <2>5. CASE sState' \in {"FP16_REQ", "FP32_REQ"}
    <3>1. \A i \in Upto(Sfu!Elems(sJob))' : ~(i \div Lanes(sJob.src1.buf) < sAt.read)'
      BY <1>1, <1>2, <2>2, <2>3 DEF Lanes, Half, Group
    <3>2. LineInv'
      BY <2>5, <3>1 DEF LineInv, LineOut
    <3> QED
      BY <1>1, <1>3, <2>1, <2>5, <3>2 DEF SfuStands, Params, Gelu16W, Gelu32W
  <2>6. CASE sState' \in {"GELU16_REQ", "GELU32_REQ"}
    <3>1. GeluInv'
      BY <1>2, <2>6 DEF GeluInv
    <3> QED
      BY <2>1, <2>6, <3>1 DEF SfuStands, Params, Line16, Line32, LineOut
  <2> QED
    BY <1>3, <1>6, <2>4, <2>5, <2>6
<1> QED
  BY <1>3, <1>4, <1>5, <1>6 DEF SfuProgress, Sfu!Busy

-----------------------------------------------------------------------------
(* Both engines.                                                           *)

\* A stuttering step changes nothing of where the helper engine stands.
LEMMA HelperStays ==
  ASSUME HelperProgress, UNCHANGED <<sram, helper, before>>
  PROVE  HelperProgress'
<1>1. /\ hState' = hState /\ hJob' = hJob /\ hAt' = hAt /\ hLatch' = hLatch
      /\ mem' = mem /\ rdataA' = rdataA /\ rdataB' = rdataB /\ before' = before
  BY DEF sram, helper
<1>2. Half' = Half /\ Group' = Group
  BY DEF Half, Group
<1>3. FlatInv' <=> FlatInv
  BY <1>1 DEF FlatInv, FlatDone, Helper!FlatRow
<1>4. TransInv' <=> TransInv
  BY <1>1, <1>2 DEF TransInv, TransDone, Helper!TransSrcRow
<1>5. V16Inv' <=> V16Inv
  BY <1>1 DEF V16Inv, Helper!StepRow
<1>6. BiasInv' <=> BiasInv
  BY <1>1 DEF BiasInv, BiasDone, Helper!BiasRow, Helper!AccRow
<1>7. ScaleInv' <=> ScaleInv
  BY <1>1 DEF ScaleInv, Helper!StepRow
<1>8. NarrowInv' <=> NarrowInv
  BY <1>1 DEF NarrowInv, Helper!NarrowRow
<1> QED
  BY <1>1, <1>3, <1>4, <1>5, <1>6, <1>7, <1>8 DEF HelperProgress, Flat, Transp, Vadd16, Bias,
     Accum, ScaleW, NarrowW

\* Nor to the SFU and its registers.
LEMMA SfuStays ==
  ASSUME SfuProgress, UNCHANGED <<sram, sfu, before>>
  PROVE  SfuProgress'
<1>1. /\ sState' = sState /\ sJob' = sJob /\ sAt' = sAt /\ sLatch' = sLatch
      /\ mem' = mem /\ rdataA' = rdataA /\ rdataB' = rdataB /\ before' = before
  BY DEF sram, sfu
<1>2. Half' = Half
  BY DEF Half
<1>3. ParamInv' <=> ParamInv
  BY <1>1, <1>2, SameSfu DEF ParamInv, Sfu!ParamRow
<1>4. NormInv' <=> NormInv
  BY <1>1, SameSfu DEF NormInv
<1>5. LineInv' <=> LineInv
  BY <1>1, <1>2, SameSfu DEF LineInv, Sfu!ReadRow, Sfu!LineStart
<1>6. GeluInv' <=> GeluInv
  BY <1>1 DEF GeluInv, Sfu!Gelu16Row, Sfu!Gelu32Row, Sfu!LineStart
<1>7. SfuDone' = SfuDone
  BY <1>1 DEF SfuDone
<1>8. SfuStands' <=> SfuStands
  BY <1>1, <1>3, <1>4, <1>5, <1>6, <1>7, SameSfu DEF SfuStands
<1> QED
  BY <1>1, <1>8, SameSfu DEF SfuProgress, Sfu!Busy

\* Nor to the shape of either.
LEMMA ShapeStays ==
  ASSUME ShapeInv, UNCHANGED vars
  PROVE  ShapeInv'
<1>1. Half' = Half
  BY DEF Half
<1> QED
  BY <1>1 DEF ShapeInv, vars, sram, helper, sfu, history

\* At first no engine works and memory is as it was.
LEMMA ResultStart == Init => ResultInv
<1> SUFFICES ASSUME Init PROVE ResultInv
  OBVIOUS
<1>1. hState = "IDLE" /\ sState = "IDLE" /\ last = "none" /\ before = mem
  BY DEF Init, Helper!Init, Sfu!Init
<1>2. IsMemory(mem)
  <2>1. mem = [b \in Buffers |->
                 [r \in 0 .. BufRows[b] - 1 |-> [l \in 0 .. Lanes(b) - 1 |-> <<b, r, l>>]]]
    BY DEF Init, SramInit
  <2> QED
    BY <2>1 DEF IsMemory
<1>3. hLatch = [scratch |-> [i \in 0 .. Half - 1 |-> hLatch.scratch[i]], bias |-> hLatch.bias,
                row0 |-> hLatch.row0, row1 |-> hLatch.row1]
  <2>1. PICK scratch, bias, row0, row1 :
          hLatch = [scratch |-> [i \in 0 .. Half - 1 |-> scratch[i]], bias |-> bias,
                    row0 |-> row0, row1 |-> row1]
    <3>1. PICK scratch : scratch = [i \in 0 .. Half - 1 |-> Helper!NoRow]
      OBVIOUS
    <3>2. scratch = [i \in 0 .. Half - 1 |-> scratch[i]]
      BY ONLY <3>1
    <3>3. hLatch = [scratch |-> scratch, bias |-> Helper!NoRow, row0 |-> Helper!NoRow,
                    row1 |-> Helper!NoRow]
      BY <3>1 DEF Init, Helper!Init, Helper!Half, Half
    <3> QED
      BY ONLY <3>2, <3>3
  <2> QED
    BY ONLY <2>1
<1>4. sLatch = [line |-> sLatch.line, gamma |-> sLatch.gamma, beta |-> sLatch.beta,
                out |-> sLatch.out, word |-> sLatch.word, gelu |-> sLatch.gelu,
                gelu0 |-> sLatch.gelu0, gelu1 |-> sLatch.gelu1]
  <2>1. PICK line, gamma, beta, out, word, gelu, gelu0, gelu1 :
          sLatch = [line |-> line, gamma |-> gamma, beta |-> beta, out |-> out, word |-> word,
                    gelu |-> gelu, gelu0 |-> gelu0, gelu1 |-> gelu1]
    BY DEF Init, Sfu!Init
  <2> QED
    BY ONLY <2>1
<1>5. ShapeInv
  BY <1>1, <1>2, <1>3, <1>4 DEF ShapeInv
<1> QED
  BY <1>1, <1>5 DEF ResultInv, TurnInv, HelperProgress, SfuProgress, HelperResult, SfuResult,
     Helper!Busy, Sfu!Busy, Flat, Transp, Vadd16, Bias, Accum, ScaleW, NarrowW

\* Every step keeps it.
LEMMA ResultStep ==
  ASSUME CopiesKeepWidth, WalksInside, ResultInv, [Next]_vars
  PROVE  ResultInv'
<1>1. /\ HelperInv /\ SfuInv /\ TurnInv /\ ShapeInv /\ HelperProgress /\ SfuProgress
      /\ HelperResult /\ SfuResult
  BY DEF ResultInv, WalksInside
<1>2. hState = "IDLE" => HelperProgress
  BY DEF HelperProgress, Flat, Transp, Vadd16, Bias, Accum, ScaleW, NarrowW
<1>3. hState' = "IDLE" => HelperProgress'
  BY DEF HelperProgress, Flat, Transp, Vadd16, Bias, Accum, ScaleW, NarrowW
<1>4. sState' = "IDLE" => SfuProgress'
  BY DEF SfuProgress, Sfu!Busy
<1>5. CASE IssueHelper
  <2>1. last' = "helper" /\ sState' = "IDLE"
    BY <1>5 DEF IssueHelper, Issue, BothIdle, sfu
  <2>2. ShapeInv' /\ HelperProgress' /\ HelperResult'
    BY <1>1, <1>5, HelperBegins
  <2>3. TurnInv' /\ SfuResult'
    BY <2>1 DEF TurnInv, SfuResult, Sfu!Busy
  <2> QED
    BY <1>4, <2>1, <2>2, <2>3 DEF ResultInv
<1>6. CASE IssueSfu
  <2>1. last' = "sfu" /\ hState' = "IDLE"
    BY <1>6 DEF IssueSfu, Issue, BothIdle, helper
  <2>2. ShapeInv' /\ SfuProgress' /\ SfuResult'
    BY <1>1, <1>6, SfuBegins
  <2>3. TurnInv' /\ HelperResult'
    BY <2>1 DEF TurnInv, HelperResult, Helper!Busy
  <2> QED
    BY <1>3, <2>1, <2>2, <2>3 DEF ResultInv
<1>7. CASE HelperWork
  <2>1. Helper!Busy
    BY <1>7 DEF HelperWork, Helper!Work, Helper!FlatRead, Helper!TransRequest, Helper!TransLatch,
       Helper!V16Read, Helper!BiasRequest, Helper!BiasLatch, Helper!AccRead, Helper!ScaleRequest,
       Helper!NarrowRequest, Helper!NarrowLatch, Helper!FlatWrite, Helper!TransWrite,
       Helper!V16Write, Helper!AccWrite, Helper!ScaleWrite, Helper!NarrowWrite, Helper!Busy
  <2>2. /\ last = "helper" /\ sState = "IDLE"
        /\ last' = "helper" /\ sState' = "IDLE"
    BY <1>1, <1>7, <2>1 DEF TurnInv, HelperWork, sfu, history
  <2>3. ShapeInv'
    BY <1>1, <1>7, <2>2, HelperShape
  <2>4. HelperProgress' /\ HelperResult'
    BY <1>1, <1>7, <2>2, HelperGoes
  <2>5. TurnInv' /\ SfuResult'
    BY <2>2 DEF TurnInv, SfuResult, Sfu!Busy
  <2> QED
    BY <1>4, <2>2, <2>3, <2>4, <2>5 DEF ResultInv
<1>8. CASE SfuWork
  <2>1. Sfu!Busy
    BY <1>8 DEF SfuWork, Sfu!Work, Sfu!ParamRequest, Sfu!ParamLatch, Sfu!Fp16Request,
       Sfu!Fp16Latch, Sfu!Fp32Request, Sfu!Fp32Latch, Sfu!LineLatch, Sfu!Compute, Sfu!Pack,
       Sfu!Write, Sfu!Gelu16Request, Sfu!Gelu16Latch, Sfu!Gelu16Write, Sfu!Gelu32Request,
       Sfu!Gelu32Latch, Sfu!Gelu32Write, Sfu!Request, Sfu!Busy
  <2>2. /\ last = "sfu" /\ hState = "IDLE"
        /\ last' = "sfu" /\ hState' = "IDLE"
    BY <1>1, <1>8, <2>1 DEF TurnInv, SfuWork, helper, history
  <2>3. ShapeInv'
    BY <1>1, <1>8, <2>2, SfuShape
  <2>4. SfuProgress' /\ SfuResult'
    BY <1>1, <1>8, <2>2, SfuGoes
  <2>5. TurnInv' /\ HelperResult'
    BY <2>2 DEF TurnInv, HelperResult, Helper!Busy
  <2> QED
    BY <1>3, <2>2, <2>3, <2>4, <2>5 DEF ResultInv
<1>9. CASE UNCHANGED vars
  <2>1. ShapeInv' /\ HelperProgress' /\ SfuProgress'
    BY <1>1, <1>9, ShapeStays, HelperStays, SfuStays DEF vars, history
  <2>2. TurnInv'
    BY <1>1, <1>9 DEF TurnInv, Helper!Busy, Sfu!Busy, vars, helper, sfu, history
  <2>3. /\ mem' = mem /\ before' = before /\ hJob' = hJob /\ sJob' = sJob
        /\ hState' = hState /\ sState' = sState /\ last' = last
    BY <1>9 DEF vars, sram, helper, sfu, history
  <2>4. /\ Helper!Result(hJob, before)' = Helper!Result(hJob, before)
        /\ Helper!Defined(hJob)' = Helper!Defined(hJob)
    BY <2>3
  <2>5. HelperResult' /\ SfuResult'
    BY <1>1, <2>3, <2>4, SameSfu DEF HelperResult, SfuResult
  <2> QED
    BY <2>1, <2>2, <2>5 DEF ResultInv
<1> QED
  BY <1>5, <1>6, <1>7, <1>8, <1>9 DEF Next

\* What has been written, is being held and is left to do add up to the
\* result of the instruction, all the time.
THEOREM ResultsGrow == ASSUME CopiesKeepWidth PROVE Spec => []ResultInv
<1>1. Init => ResultInv
  BY ResultStart
<1>2. WalksInside /\ ResultInv /\ [Next]_vars => ResultInv'
  BY ResultStep
<1> QED
  BY <1>1, <1>2, WalksStayInside, PTL DEF Spec

\* When the helper engine is done with a copy, a transposition, an addition or
\* a scaling, every element of the destination is the one its operands gave as
\* they were, and all else is as it was: for every tile width, matrix size,
\* placement and buffer depth, also when it writes over what it reads.
THEOREM HelperDoesItsJob == ASSUME CopiesKeepWidth PROVE Spec => []HelperResult
<1>1. ResultInv => HelperResult
  BY DEF ResultInv
<1> QED
  BY <1>1, ResultsGrow, PTL

\* The same of a softmax, a layer norm and a GELU of the SFU.
THEOREM SfuDoesItsJob == ASSUME CopiesKeepWidth PROVE Spec => []SfuResult
<1>1. ResultInv => SfuResult
  BY DEF ResultInv
<1> QED
  BY <1>1, ResultsGrow, PTL

=============================================================================
