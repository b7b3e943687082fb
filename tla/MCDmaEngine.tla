---------------------------- MODULE MCDmaEngine ----------------------------
EXTENDS DmaEngine

\* The last row of one buffer is past the end of the other.
MCRows == [b \in Buffers |-> IF b = "ABUF" THEN 4 ELSE 3]

\* Lengths from 0 to three bursts; every start, so that the ends lie before,
\* on and past the end of the buffer and of the memory.
MCJobs ==
  [store : BOOLEAN, buf : Buffers, row : {0, 1, 4}, base : {0, 3}, len : {0, 1, 3}]
    \union [store : BOOLEAN, buf : Buffers, row : {0}, base : {0, 1}, len : {4}]

=============================================================================
