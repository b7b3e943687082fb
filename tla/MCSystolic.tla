----------------------------- MODULE MCSystolic -----------------------------
(***************************************************************************)
(* MATMULs of one and two tiles in each direction, from buffers that do    *)
(* not begin at row 0.                                                     *)
(***************************************************************************)
EXTENDS Systolic

Shape(m, n, k) == [m |-> m, n |-> n, k |-> k, src1 |-> 3, src2 |-> 1, dst |-> 2,
                   accumulate |-> FALSE, toAccum |-> TRUE]

MCJobs == {Shape(m, n, k) : m \in {1, 2}, n \in {1, 2}, k \in {1, 2}}
            \union {[Shape(2, 1, 1) EXCEPT !.toAccum = FALSE]}
            \union {[Shape(1, 1, k) EXCEPT !.accumulate = TRUE] : k \in {1, 2}}

\* Room for the largest product, and a margin before and behind it.
MCRows == 0 .. 2 + 4 * 4 * Dim + 1

=============================================================================
