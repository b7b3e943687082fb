--------------------------- MODULE MCTensorLoads ---------------------------
(***************************************************************************)
(* Three tensors in a buffer of five units, so that a hole can open        *)
(* between two live ones.  Names are interchangeable; addresses are not.   *)
(***************************************************************************)
EXTENDS TensorLoads, TLC

AnyName == Permutations(Names)

=============================================================================
