------------------------- MODULE MCCompiledProgram -------------------------
(***************************************************************************)
(* Models small enough to compile and to run in full.                      *)
(***************************************************************************)
EXTENDS CompiledProgram

Vit(embed, heads, mlp, depth) ==
  [embed |-> embed, heads |-> heads, depth |-> depth, mlp |-> mlp, image |-> 2, patch |-> 1,
   classes |-> 3]

\* Sequences of 5 rows padded to 6, in tiles of 2; fc1, fc2 and the output
\* projection come in strips.  The last two the compiler refuses: the first
\* does not fit ABUF, the second would need no tiling.
ModelJobs ==
  { [c |-> Vit(4, 2, 6, 1), mode |-> "w8a16"],
    [c |-> Vit(6, 3, 8, 2), mode |-> "w8a16"],
    [c |-> Vit(4, 2, 4, 1), mode |-> "w8a32"],
    [c |-> Vit(4, 2, 4, 2), mode |-> "w8a32"],
    [c |-> Vit(4, 2, 6, 1), mode |-> "w8a32"],
    [c |-> Vit(2, 1, 4, 1), mode |-> "w8a16"] }

\* One model, with patches of 5 by 5 pixels, whose data section fits the reach of
\* SET_ADDR_LO but not behind the program.
CarryJobs ==
  {[c |-> [Vit(4, 2, 6, 1) EXCEPT !.image = 10, !.patch = 5], mode |-> "w8a16"]}

=============================================================================
