--------------------------- MODULE MCAccelerator ---------------------------
(***************************************************************************)
(* Instances of the accelerator with its observation registers.            *)
(***************************************************************************)
EXTENDS AcceleratorInv, Observability

\* One instruction for each way the control unit can treat a word.
MCInsns ==
  {Plain(o) : o \in {"NOP", "HALT", "CONFIG_TILE", "BUF_COPY", "LOAD", "VADD",
                     "MATMUL", "GELU", "RESERVED"}}
    \union {Sync({"dma"}), Sync({"sys"}), Sync({"sfu"}), Sync(AsyncEngines)}
    \union {[Plain("LOAD") EXCEPT !.badBuf = TRUE],
            [Plain("SET_SCALE") EXCEPT !.indirect = TRUE]}

=============================================================================
