--------------------------- MODULE MCCmosGenerator ---------------------------
(* Small formats for TLC, from the documented minimum of each register up. *)
EXTENDS CmosGeneratorTiming

MCSettings ==
  [r \in ConfRegs |-> CASE r \in {"width", "height"} -> {1, 3}
                        [] r \in {"fl", "lf"}        -> {0, 1}
                        [] OTHER                     -> {1, 2}]
=============================================================================
