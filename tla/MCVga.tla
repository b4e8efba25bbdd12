-------------------------------- MODULE MCVga --------------------------------
(* A small picture for TLC: 3 x Lines visible pixels.                      *)
EXTENDS VgaController

CONSTANT Lines

MCConfig == [r \in ConfigRegs \ {"FBAdd"} |->
  CASE r = "FBLen" -> 3 * Lines
    [] r = "Hdata" -> 3
    [] r = "Vdata" -> Lines
    [] r \in {"HFP", "HS", "HBP", "VS"} -> 1
    [] OTHER -> 0]
=============================================================================
