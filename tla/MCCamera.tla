------------------------------- MODULE MCCamera -------------------------------
(* A small camera for TLC: pictures of Total words, bursts of BurstLen.     *)
EXTENDS CamController

CONSTANT BurstLen

MCReset == [r \in CamRegisters |->
  CASE r = "CONB" -> BurstLen
    [] r = "LENG" -> WordBytes * Total
    [] OTHER      -> 0]
=============================================================================
