------------------------------ MODULE VgaSlave ------------------------------
(***************************************************************************)
(* Slave_component.vhd: the register file of the VGA controller, written   *)
(* over Avalon and read by the burst master and the raster generator.      *)
(* DisplayStat (register 4) is left out: nothing reads it, the slave never *)
(* drives readdata.                                                        *)
(***************************************************************************)
EXTENDS Naturals

CONSTANTS
  Space16,      \* a 16-bit register holds values below this (2^16)
  Space21,      \* FBLen, 21 bits
  Space32       \* FBAdd, 32 bits

ASSUME SlaveAssumption == {Space16, Space21, Space32} \subseteq Nat \ {0}

VARIABLES regs  \* the registers, by name

TimingRegs == {"HBP", "HFP", "VBP", "VFP", "Hdata", "Vdata", "HS", "VS"}
ConfigRegs == {"FBAdd", "FBLen"} \cup TimingRegs
Registers  == {"DisplayCom"} \cup ConfigRegs

Space(r) == CASE r = "FBAdd" -> Space32
              [] r = "FBLen" -> Space21
              [] OTHER -> Space16

SlaveInit == regs = [r \in Registers |-> 0]

(***************************************************************************)
(* An Avalon write of data d to register r, cut to the register's width.   *)
(* The command is always writable, the others only under command STOP.     *)
(***************************************************************************)
SlaveWrite(r, d) ==
  regs' = IF r = "DisplayCom" \/ (r \in ConfigRegs /\ regs.DisplayCom = 0)
          THEN [regs EXCEPT ![r] = d % Space(r)]
          ELSE regs

SlaveTypeOK ==
  /\ regs \in [Registers -> Nat]
  /\ \A r \in Registers : regs[r] \in 0 .. Space(r) - 1
=============================================================================
