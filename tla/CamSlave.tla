------------------------------- MODULE CamSlave -------------------------------
(***************************************************************************)
(* camera_slave.vhd: the registers of the camera controller.  The settings *)
(* can be written while the sampler is idle, the command at any time.      *)
(***************************************************************************)
EXTENDS Naturals

CONSTANTS
  ResetValue    \* the value of each register after reset

CamSettings  == {"CONS", "CONB", "DEST", "LENG"}
CamRegisters == CamSettings \cup {"COMM"}

ASSUME CamSlaveAssumption == ResetValue \in [CamRegisters -> Nat]

VARIABLES
  creg,         \* comm_reg, conf_reg_frame, conf_reg_burst, dest_reg, leng_reg
  stat          \* stat_reg: the error, idle, snapshot and start bits

camSlaveVars == <<creg, stat>>

Start    == creg.COMM % 2 = 1               \* cams_start
Snapshot == (creg.COMM \div 2) % 2 = 1      \* cams_snapshot

CamSlaveInit ==
  /\ creg = ResetValue
  /\ stat = [error |-> FALSE, idle |-> FALSE, snapshot |-> FALSE, start |-> FALSE]

\* The register as wide as it is: 8 bits of COMM, 6 of CONB.
InWidth(r, value) ==
  CASE r = "COMM" -> value % 256
    [] r = "CONB" -> value % 64
    [] OTHER      -> value

\* Fault: a setting is taken at any time.
CamWriteUnlocked(r, value, idle) == creg' = [creg EXCEPT ![r] = InWidth(r, value)]

CamWrite(r, value, idle) ==
  creg' = IF r = "COMM" \/ idle THEN [creg EXCEPT ![r] = InWidth(r, value)] ELSE creg

CamNoWrite == UNCHANGED creg

\* The status is what the sampler and the command were before the edge.
CamStatus(idle, error) ==
  stat' = [error |-> error, idle |-> idle, snapshot |-> Snapshot, start |-> Start]
=============================================================================
