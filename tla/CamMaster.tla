------------------------------ MODULE CamMaster ------------------------------
(***************************************************************************)
(* camera_master.vhd: writes the words of the FIFO to memory in bursts.    *)
(* CamMasterClock is one rising edge of clk50; its parameters are the      *)
(* input signals sampled on that edge.                                     *)
(***************************************************************************)
EXTENDS Naturals

CONSTANTS
  AddrSpace,    \* addresses wrap at this value (2^32)
  BurstSpace    \* the burst counter wraps at this value (2^6)

ASSUME CamMasterAssumption ==
  AddrSpace \in Nat /\ AddrSpace > 4 /\ BurstSpace \in Nat \ {0}

WordBytes == 4

VARIABLES
  cst,          \* state_reg
  addr,         \* cnt_add_reg
  beat          \* cnt_bur_reg: words of the burst that were taken

camMasterVars == <<cst, addr, beat>>

CamMasterInit(dest) == cst = "IDLE" /\ addr = dest /\ beat = 0

Writing == cst = "BURST"                       \* AM_Write

\* d_cnt, in six bits
LastBeat(burst) == beat = (burst + BurstSpace - 1) % BurstSpace

\* Fault: the word after the buffer is taken for its last one.
BufferEndPast(dest, leng) == (dest + leng) % AddrSpace

\* The address of the last word of the buffer, in 32 bits
BufferEnd(dest, leng) == (dest + leng + AddrSpace - WordBytes) % AddrSpace

NextAddr(dest, leng) ==
  IF addr = BufferEnd(dest, leng) THEN dest ELSE (addr + WordBytes) % AddrSpace

CamIdle(start, dest) ==
  /\ cst = "IDLE"
  /\ cst' = IF start THEN "WAIT_DATA" ELSE cst
  /\ addr' = dest /\ beat' = 0

\* Fault: the length of the buffer is taken for the length of a burst.
CamWaitDataLeng(start, ready, dest, leng, burst) ==
  /\ cst = "WAIT_DATA"
  /\ cst' = CASE ~start                 -> "IDLE"
              [] start /\ ready = leng  -> "BURST"
              [] OTHER                  -> cst
  /\ addr' = IF addr = BufferEnd(dest, leng) THEN dest ELSE addr
  /\ UNCHANGED beat

CamWaitData(start, ready, dest, leng, burst) ==
  /\ cst = "WAIT_DATA"
  /\ cst' = CASE ~start                  -> "IDLE"
              [] start /\ ready = burst  -> "BURST"
              [] OTHER                   -> cst
  /\ addr' = IF addr = BufferEnd(dest, leng) THEN dest ELSE addr
  /\ UNCHANGED beat

\* A burst goes on to the next one if the words are there; start is not looked at.
CamBurst(ready, waitreq, dest, leng, burst) ==
  /\ cst = "BURST"
  /\ IF waitreq THEN UNCHANGED camMasterVars
     ELSE /\ cst' = IF LastBeat(burst) /\ ready # burst THEN "WAIT_DATA" ELSE cst
          /\ beat' = IF LastBeat(burst) THEN 0 ELSE (beat + 1) % BurstSpace
          /\ addr' = NextAddr(dest, leng)

CamMasterClock(start, ready, waitreq, dest, leng, burst) ==
  \/ CamIdle(start, dest)
  \/ CamWaitData(start, ready, dest, leng, burst)
  \/ CamBurst(ready, waitreq, dest, leng, burst)

CamMasterTypeOK == /\ cst \in {"IDLE", "WAIT_DATA", "BURST"}
                   /\ addr \in 0 .. AddrSpace - 1
                   /\ beat \in 0 .. BurstSpace - 1
=============================================================================
