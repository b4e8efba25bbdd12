------------------------------- MODULE I2cCore -------------------------------
(***************************************************************************)
(* The I2C master of i2c_core.vhd, its bit clock i2c_clkgen.vhd and its    *)
(* register file i2c_interface.vhd, one clock edge per step, with the one  *)
(* slave device on the two-wire bus (external: the image sensor, seen only *)
(* through its acknowledges and the bits it sends back).                   *)
(*                                                                         *)
(* Left out: the output registers data_out, ack_out and busy, which repeat *)
(* a value one clock later than the poll of TIP could tell.                *)
(***************************************************************************)
EXTENDS Integers, Sequences

CONSTANTS
  LastBit,   \* index of the last bit of a byte, the least significant (7)
  ClkCnt,    \* clock divisor i2c_init writes: clocks in a quarter bit, less 1
  ResetDiv,  \* clock divisor after reset
  DevAddr    \* the device's address byte, its R/W bit 0

Bit == {0, 1}
Byte == [0..LastBit -> Bit]

ASSUME BusAssumption ==
  /\ LastBit \in Nat \ {0}
  /\ ClkCnt \in Nat /\ ResetDiv \in Nat
  /\ DevAddr \in Byte /\ DevAddr[LastBit] = 0

VARIABLES
  st,                 \* p_state
  ctr, dout, ackOut,  \* i_ctr, i_dout, i_ack_out
  cmdDone,            \* cmd_done, the registered i_cmd_done
  sclOut, sdaOut,     \* what the master puts on the lines
  sclIn, sdaIn,       \* the lines, registered
  clkCtr, sclk,       \* clk_ctr and i_clk_out of the clock generator
  clkdiv, dr, cr,     \* i_clkdiv_reg, i_data_in and the command bits
  ipe, cmdDoneAck,    \* i_int_pe_reg, i_cmd_done_ack
  dev,                \* the device: mode, bits taken or sent, byte, line
  seen,               \* <<scl, sda>> as the device saw them last
  heard               \* what went over the bus since the driver call began: START,
                      \* STOP, bytes, and NACK where the device did not acknowledge

coreVars == <<st, ctr, dout, ackOut, cmdDone, sclOut, sdaOut, sclIn, sdaIn>>
regVars == <<clkdiv, dr, cr, ipe, cmdDoneAck>>
busVars == <<coreVars, clkCtr, sclk, regVars, dev, seen, heard>>

\* A control word by its set bits; i_tip_reg.
Control(bits) == [wr |-> "WR" \in bits, rd |-> "RD" \in bits, sta |-> "STA" \in bits,
                  stp |-> "STP" \in bits, ack |-> "ACK" \in bits, ien |-> "IEN" \in bits]
Tip == cr.rd \/ cr.wr
Irq == ipe /\ cr.ien

\* The lines: SCL is driven both ways (so no device can stretch it), SDA is wired-and.
Scl == sclOut
Sda == sdaOut * dev.drive

-----------------------------------------------------------------------------
\* The core

\* States with one successor only.
Straight ==
  [Reset |-> "Idle",
   StartA |-> "StartB", StartB |-> "StartC", StartC |-> "StartD",
   RdA |-> "RdB", RdB |-> "RdC", RdC |-> "RdD", RdD |-> "RdE", RdF |-> "RdA",
   WrAckA |-> "WrAckB", WrAckB |-> "WrAckC", WrAckC |-> "WrAckD",
   WrA |-> "WrB", WrB |-> "WrC", WrC |-> "WrD", WrE |-> "WrA",
   RdAckA |-> "RdAckB", RdAckB |-> "RdAckC", RdAckC |-> "RdAckD", RdAckD |-> "RdAckE",
   StopA |-> "StopB", StopB |-> "StopC", StopC |-> "Done", Done |-> "DoneAck"]

Command == IF cr.wr THEN "WrA" ELSE IF cr.rd THEN "RdA" ELSE st
ByteEndPast == ctr = LastBit + 1 \* mutant: one bit too far
ByteEnd == ctr = LastBit
AfterByte == IF cr.stp THEN "StopA" ELSE "Done"
AfterDone == IF cmdDoneAck THEN "Idle" ELSE "DoneAck"
NextState ==
  CASE st \in DOMAIN Straight        -> Straight[st]
    [] st = "Idle"                   -> IF Tip /\ cr.sta THEN "StartA" ELSE Command
    [] st = "StartD"                 -> Command
    [] st = "RdE"                    -> IF ByteEnd THEN "WrAckA" ELSE "RdF"
    [] st = "WrD"                    -> IF ByteEnd THEN "RdAckA" ELSE "WrE"
    [] st \in {"WrAckD", "RdAckE"}   -> AfterByte
    [] st = "DoneAck"                -> AfterDone

\* i_sclk_en is 0: the state lasts one clock, the others wait for the bit clock.
Quick == {"Reset", "Idle", "RdC", "RdF", "WrE", "RdAckC", "Done", "DoneAck"}
Hold == {"Idle", "Done", "DoneAck"}

SclHigh == {"Reset", "StartB", "StartC", "RdB", "RdC", "RdD", "WrAckB", "WrAckC",
            "WrB", "WrC", "RdAckB", "RdAckC", "RdAckD", "StopB", "StopC"}
SclLevel == IF st \in Hold \cup {"StartA"} THEN sclIn ELSE IF st \in SclHigh THEN 1 ELSE 0
SdaLevel ==
  CASE st \in Hold -> sdaIn
    [] st \in {"WrA", "WrB", "WrC", "WrD", "WrE"} -> dr[ctr]
    [] st \in {"WrAckA", "WrAckB", "WrAckC", "WrAckD"} -> IF cr.ack THEN 1 ELSE 0
    [] st \in {"StartC", "StartD", "StopA", "StopB"} -> 0
    [] OTHER -> 1

Counting == IF st \in {"RdF", "WrE"} THEN (ctr + 1) % (LastBit + 1) ELSE ctr
BitCounterKept == Counting \* mutant: not cleared between two bytes
BitCounter == IF st = "Idle" THEN 0 ELSE Counting

Core ==
  /\ st' = IF sclk \/ st \in Quick THEN NextState ELSE st
  /\ ctr' = BitCounter
  /\ dout' = IF st = "RdC" THEN [dout EXCEPT ![ctr] = sdaIn] ELSE dout
  /\ ackOut' = IF st = "RdAckC" THEN sdaIn ELSE ackOut
  /\ cmdDone' = (st \in {"Done", "DoneAck"})
  /\ sclOut' = SclLevel /\ sdaOut' = SdaLevel
  /\ sclIn' = Scl /\ sdaIn' = Sda

\* The bit clock; its clock stretching is switched off (clk_wait is 0).
ClkGenLate == \* mutant: one clock late
  /\ sclk' = (clkCtr > clkdiv)
  /\ clkCtr' = IF clkCtr > clkdiv THEN 0 ELSE clkCtr + 1
ClkGen ==
  /\ sclk' = (clkCtr >= clkdiv)
  /\ clkCtr' = IF clkCtr >= clkdiv THEN 0 ELSE clkCtr + 1

-----------------------------------------------------------------------------
\* The registers. An access is [op, adr, val]; none is [op |-> "none"].

NoAccess == [op |-> "none"]
Write(a, v) == [op |-> "write", adr |-> a, val |-> v]
Read(a) == [op |-> "read", adr |-> a]

\* A write is taken only while no transfer is in progress; the end of a
\* transfer clears the command bits and is acknowledged to the core.
RegIdle(a) ==
  /\ ~Tip
  /\ dr' = IF a.op = "write" /\ a.adr = "DR" THEN a.val ELSE dr
  /\ cr' = IF a.op = "write" /\ a.adr = "CR" THEN a.val ELSE cr
  /\ clkdiv' = IF a.op = "write" /\ a.adr = "CD" THEN a.val ELSE clkdiv
  /\ ipe' = (ipe /\ ~(a.op # "none" /\ a.adr = "DR"))
  /\ cmdDoneAck' = FALSE
RegBusy ==
  /\ Tip /\ ~cmdDone
  /\ cmdDoneAck' = FALSE
  /\ UNCHANGED <<clkdiv, dr, cr, ipe>>
RegDone ==
  /\ Tip /\ cmdDone
  /\ cr' = [cr EXCEPT !.wr = FALSE, !.rd = FALSE, !.sta = FALSE, !.stp = FALSE]
  /\ ipe' = TRUE /\ cmdDoneAck' = TRUE
  /\ UNCHANGED <<clkdiv, dr>>

-----------------------------------------------------------------------------
\* What a bus monitor writes down besides bytes; ANY is a byte to be read.
START == <<"S">>
STOP == <<"P">>
NACK == <<"N">>
ANY == <<"any">>

\* The device: it takes bits on a rising SCL and changes SDA after a falling one.

Off == [mode |-> "off", n |-> 0, byte |-> [i \in 0..LastBit |-> 0], drive |-> 1, addr |-> FALSE]
Listen(first) == [Off EXCEPT !.mode = "recv", !.addr = first]
Send(b) == [Off EXCEPT !.mode = "send", !.byte = b, !.n = 1, !.drive = b[0]]

Steady == seen[1] = 1 /\ Scl = 1
Rising == seen[1] = 0 /\ Scl = 1
Falling == seen[1] = 1 /\ Scl = 0

DevStart == /\ Steady /\ seen[2] = 1 /\ Sda = 0
            /\ dev' = Listen(TRUE) /\ heard' = Append(heard, START)
DevStop == /\ Steady /\ seen[2] = 0 /\ Sda = 1
           /\ dev' = Off /\ heard' = Append(heard, STOP)
DevTakeBit ==
  /\ Rising /\ dev.mode = "recv"
  /\ dev' = [dev EXCEPT !.byte[dev.n] = Sda, !.n = @ + 1]
  /\ heard' = IF dev.n = LastBit THEN Append(heard, dev'.byte) ELSE heard
DevAck == \* a byte is complete: acknowledge it, or not
  /\ Falling /\ dev.mode = "recv" /\ dev.n = LastBit + 1
  /\ \/ /\ dev.addr => [dev.byte EXCEPT ![LastBit] = 0] = DevAddr
        /\ dev' = [dev EXCEPT !.mode = "ack", !.drive = 0]
        /\ UNCHANGED heard
     \/ dev' = Off /\ heard' = Append(heard, NACK)
DevAckEnd ==
  /\ Falling /\ dev.mode = "ack"
  /\ IF dev.addr /\ dev.byte[LastBit] = 1 THEN \E b \in Byte : dev' = Send(b)
     ELSE dev' = Listen(FALSE)
  /\ UNCHANGED heard
DevSendBit ==
  /\ Falling /\ dev.mode = "send"
  /\ dev' = IF dev.n <= LastBit THEN [dev EXCEPT !.n = @ + 1, !.drive = dev.byte[dev.n]]
            ELSE [dev EXCEPT !.mode = "wait", !.drive = 1]
  /\ heard' = IF dev.n <= LastBit THEN heard ELSE Append(heard, dev.byte)
DevMasterAck ==
  /\ Rising /\ dev.mode = "wait"
  /\ dev' = IF Sda = 0 THEN [dev EXCEPT !.mode = "more"] ELSE Off
  /\ UNCHANGED heard
DevSendMore ==
  /\ Falling /\ dev.mode = "more"
  /\ \E b \in Byte : dev' = Send(b)
  /\ UNCHANGED heard
DevQuiet ==
  /\ \/ seen = <<Scl, Sda>>
     \/ seen[1] = 0 /\ Scl = 0
     \/ Rising /\ dev.mode \notin {"recv", "wait"}
     \/ Falling /\ dev.mode = "recv" /\ dev.n <= LastBit
     \/ Falling /\ dev.mode \in {"off", "wait"}
  /\ UNCHANGED <<dev, heard>>
Device ==
  /\ \/ DevStart \/ DevStop \/ DevTakeBit \/ DevAck \/ DevAckEnd
     \/ DevSendBit \/ DevMasterAck \/ DevSendMore \/ DevQuiet
  /\ seen' = <<Scl, Sda>>

-----------------------------------------------------------------------------
BusInit ==
  /\ st = "Reset" /\ ctr = 0 /\ dout = [i \in 0..LastBit |-> 0] /\ ackOut = 0
  /\ cmdDone = FALSE /\ sclOut = 1 /\ sdaOut = 1 /\ sclIn = 1 /\ sdaIn = 1
  /\ clkCtr = 0 /\ sclk = TRUE
  /\ clkdiv = ResetDiv /\ dr = [i \in 0..LastBit |-> 0] /\ cr = Control({})
  /\ ipe = FALSE /\ cmdDoneAck = FALSE
  /\ dev = Off /\ seen = <<1, 1>> /\ heard = <<>>

\* One clock edge with the register access the processor makes at it.
Clock(a) ==
  /\ Core /\ ClkGen /\ Device
  /\ RegIdle(a) \/ RegBusy \/ RegDone
=============================================================================
