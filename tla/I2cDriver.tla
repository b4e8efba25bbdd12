------------------------------ MODULE I2cDriver ------------------------------
(***************************************************************************)
(* The I2C driver of i2c.c over the master of I2cCore, and the program of  *)
(* main.c that sets the camera up with it. A call of the driver is a       *)
(* script: the bytes it puts on the bus, each with its control bits and    *)
(* the error it returns when the byte is not acknowledged. Each register   *)
(* access is a step at a clock edge; the clock runs on between any two.    *)
(***************************************************************************)
EXTENDS I2cCore, SequencesExt

CONSTANTS
  Programs   \* the sequences of calls a program makes one after the other

\* The calls of i2c.h: data is "word|1" for what main read with bit 0 set.
Calls ==
  [op : {"write"}, device : Byte, index : Byte, data : {"word|1"} \cup Seq(Byte)]
    \cup [op : {"read"}, device : Byte, index : Byte, size : Nat]
    \cup [op : {"configure"}, irq : BOOLEAN]

ASSUME ProgramsAssumption ==
  \A p \in Programs : p \in Seq(Calls)
\* As main uses the driver: a divisor of 125 for its 50 MHz, reads of two bytes.
\* A read of no bytes would end without a STOP, its loop never running.
ASSUME UseAssumption ==
  /\ ClkCnt >= 1
  /\ \A p \in Programs : \A i \in 1..Len(p) : p[i].op = "read" => p[i].size >= 1

VARIABLES
  calls,     \* the calls still to make
  call,      \* the call being made or made last
  pos,       \* the command of its script it has come to
  pc,        \* where the driver stands in that command; "idle" between calls
  result,    \* what the call returned
  got,       \* the bytes it has read
  word       \* readdata of main, as two bytes

drvVars == <<calls, call, pos, pc, result, got, word>>
vars == <<busVars, drvVars>>

ToWrite(b) == [b EXCEPT ![LastBit] = 0]  \* device & 0xFE
ToRead(b) == [b EXCEPT ![LastBit] = 1]   \* device | 0x01

ZeroByte == [i \in 0..LastBit |-> 0]

Cmd(byte, bits, err) == [byte |-> byte, ctl |-> Control(bits), err |-> err]
WriteBytes(data) ==
  [i \in 1..Len(data) |-> Cmd(data[i], IF i < Len(data) THEN {"WR"} ELSE {"STP", "WR"}, "EBADACK")]
ReadBytes(n) == \* ACK in the control word sends a NACK, after the last byte
  [i \in 1..n |-> Cmd(ANY, IF i < n THEN {"RD"} ELSE {"STP", "RD", "ACK"}, "none")]

\* i2c_write, i2c_write_array, i2c_read and i2c_read_array as scripts.
Script(c) ==
  LET address == <<Cmd(ToWrite(c.device), {"STA", "WR"}, "ENODEV"), Cmd(c.index, {"WR"}, "EBADACK")>>
      turn == <<Cmd(ToRead(c.device), {"STA", "WR"}, "ENODEV")>>
  IN CASE c.op = "write" -> address \o WriteBytes(c.data)
       [] c.op = "read" -> address \o turn \o ReadBytes(c.size)
       [] c.op = "configure" -> <<>>
Command1 == Script(call)[pos]

-----------------------------------------------------------------------------
Init ==
  /\ BusInit
  /\ calls \in Programs
  /\ call = [op |-> "configure"] /\ pos = 1 /\ pc = "init" /\ result = "none"
  /\ got = <<>> /\ word = <<ZeroByte, ZeroByte>>

\* A clock edge without an access: a sleep, or the processor's own time.
Tick == Clock(NoAccess) /\ UNCHANGED drvVars

\* i2c_init: the divisor is set.
I2cInit ==
  /\ pc = "init"
  /\ Clock(Write("CD", ClkCnt)) /\ pc' = "idle"
  /\ UNCHANGED <<calls, call, pos, result, got, word>>

\* The next call of the program; "word|1" is what main read with bit 0 set.
Call ==
  /\ pc = "idle" /\ calls # <<>>
  /\ LET c == Head(calls) IN
     /\ call' = IF c.op = "write" /\ c.data = "word|1"
                THEN [c EXCEPT !.data = <<word[1], ToRead(word[2])>>] ELSE c
     /\ pc' = IF c.op = "configure" THEN "configure" ELSE "wait"
  /\ calls' = Tail(calls)
  /\ pos' = 1 /\ got' = <<>> /\ result' = "none" /\ heard' = <<>>
  /\ UNCHANGED <<coreVars, clkCtr, sclk, regVars, dev, seen, word>>

\* wait_end_of_transfer, before a command and after it.
PollOnce == TRUE \* mutant: one look at the status register
PollDone == ~Tip
WaitEndOfTransfer ==
  /\ pc \in {"wait", "finish"}
  /\ Clock(Read("SR"))
  /\ pc' = CASE ~PollDone -> pc
             [] PollDone /\ pc = "wait" -> IF Command1.ctl.wr THEN "data" ELSE "control"
             [] PollDone /\ pc = "finish" -> IF Command1.ctl.wr THEN "status" ELSE "fetch"
  /\ UNCHANGED <<calls, call, pos, result, got, word>>

WriteData ==
  /\ pc = "data"
  /\ Clock(Write("DR", Command1.byte)) /\ pc' = "control"
  /\ UNCHANGED <<calls, call, pos, result, got, word>>
WriteControl ==
  /\ pc = "control"
  /\ Clock(Write("CR", Command1.ctl)) /\ pc' = "finish"
  /\ UNCHANGED <<calls, call, pos, result, got, word>>

\* On to the next command with the bytes read so far, or the call returns I2C_SUCCESS.
Advance(bytes) ==
  /\ got' = bytes
  /\ IF pos < Len(Script(call))
     THEN pc' = "wait" /\ pos' = pos + 1 /\ UNCHANGED <<result, word>>
     ELSE /\ pc' = "idle" /\ result' = "SUCCESS" /\ UNCHANGED pos
          /\ word' = IF Len(bytes) = 2 THEN bytes ELSE word

CheckAckNever == \* mutant: the acknowledge is not looked at
  /\ pc = "status"
  /\ Clock(Read("SR"))
  /\ Advance(got)
  /\ UNCHANGED <<calls, call>>
CheckAck ==
  /\ pc = "status"
  /\ Clock(Read("SR"))
  /\ IF ackOut = 0 THEN Advance(got) ELSE pc' = "error" /\ UNCHANGED <<pos, got, result, word>>
  /\ UNCHANGED <<calls, call>>
\* Not acknowledged: a control word with STOP alone, and the error.
GiveUp ==
  /\ pc = "error"
  /\ Clock(Write("CR", Control({"STP"})))
  /\ pc' = "idle" /\ result' = Command1.err
  /\ UNCHANGED <<calls, call, pos, got, word>>
FetchByte ==
  /\ pc = "fetch"
  /\ Clock(Read("DR"))
  /\ Advance(Append(got, dout))
  /\ UNCHANGED <<calls, call>>

\* i2c_configure: STOP alone, then the interrupt enable.
ConfigureStop ==
  /\ pc = "configure"
  /\ Clock(Write("CR", Control({"STP"}))) /\ pc' = "config"
  /\ UNCHANGED <<calls, call, pos, result, got, word>>
ConfigureIrq ==
  /\ pc = "config"
  /\ Clock(Write("CR", Control(IF call.irq THEN {"IEN"} ELSE {})))
  /\ pc' = "idle"
  /\ UNCHANGED <<calls, call, pos, result, got, word>>

Driver == \/ I2cInit \/ Call \/ WaitEndOfTransfer \/ WriteData \/ WriteControl
          \/ CheckAck \/ GiveUp \/ FetchByte \/ ConfigureStop \/ ConfigureIrq
Next == Tick \/ Driver

Spec == Init /\ [][Next]_vars
\* The processor goes on with its program.
FairSpec == Spec /\ WF_vars(Driver)

-----------------------------------------------------------------------------
TypeOK ==
  /\ ctr \in 0..LastBit /\ dout \in Byte /\ dr \in Byte
  /\ {ackOut, sclOut, sdaOut, sclIn, sdaIn} \subseteq Bit
  /\ {cmdDone, sclk, ipe, cmdDoneAck} \subseteq BOOLEAN
  /\ clkdiv \in {ResetDiv, ClkCnt} /\ clkCtr \in (0..ResetDiv) \cup (0..ClkCnt)
  /\ dev.mode \in {"off", "recv", "ack", "send", "wait", "more"} /\ dev.n \in 0..LastBit + 1
  /\ pc \in {"init", "idle", "wait", "data", "control", "finish", "status", "error", "fetch",
             "configure", "config"}
  /\ result \in {"none", "SUCCESS", "ENODEV", "EBADACK"}
  /\ got \in Seq(Byte)

\* What a call puts on the bus when every byte is acknowledged.
Wire(c) == FlattenSeq([i \in 1..Len(Script(c)) |->
  LET k == Script(c)[i] IN
    (IF k.ctl.sta THEN <<START>> ELSE <<>>) \o <<k.byte>> \o (IF k.ctl.stp THEN <<STOP>> ELSE <<>>)])
ReadSize(c) == IF c.op = "read" THEN c.size ELSE 0 \* the bytes before its STOP
Carried(e, w) == e = w \/ (w = ANY /\ e \in Byte)

(* The bus carries the bytes of the call and nothing else: each byte and
   each START and STOP once and in order, with no command lost to a busy
   register file, carried out twice or made up between two calls; what
   comes after a byte that is not acknowledged is left to the error path. *)
BusCarriesCall ==
  LET w == Wire(call) IN
  /\ \A i \in 1..Len(heard) :
       \/ i <= Len(w) /\ Carried(heard[i], w[i])
       \/ NACK \in {heard[j] : j \in 1..i}
  /\ NACK \in {heard[i] : i \in 1..Len(heard)} => heard[Len(heard)] \in {NACK, STOP}

(* A call returns success only when every byte was acknowledged, all of the
   message down to the STOP went over the bus, and the bytes read are the
   bytes the device sent; an error only when the device did not answer. *)
ResultTruthful ==
  pc = "idle" =>
    /\ result = "SUCCESS" =>
         /\ Len(heard) = Len(Wire(call)) /\ NACK \notin {heard[i] : i \in 1..Len(heard)}
         /\ Len(got) = ReadSize(call)
         /\ \A i \in 1..Len(got) : got[i] = heard[Len(heard) - 1 - Len(got) + i]
    /\ result \in {"ENODEV", "EBADACK"} => NACK \in {heard[i] : i \in 1..Len(heard)}

(* The driver writes a register only while no transfer is in progress, the
   only time the register file takes a write (i2c_interface.vhd:291). *)
NoWriteLost == pc \in {"data", "control", "error", "configure", "config"} => ~Tip

(* Every call returns: the poll of TIP, which has no limit, always ends. *)
CallReturns == pc # "idle" ~> pc = "idle"
=============================================================================
